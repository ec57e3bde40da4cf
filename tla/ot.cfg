SPECIFICATION Spec
CONSTANTS
  Docs <- MCDocs
  Fresh <- MCFresh
  Strings <- MCStrings
  Keys <- MCKeys
  MaxEdits = 3
INVARIANTS Converges ComposedIsSequence UndoRestores RebasedUndoRestores DiffReaches ListOTAgrees
CHECK_DEADLOCK FALSE
