SPECIFICATION Spec
CONSTANTS
  x = x  y = y  z = z  alice = alice  bob = bob
  p1 = p1  p2 = p2  s1 = s1
  Free = Free  NoDoc = NoDoc  Err = Err  Malformed = Malformed
  NoSource = NoSource
  NoOp <- MCNoOp
  IsEmptyOp <- MCIsEmpty
  ApplyOp <- MCApply
  TransformOp <- MCTransform
  InvertOp <- MCInvert
  ComposeOp <- MCCompose
  Procs = {p1, p2}
  Subs = {}
  Requests <- RecreateSubmitRequests
  MaxCalls = 7
  MaxRebaseGap = 0
  Buffer = 1
INVARIANTS RebasedOverLog
