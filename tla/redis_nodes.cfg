SPECIFICATION Spec
CONSTANTS
  n1 = n1  n2 = n2  p1 = p1  p2 = p2  alice = alice  bob = bob
  edit = edit  cut = cut  none = none
  Free = Free  Nil = Nil  NoSource = NoSource
  Nodes = {n1, n2}
  Procs = {p1, p2}
  Watchers = {}
  NodeOf <- OnNodes
  Requests <- RecreateRequests
  MaxCalls = 6
  MaxFaults = 0
  EarlyExpiry = FALSE
  Buffer = 1
  NoOp <- MCNoOp
  ApplyOp <- MCApply
  TransformOp <- MCTransform
INVARIANTS RebasedOverList
