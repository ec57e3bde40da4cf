SPECIFICATION FairSpec
CONSTANTS
  n1 = n1  n2 = n2  p1 = p1  p2 = p2  alice = alice  bob = bob
  edit = edit  cut = cut  none = none
  Free = Free  Nil = Nil  NoSource = NoSource
  Nodes = {n1, n2}
  Procs = {p1, p2}
  Watchers = {n1}
  NodeOf <- OnNodes
  Requests <- LifecycleRequests
  MaxCalls = 4
  MaxFaults = 1
  EarlyExpiry = TRUE
  Buffer = 1
  NoOp <- MCNoOp
  ApplyOp <- MCApply
  TransformOp <- MCTransform
INVARIANTS TypeOK LockedView SerialVersions AtMostOnce AcknowledgedIsKept SnapshotIsReplay StreamInOrder CachesCurrent RebasedInFirstLife
CONSTRAINT Serial
PROPERTIES LockComesFree ImplementsVersionedDoc
