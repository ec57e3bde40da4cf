SPECIFICATION Spec
CONSTANTS
  None = None
  MaxConns = 2
  MaxCommits = 2
  MaxSubmits = 1
  MaxTries = 1
  MaxDeletes = 1
  MaxAcks = 0
  LiveBuffer = 1
  SendBuffer = 1
  ReplayLimit = 2
  Stale = 99
INVARIANTS DeletionIsRelayed
CHECK_DEADLOCK FALSE
