SPECIFICATION Spec
CONSTANTS
  None = None
  MaxConns = 2
  MaxCommits = 1
  MaxSubmits = 1
  MaxTries = 2
  MaxDeletes = 0
  MaxAcks = 2
  LiveBuffer = 1
  SendBuffer = 1
  ReplayLimit = 2
  Stale = 99
INVARIANTS TypeOK OneLiveConnection LiveAfterReplay AttachedMissesNothing OwnSubmissionOnce OneSubmissionPerSequence
CONSTRAINT FewMessages
PROPERTIES AckNeverBack
CHECK_DEADLOCK FALSE
