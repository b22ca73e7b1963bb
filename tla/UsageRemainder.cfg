SPECIFICATION Spec
CONSTANTS
  QueueCap = 2
  BatchSize = 2
  MaxRetries = 1
  FlushExpiry = 2
  DrainWindow = 2
  JoinGrace = 1
  MaxRecords = 5
INVARIANT NoSilentRemainder
CHECK_DEADLOCK FALSE
