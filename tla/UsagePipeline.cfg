SPECIFICATION Spec
CONSTANTS
  QueueCap = 2
  BatchSize = 2
  MaxRetries = 1
  FlushExpiry = 2
  DrainWindow = 2
  JoinGrace = 1
  MaxRecords = 5
INVARIANTS
  Accounted
  InsertedIsStored
  DrainComplete
PROPERTIES
  FlushSettles
CHECK_DEADLOCK FALSE
