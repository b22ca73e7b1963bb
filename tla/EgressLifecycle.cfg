SPECIFICATION Spec
CONSTANTS
  r1 = r1
  r2 = r2
  Requests <- TwoRequests
  NMembers = 1
  MaxConcurrency <- MCMaxConcurrency
  Weight <- MCWeight
  MaxAttempts = 1
  Threshold = 0
  Cooldown = 1
  MaxClock = 0
  MaxPublishes = 3
INVARIANTS
  LeasesConserved
  RegistryOwnsLive
  TeardownDeferred
PROPERTIES
  RetiredGoes
CHECK_DEADLOCK FALSE
