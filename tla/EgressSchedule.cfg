SPECIFICATION Spec
CONSTANTS
  r1 = r1
  r2 = r2
  Requests <- TwoRequests
  NMembers = 2
  MaxConcurrency <- MCMaxConcurrency
  Weight <- MCWeight
  MaxAttempts = 2
  Threshold = 1
  Cooldown = 1
  MaxClock = 1
  MaxPublishes = 0
INVARIANTS
  TypeOK
  PermitsConserved
  SentAtMostOnce
  CreditBounded
