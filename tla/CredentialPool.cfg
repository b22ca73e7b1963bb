SPECIFICATION Spec
CONSTANTS
  r1 = r1
  r2 = r2
  Requests <- TwoRequests
  NKeys = 2
  Cooldown = 1
  MaxCooldown = 2
  Directives = {0, 3}
  MaxClock = 2
  MaxPublishes = 1
SYMMETRY Interchangeable
INVARIANTS
  KeyComesBack
  WaitIsEnough
PROPERTIES
  NoEarlyReuse
  RotationFair
CHECK_DEADLOCK FALSE
