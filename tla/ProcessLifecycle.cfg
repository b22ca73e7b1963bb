SPECIFICATION Spec
CONSTANTS
  Contents = {"a", "b", "broken"}
  Valid = {"a", "b"}
  Boot = "a"
  Grace = 6
  Propagation = 3
  ProbeEvery = 1
  ProbeTimeout = 1
  MaxEdits = 2
  MaxSignals = 3
INVARIANTS
  NeverRoutedToClosed
  GraceHeld
PROPERTIES
  QuietExit
  ReloadConverges
CHECK_DEADLOCK FALSE
