SPECIFICATION Spec
CONSTANTS
  ChainLen = 2
  Candidates <- MCCandidates
  RetryAfters = {0, 2}
  ReadyIns = {1, 3}
  MaxClock <- MCMaxClock
INVARIANTS
  WaitInEnvelope
