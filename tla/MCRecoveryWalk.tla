--------------------------- MODULE MCRecoveryWalk ---------------------------
(* Small instances of the provider walk for TLC. *)
EXTENDS RecoveryWalk

Env(n, t) == [maxExchanges |-> n, maxElapsed |-> t]

(* Re-asks on every failure, then falls back; jittered backoff. *)
RetryPolicy ==
  [matrix |-> [k \in FailureKinds |-> {"retry"}],
   maxRetries |-> 1, retryElapsed |-> 2, onExhausted |-> "fallback",
   backoffInitial |-> 1, backoffMax |-> 2, jitter |-> 100,
   retryAfter |-> TRUE, retryAfterMax |-> 3,
   fallback |-> TRUE, maxCandidates |-> 2,
   request |-> Env(3, 3), candidate |-> Env(2, 2)]

(* A lost path and an unusable body fall back, an HTTP error is re-asked   *)
(* or falls back depending on its status; exhaustion is terminal.          *)
MixedPolicy ==
  [matrix |-> [credential |-> {"retry"}, transport |-> {"fallback"},
               http |-> {"retry", "fallback"}, protocol |-> {"fallback"}],
   maxRetries |-> 2, retryElapsed |-> 2, onExhausted |-> "terminal",
   backoffInitial |-> 1, backoffMax |-> 1, jitter |-> 0,
   retryAfter |-> FALSE, retryAfterMax |-> 0,
   fallback |-> TRUE, maxCandidates |-> 3,
   request |-> Env(4, 3), candidate |-> Env(3, 2)]

(* A walk of one candidate. *)
SolePolicy ==
  [MixedPolicy EXCEPT !.fallback = FALSE, !.maxCandidates = 1,
                      !.matrix["http"] = {"terminal"}]

MCCandidates ==
  {[policy |-> RetryPolicy, poolDials |-> 0, cred |-> TRUE, vision |-> FALSE],
   [policy |-> RetryPolicy, poolDials |-> 2, cred |-> FALSE, vision |-> FALSE],
   [policy |-> MixedPolicy, poolDials |-> 2, cred |-> TRUE, vision |-> TRUE],
   [policy |-> SolePolicy,  poolDials |-> 0, cred |-> FALSE, vision |-> FALSE]}

(* Bound: the last wait is scheduled before the request envelope's 3 ticks *)
(* are over and lasts at most a retry window of 2, so every wait ends.     *)
MCMaxClock == 4
=============================================================================
