--------------------------- MODULE RecoveryEngine ---------------------------
(***************************************************************************)
(* The recovery engine's decisions (internal/recovery/engine.go): what a   *)
(* failed attempt means under the effective policy, the budget and the     *)
(* caller's liveness. The engine performs no I/O, so it is a set of pure   *)
(* operators; the walk (RecoveryWalk) executes what they decide.           *)
(***************************************************************************)
EXTENDS ExchangeBudget

Actions == {"terminal", "retry", "fallback"}

(* The failure layers a matrix tells apart. A caller failure never reaches *)
(* the matrix, and the walk answers it itself.                             *)
FailureKinds == {"credential", "transport", "http", "protocol"}

(* One complete, resolved policy. Jitter is a percentage; times are in     *)
(* ticks. The matrix is seen per failure layer: the actions its rules give *)
(* the causes of the layer (a 429 may be retried where a 401 falls back).  *)
Policies ==
  [matrix : [FailureKinds -> SUBSET Actions \ {{}}],
   maxRetries : Nat, retryElapsed : Nat, onExhausted : {"terminal", "fallback"},
   backoffInitial : Nat, backoffMax : Nat, jitter : 0..100,
   retryAfter : BOOLEAN, retryAfterMax : Nat,
   fallback : BOOLEAN, maxCandidates : Nat,
   request : Envelopes, candidate : Envelopes]

(* The coherence rules of Policy.Validate (its absolute caps apart): a     *)
(* policy that breaks one is rejected when the file is loaded.             *)
Validate(p) ==
  /\ p.retryElapsed >= 1
  /\ p.backoffInitial >= 1
  /\ p.backoffMax >= p.backoffInitial
  /\ IF p.fallback THEN p.maxCandidates >= 1 ELSE p.maxCandidates = 1
  /\ p.request.maxExchanges >= 1 /\ p.request.maxElapsed >= 1
  /\ p.candidate.maxExchanges >= 1 /\ p.candidate.maxElapsed >= 1
  /\ p.candidate.maxExchanges <= p.request.maxExchanges
  /\ p.candidate.maxElapsed <= p.request.maxElapsed
  /\ p.retryElapsed <= p.candidate.maxElapsed
  /\ p.maxRetries + 1 <= p.candidate.maxExchanges

Least(a, b) == IF a < b THEN a ELSE b
Greatest(a, b) == IF a > b THEN a ELSE b

(* The first candidate is always enterable; how far the walk may go beyond *)
(* it is a property of the PRIMARY candidate's policy.                     *)
CanEnter(primary, entered) ==
  \/ entered = 0
  \/ primary.fallback /\ entered < primary.maxCandidates

(* The wait doubles per further attempt and saturates at the ceiling. *)
BackoffDelay(p, attempts) ==
  Least(p.backoffInitial * 2^(attempts - 1), p.backoffMax)

(* Every wait the jitter can draw around the schedule, under its ceiling. *)
JitteredBackoffs(p, attempts) ==
  LET base == BackoffDelay(p, attempts)
  IN  {d \in 0..p.backoffMax :
         /\ 100 * (d - base) <= p.jitter * base
         /\ 100 * (base - d) <= p.jitter * base}

(* Retry-After raises the wait, up to the policy's ceilings. *)
Directive(p, o) ==
  LET capped == IF p.retryAfterMax > 0 THEN Least(o.retryAfter, p.retryAfterMax)
                ELSE o.retryAfter
  IN  IF p.retryAfter THEN Least(capped, p.backoffMax) ELSE 0

(* Mutant: the readiness floor is applied after the window has cut the wait. *)
RetryDelaysFloorLast(p, o, attempts, windowLeft) ==
  {Greatest(Least(Greatest(d, Directive(p, o)), windowLeft), o.readyIn) :
     d \in JitteredBackoffs(p, attempts)}

(* The bounded wait: schedule, raised to the directive and to the          *)
(* credential pool's readiness, shortened to what is left of the retry     *)
(* window. The request context carries no deadline (server.go sets none).  *)
RetryDelays(p, o, attempts, windowLeft) ==
  {Least(Greatest(Greatest(d, Directive(p, o)), o.readyIn), windowLeft) :
     d \in JitteredBackoffs(p, attempts)}

Decision(action, rule, delay) == [action |-> action, rule |-> rule, delay |-> delay]

(* The fallback budget gates a move to the next candidate. *)
Move(primary, entered, rule) ==
  Decision(IF CanEnter(primary, entered) THEN "fallback" ELSE "terminal", rule, 0)

(* A retryable failure whose budget is spent takes the on-exhausted action. *)
ExhaustedRetry(p, primary, entered, rule) ==
  IF p.onExhausted = "fallback" THEN Move(primary, entered, rule)
  ELSE Decision("terminal", rule, 0)

(* The transport refused to dial: no failure to classify, the retry        *)
(* policy's on-exhausted action decides, unless the request is spent.      *)
CandidateSpent(p, primary, entered, b, now) ==
  IF Exhausted(b, now) = "request" THEN Decision("terminal", "budget-request", 0)
  ELSE ExhaustedRetry(p, primary, entered, "budget-candidate")

(* Mutant: off by one in the retry budget. *)
RetryOnceTooOften(p, primary, entered, candAt, now, o) ==
  LET windowLeft == p.retryElapsed - (now - candAt)
  IN  IF o.attempt > p.maxRetries + 1 \/ windowLeft <= 0
      THEN {ExhaustedRetry(p, primary, entered, "matrix")}
      ELSE {Decision("retry", "matrix", d) : d \in RetryDelays(p, o, o.attempt, windowLeft)}

(* The candidate's retry budget: attempts first, then the window. *)
Retry(p, primary, entered, candAt, now, o) ==
  LET windowLeft == p.retryElapsed - (now - candAt)
      attempts   == Greatest(1, o.attempt)
  IN  IF attempts > p.maxRetries \/ windowLeft <= 0
      THEN {ExhaustedRetry(p, primary, entered, "matrix")}
      ELSE {Decision("retry", "matrix", d) : d \in RetryDelays(p, o, attempts, windowLeft)}

(* Following the action the matrix matched. A spent candidate envelope     *)
(* stops only another retry on that candidate.                             *)
Follow(action, p, primary, entered, candAt, b, now, o) ==
  CASE action = "terminal" -> {Decision("terminal", "matrix", 0)}
    [] action = "fallback" -> {Move(primary, entered, "matrix")}
    [] action = "retry" ->
         IF Exhausted(b, now) = "candidate"
         THEN {ExhaustedRetry(p, primary, entered, "matrix")}
         ELSE Retry(p, primary, entered, candAt, now, o)

(* Mutant: the matrix is asked without looking at the caller. *)
ObserveIgnoringCaller(p, primary, entered, candAt, b, now, callerGone, o) ==
  IF Exhausted(b, now) = "request" THEN {Decision("terminal", "budget-request", 0)}
  ELSE UNION {Follow(action, p, primary, entered, candAt, b, now, o) :
                action \in p.matrix[o.kind]}

(* The order of the gates is the order of the invariants: commitment, the  *)
(* caller, the request envelope, then the matrix. The set holds one        *)
(* decision per cause of the failure and per wait the jitter may draw.     *)
Observe(p, primary, entered, candAt, b, now, callerGone, o) ==
  IF o.committed THEN {Decision("terminal", "committed", 0)}
  ELSE IF callerGone THEN {Decision("terminal", "caller", 0)}
  ELSE IF Exhausted(b, now) = "request" THEN {Decision("terminal", "budget-request", 0)}
  ELSE UNION {Follow(action, p, primary, entered, candAt, b, now, o) :
                action \in p.matrix[o.kind]}
=============================================================================
