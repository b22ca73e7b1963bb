--------------------------- MODULE ExchangeBudget ---------------------------
(***************************************************************************)
(* The exchange envelope of one request (internal/recovery/budget.go): how *)
(* many outbound exchanges it may start and for how long, in two nested    *)
(* scopes, the whole request and the candidate being tried.                *)
(*                                                                         *)
(* Every method of Budget runs under its mutex against ONE reading of the  *)
(* clock, so each is a pure operator on a budget record and an instant.    *)
(* Instants and durations are numbers of ticks.                            *)
(***************************************************************************)
EXTENDS Integers

(* An Envelope is reached when either half is: exchanges or elapsed time. *)
Envelopes == [maxExchanges : Nat, maxElapsed : Nat]

Budgets == [start : Nat, req : Envelopes, cand : Envelopes, candStart : Nat,
            reqUsed : Nat, candUsed : Nat]

(* Go's zero value: the candidate envelope before BeginCandidate funds     *)
(* nothing.                                                                *)
ZeroEnvelope == [maxExchanges |-> 0, maxElapsed |-> 0]

NewBudget(req, now) ==
  [start |-> now, req |-> req, cand |-> ZeroEnvelope, candStart |-> 0,
   reqUsed |-> 0, candUsed |-> 0]

(* The candidate's counter and clock start afresh, the request's do not. *)
BeginCandidate(b, cand, now) ==
  [b EXCEPT !.cand = cand, !.candStart = now, !.candUsed = 0]

(* At exactly the ceiling the envelope is spent. *)
Spent(now, start, limit) == now - start >= limit

RequestSpent(b, now) ==
  \/ b.reqUsed >= b.req.maxExchanges
  \/ Spent(now, b.start, b.req.maxElapsed)

CandidateEnvelopeSpent(b, now) ==
  \/ b.candUsed >= b.cand.maxExchanges
  \/ Spent(now, b.candStart, b.cand.maxElapsed)

(* Which envelope stops the walk; the request's is asked first. *)
Exhausted(b, now) ==
  IF RequestSpent(b, now) THEN "request"
  ELSE IF CandidateEnvelopeSpent(b, now) THEN "candidate"
  ELSE "none"

(* Mutant: the window of the candidate's envelope alone. *)
RemainingElapsedCandidateOnly(b, now) == b.cand.maxElapsed - (now - b.candStart)

(* The smaller of what the two envelopes still allow in time. *)
RemainingElapsed(b, now) ==
  LET req  == b.req.maxElapsed - (now - b.start)
      cand == b.cand.maxElapsed - (now - b.candStart)
  IN  IF cand < req THEN cand ELSE req

(* The claim: decided, counted and given its window in one critical        *)
(* section. A refusal spends nothing and grants no window.                 *)
AcquireExchange(b, now) ==
  IF Exhausted(b, now) # "none"
  THEN [granted |-> FALSE, window |-> 0, budget |-> b]
  ELSE [granted |-> TRUE,
        window  |-> RemainingElapsed(b, now),
        budget  |-> [b EXCEPT !.reqUsed = @ + 1, !.candUsed = @ + 1]]
=============================================================================
