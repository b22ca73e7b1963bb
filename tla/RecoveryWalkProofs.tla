------------------------- MODULE RecoveryWalkProofs -------------------------
(***************************************************************************)
(* Theorems about the provider walk, for every chain, policy and clock.    *)
(***************************************************************************)
EXTENDS RecoveryWalk, TLAPS

-----------------------------------------------------------------------------
(* Facts about the operators of the budget and the engine. *)

(* Every candidate of a chain has a well-typed, validated policy. *)
LEMMA ChainMember ==
  ASSUME TypeOK, NEW i \in Chain
  PROVE  /\ chain[i] \in Candidates
         /\ chain[i].policy \in Policies
         /\ Validate(chain[i].policy)
         /\ chain[i].poolDials \in Nat
         /\ chain[i].cred \in BOOLEAN
BY CandidatesAssumption DEF TypeOK, CandidateConfigs

(* So has the candidate whose policy is the request's. *)
LEMMA LeadMember ==
  ASSUME TypeOK
  PROVE  primary \in Policies /\ Validate(primary)
BY CandidatesAssumption DEF TypeOK, CandidateConfigs, primary

(* The envelopes and scalars of a policy have their types. *)
LEMMA PolicyFields ==
  ASSUME NEW p \in Policies
  PROVE  /\ p.request \in Envelopes /\ p.candidate \in Envelopes
         /\ p.maxRetries \in Nat /\ p.retryElapsed \in Nat
         /\ p.backoffMax \in Nat /\ p.retryAfterMax \in Nat
         /\ p.retryAfter \in BOOLEAN /\ p.fallback \in BOOLEAN
         /\ p.maxCandidates \in Nat
         /\ \A k \in FailureKinds : p.matrix[k] \subseteq Actions
BY DEF Policies

(* A new request envelope is a budget that has spent nothing. *)
LEMMA NewBudgetType ==
  ASSUME NEW e \in Envelopes, NEW t \in Nat
  PROVE  NewBudget(e, t) \in Budgets
BY DEF NewBudget, Budgets, Envelopes, ZeroEnvelope

(* BeginCandidate renews the candidate's half and leaves the request's. *)
LEMMA BeginCandidateFacts ==
  ASSUME NEW b \in Budgets, NEW e \in Envelopes, NEW t \in Nat
  PROVE  LET n == BeginCandidate(b, e, t)
         IN  /\ n \in Budgets
             /\ n.req = b.req /\ n.reqUsed = b.reqUsed /\ n.start = b.start
             /\ n.cand = e /\ n.candStart = t /\ n.candUsed = 0
BY DEF BeginCandidate, Budgets

(* A granted claim counts once in each scope, stays within both maxima,    *)
(* and its window is positive and ends inside both envelopes.              *)
LEMMA AcquireFacts ==
  ASSUME NEW b \in Budgets, NEW t \in Nat, AcquireExchange(b, t).granted
  PROVE  LET n == AcquireExchange(b, t).budget
             w == AcquireExchange(b, t).window
         IN  /\ n \in Budgets
             /\ n.req = b.req /\ n.cand = b.cand
             /\ n.start = b.start /\ n.candStart = b.candStart
             /\ n.reqUsed = b.reqUsed + 1 /\ n.candUsed = b.candUsed + 1
             /\ n.reqUsed <= b.req.maxExchanges
             /\ n.candUsed <= b.cand.maxExchanges
             /\ w \in Nat /\ w > 0
             /\ t + w <= b.start + b.req.maxElapsed
             /\ t + w <= b.candStart + b.cand.maxElapsed
<1>1. Exhausted(b, t) = "none"
  BY DEF AcquireExchange
<1>2. /\ AcquireExchange(b, t).budget = [b EXCEPT !.reqUsed = @ + 1, !.candUsed = @ + 1]
      /\ AcquireExchange(b, t).window = RemainingElapsed(b, t)
  BY <1>1 DEF AcquireExchange
<1>3. /\ b.reqUsed < b.req.maxExchanges /\ b.candUsed < b.cand.maxExchanges
      /\ t - b.start < b.req.maxElapsed /\ t - b.candStart < b.cand.maxElapsed
  BY <1>1 DEF Exhausted, RequestSpent, CandidateEnvelopeSpent, Spent, Budgets, Envelopes
<1>4. /\ RemainingElapsed(b, t) \in Nat /\ RemainingElapsed(b, t) > 0
      /\ t + RemainingElapsed(b, t) <= b.start + b.req.maxElapsed
      /\ t + RemainingElapsed(b, t) <= b.candStart + b.cand.maxElapsed
  BY <1>3 DEF RemainingElapsed, Budgets, Envelopes
<1>5. [b EXCEPT !.reqUsed = @ + 1, !.candUsed = @ + 1] \in Budgets
  <2>1. b.reqUsed + 1 \in Nat /\ b.candUsed + 1 \in Nat
    BY DEF Budgets
  <2> QED
    BY <2>1 DEF Budgets
<1> QED
  BY <1>2, <1>3, <1>4, <1>5 DEF Budgets, Envelopes

(* A wait is never longer than what is left of the retry window. *)
LEMMA RetryDelayFacts ==
  ASSUME NEW p \in Policies, NEW o \in Observations, NEW n \in Nat,
         NEW w \in Nat, NEW d \in RetryDelays(p, o, n, w)
  PROVE  d \in 0..w
<1>1. PICK j \in JitteredBackoffs(p, n) :
        d = Least(Greatest(Greatest(j, Directive(p, o)), o.readyIn), w)
  BY DEF RetryDelays
<1>2. j \in Nat
  BY <1>1, PolicyFields DEF JitteredBackoffs
<1>3. Directive(p, o) \in Nat /\ o.readyIn \in Nat
  BY PolicyFields DEF Directive, Least, Observations
<1> QED
  BY <1>1, <1>2, <1>3 DEF Least, Greatest

(* Whatever the engine decides is an action, and only a retry waits: at    *)
(* most until the candidate's retry window closes.                         *)
LEMMA ObserveFacts ==
  ASSUME NEW p \in Policies, NEW q \in Policies, NEW e \in Nat, NEW at \in Nat,
         NEW b \in Budgets, NEW t \in Nat, at <= t, NEW gone \in BOOLEAN,
         NEW o \in Observations,
         NEW d \in Observe(p, q, e, at, b, t, gone, o)
  PROVE  /\ d.action \in Actions /\ d.delay \in Nat
         /\ d.action = "retry" =>
              /\ ~gone /\ Greatest(1, o.attempt) <= p.maxRetries
              /\ t + d.delay <= at + p.retryElapsed
         /\ d.action = "fallback" => CanEnter(q, e)
<1> DEFINE left == p.retryElapsed - (t - at)
           n == Greatest(1, o.attempt)
<1>1. ASSUME NEW r PROVE LET m == Move(q, e, r) IN
        /\ m.action \in {"fallback", "terminal"} /\ m.delay = 0
        /\ m.action = "fallback" => CanEnter(q, e)
  BY DEF Move, Decision
<1>2. ASSUME NEW r PROVE LET m == ExhaustedRetry(p, q, e, r) IN
        /\ m.action \in {"fallback", "terminal"} /\ m.delay = 0
        /\ m.action = "fallback" => CanEnter(q, e)
  BY <1>1 DEF ExhaustedRetry, Decision
<1>3. CASE d \in Retry(p, q, e, at, t, o) /\ ~gone
  <2>1. CASE n > p.maxRetries \/ left <= 0
    BY <1>2, <1>3, <2>1 DEF Retry, Actions
  <2>2. CASE ~(n > p.maxRetries \/ left <= 0)
    <3>1. PICK y \in RetryDelays(p, o, n, left) : d = Decision("retry", "matrix", y)
      BY <1>3, <2>2 DEF Retry
    <3>2. n \in Nat /\ left \in Nat /\ n <= p.maxRetries
      BY <2>2, PolicyFields DEF Greatest, Observations
    <3>3. y \in 0..left
      BY <3>1, <3>2, RetryDelayFacts
    <3> QED
      BY <1>3, <3>1, <3>2, <3>3, PolicyFields DEF Decision, Actions
  <2> QED
    BY <2>1, <2>2
<1>4. CASE ~(d \in Retry(p, q, e, at, t, o) /\ ~gone)
  <2>1. CASE o.committed \/ gone \/ Exhausted(b, t) = "request"
    BY <2>1 DEF Observe, Decision, Actions
  <2>2. CASE ~(o.committed \/ gone \/ Exhausted(b, t) = "request")
    <3>1. PICK a \in p.matrix[o.kind] : d \in Follow(a, p, q, e, at, b, t, o)
      BY <2>2 DEF Observe
    <3>2. a \in Actions
      BY <3>1, PolicyFields DEF Observations
    <3>3. d \in {Decision("terminal", "matrix", 0), Move(q, e, "matrix"),
                 ExhaustedRetry(p, q, e, "matrix")}
      BY <1>4, <2>2, <3>1, <3>2 DEF Follow, Actions
    <3> QED
      BY <1>1, <1>2, <3>3 DEF Decision, Actions
  <2> QED
    BY <2>1, <2>2
<1> QED
  BY <1>3, <1>4

-----------------------------------------------------------------------------
(* Where the walk stands: the pcs at which a candidate is in scope, the    *)
(* candidates entered are a prefix of the chain, and the candidate's clock *)
(* was started in the past.                                                *)
InCandidate == {"attempt", "credential", "dial", "exchange", "observe", "wait"}

PlaceInv ==
  /\ pc \in InCandidate => cand \in Chain
  /\ entered = cand
  /\ candAt <= clock

(* What the initial state and every action do to types and place. *)
LEMMA TypeInit == Init => TypeOK /\ PlaceInv
<1> SUFFICES ASSUME Init PROVE TypeOK /\ PlaceInv
  OBVIOUS
<1>2. lead.policy.request \in Envelopes
  BY CandidatesAssumption DEF Init, CandidateConfigs, Policies
<1>3. budget \in Budgets
  BY <1>2, NewBudgetType DEF Init
<1>4. NoObservation \in Observations
  BY DEF NoObservation, Observations, FailureKinds
<1>5. NoAnswer \in [kind : AnswerKinds, cand : 0..ChainLen]
  BY ChainAssumption DEF NoAnswer, AnswerKinds
<1>6. wait \in [armed : BOOLEAN, until : Nat]
  BY DEF Init
<1>7. cand \in 0..ChainLen
  BY ChainAssumption DEF Init
<1>8. PlaceInv
  BY DEF Init, PlaceInv, InCandidate
<1> QED
  BY <1>3, <1>4, <1>5, <1>6, <1>7, <1>8 DEF Init, TypeOK, PCs, Outcomes

(* Every step preserves types and place.                                   *)
LEMMA TypeStep == TypeOK /\ PlaceInv /\ [Next]_vars => (TypeOK /\ PlaceInv)'
<1> SUFFICES ASSUME TypeOK, PlaceInv, [Next]_vars PROVE (TypeOK /\ PlaceInv)'
  OBVIOUS
<1> USE ChainAssumption DEF Chain
<1>o. ASSUME NEW k \in FailureKinds, NEW ra \in Nat, NEW ri \in Nat
      PROVE  Observed(k, ra, ri) \in Observations
  BY <1>o DEF Observed, Observations, TypeOK
<1>a. cand \in Chain => AnswerFor(failure) \in [kind : AnswerKinds, cand : 0..ChainLen]
  BY DEF AnswerFor, NoAnswer, AnswerKinds
<1>1. CASE EnterCandidate
  <2>1. CASE cand < ChainLen /\ CanEnter(primary, entered)
    <3>1. cand + 1 \in Chain
      BY <2>1 DEF TypeOK
    <3>2. chain[cand + 1].policy.candidate \in Envelopes
      BY <3>1, ChainMember, PolicyFields
    <3>3. budget' \in Budgets
      <4>1. budget' = BeginCandidate(budget, chain[cand + 1].policy.candidate, clock)
        BY <1>1, <2>1 DEF EnterCandidate
      <4>2. budget \in Budgets /\ clock \in Nat
        BY DEF TypeOK
      <4> QED
        BY <3>2, <4>1, <4>2, BeginCandidateFacts
    <3>4. /\ cand' = cand + 1 /\ entered' = entered + 1 /\ candAt' = clock
          /\ attempt' = 0 /\ pc' = "attempt"
      BY <1>1, <2>1 DEF EnterCandidate
    <3> QED
      BY <1>1, <3>1, <3>3, <3>4
      DEF EnterCandidate, TypeOK, PlaceInv, InCandidate, PCs, result, history
  <2>2. CASE ~(cand < ChainLen /\ CanEnter(primary, entered))
    BY <1>1, <2>2 DEF EnterCandidate, TypeOK, PlaceInv, InCandidate, PCs, place, result, history
  <2> QED
    BY <2>1, <2>2
<1>2. CASE BeginAttempt
  BY <1>2 DEF BeginAttempt, TypeOK, PlaceInv, InCandidate, PCs, place, result, history
<1>3. CASE TransformRejects
  BY <1>3 DEF TransformRejects, Complete, TypeOK, PlaceInv, InCandidate, PCs, Outcomes,
              place, counters, exchange, history
<1>4. CASE CredentialAcquired
  BY <1>4 DEF CredentialAcquired, TypeOK, PlaceInv, InCandidate, PCs,
              place, counters, exchange, result, history
<1>5. CASE CredentialUnavailable
  BY <1>5, <1>o, TicksAssumption
  DEF CredentialUnavailable, FailureKinds, TypeOK, PlaceInv, InCandidate, PCs,
      place, counters, exchange, result, history
<1>6. CASE ClaimExchange
  <2>1. budget' \in Budgets /\ deadline' \in Nat
    BY <1>6, AcquireFacts DEF ClaimExchange, TypeOK
  <2> QED
    BY <1>6, <2>1 DEF ClaimExchange, TypeOK, PlaceInv, InCandidate, PCs, place, counters, result
<1>7. CASE ClaimRefused
  BY <1>7, <1>o DEF ClaimRefused, EndpointFailed, Complete, FailureKinds, TypeOK, PlaceInv,
                    InCandidate, PCs, Outcomes, place, counters, exchange, history
<1>8. CASE NoEligibleEndpoint
  BY <1>8, <1>o
  DEF NoEligibleEndpoint, EndpointFailed, Complete, FailureKinds, TypeOK, PlaceInv,
                    InCandidate, PCs, Outcomes, place, counters, exchange, history
<1>9. CASE ExchangeFails
  BY <1>9, <1>o DEF ExchangeFails, EndpointFailed, Complete, FailureKinds, TypeOK, PlaceInv,
                    InCandidate, PCs, Outcomes, place, counters, exchange, history
<1>10. CASE ExchangeTimesOut
  <2>1. CASE EndpointFailed /\ UNCHANGED heard
    BY <1>10, <2>1, <1>o DEF ExchangeTimesOut, EndpointFailed, Complete, FailureKinds, TypeOK,
                    PlaceInv, InCandidate, PCs, Outcomes, place, counters, exchange
  <2>2. CASE /\ pc' = "observe" /\ failure' = Observed("protocol", 0, 0)
             /\ heard' = heard \cup {cand} /\ UNCHANGED outcome
    BY <1>10, <2>2, <1>o DEF ExchangeTimesOut, FailureKinds, TypeOK,
                    PlaceInv, InCandidate, PCs, Outcomes, place, counters, exchange
  <2> QED
    BY <1>10, <2>1, <2>2 DEF ExchangeTimesOut
<1>11. CASE ErrorAnswered
  BY <1>11, <1>o, TicksAssumption
  DEF ErrorAnswered, FailureKinds, TypeOK, PlaceInv, InCandidate, PCs,
      place, counters, exchange, result
<1>12. CASE BodyAbandoned
  BY <1>12 DEF BodyAbandoned, Complete, TypeOK, PlaceInv, InCandidate, PCs, Outcomes,
               place, counters, exchange
<1>13. CASE InvalidAnswered
  BY <1>13, <1>o DEF InvalidAnswered, FailureKinds, TypeOK, PlaceInv, InCandidate, PCs,
               place, counters, exchange, result
<1>14. CASE CapacityRefused
  BY <1>14 DEF CapacityRefused, Complete, TypeOK, PlaceInv, InCandidate, PCs, Outcomes,
               place, counters, exchange
<1>15. CASE AnswerCommitted
  BY <1>15 DEF AnswerCommitted, AnswerKinds, TypeOK, PlaceInv, InCandidate, PCs,
               place, counters, exchange
<1>16. CASE Decide
  <2>1. PICK d \in Observe(policy, primary, entered, candAt, budget, clock, cancelled, failure) :
          /\ pc' \in {"wait", "enter", "finalize"}
          /\ pc' = "wait" <=> WalkAction(d.action) = "retry"
          /\ wait' = IF WalkAction(d.action) = "retry"
                     THEN [armed |-> d.delay > 0, until |-> clock + d.delay] ELSE wait
          /\ retained' = RetainedOn(WalkAction(d.action))
          /\ answer' = AnswerOn(WalkAction(d.action))
    BY <1>16 DEF Decide
  <2>2. cand \in Chain /\ 1 \in Chain
    BY <1>16 DEF Decide, PlaceInv, InCandidate
  <2>3. policy \in Policies /\ primary \in Policies
    BY <2>2, ChainMember, LeadMember DEF policy
  <2>4. d.delay \in Nat
    BY <2>1, <2>3, ObserveFacts DEF TypeOK, PlaceInv
  <2>5. wait' \in [armed : BOOLEAN, until : Nat]
    BY <2>1, <2>4 DEF TypeOK
  <2>6. /\ retained' \in [kind : AnswerKinds, cand : 0..ChainLen]
        /\ answer' \in [kind : AnswerKinds, cand : 0..ChainLen]
    BY <1>a, <2>1, <2>2 DEF RetainedOn, AnswerOn, TypeOK
  <2> QED
    BY <1>16, <2>1, <2>2, <2>5, <2>6
    DEF Decide, TypeOK, PlaceInv, InCandidate, PCs, place, counters, exchange, history
<1>17. CASE WaitOver
  BY <1>17 DEF WaitOver, TypeOK, PlaceInv, InCandidate, PCs,
               place, counters, exchange, result, history
<1>18. CASE WaitAborted
  BY <1>18 DEF WaitAborted, Complete, TypeOK, PlaceInv, InCandidate, PCs, Outcomes,
               place, counters, exchange, history
<1>19. CASE Finalize
  BY <1>19 DEF Finalize, Complete, TypeOK, PlaceInv, InCandidate, PCs, Outcomes,
               place, counters, exchange, history
<1>20. CASE Relay
  BY <1>20 DEF Relay, Complete, TypeOK, PlaceInv, InCandidate, PCs, Outcomes,
               place, counters, exchange, history
<1>21. CASE CallerGoes
  BY <1>21 DEF CallerGoes, TypeOK, PlaceInv, InCandidate,
               place, counters, exchange, result, history
<1>22. CASE Tick
  BY <1>22 DEF Tick, TypeOK, PlaceInv, InCandidate,
               place, counters, exchange, result, history
<1>23. CASE UNCHANGED vars
  BY <1>23 DEF vars, TypeOK, PlaceInv
<1> QED
  BY <1>1, <1>2, <1>3, <1>4, <1>5, <1>6, <1>7, <1>8, <1>9, <1>10, <1>11, <1>12, <1>13,
     <1>14, <1>15, <1>16, <1>17, <1>18, <1>19, <1>20, <1>21, <1>22, <1>23
  DEF Next, HandlerStep, Environment, Terminated

(* The walk's state always has its type, whatever the chain, the policies, *)
(* the upstreams and the client do.                                        *)
THEOREM WalkTypeCorrect == Spec => []TypeOK
<1>1. Spec => [](TypeOK /\ PlaceInv)
  BY TypeInit, TypeStep, PTL DEF Spec
<1> QED
  BY <1>1, PTL

-----------------------------------------------------------------------------
(* Why the envelope holds: the budget's two envelopes are the ones of the  *)
(* primary and of the candidate in scope, its candidate clock is the       *)
(* candidate's entry, and every count and deadline respects them.          *)
BudgetInv ==
  /\ budget.req = primary.request
  /\ budget.reqUsed <= budget.req.maxExchanges
  /\ cand \in Chain => /\ budget.cand = policy.candidate
                       /\ budget.candStart = candAt
                       /\ budget.candUsed <= budget.cand.maxExchanges
  /\ pc = "exchange" => /\ deadline <= budget.start + budget.req.maxElapsed
                        /\ deadline <= budget.candStart + budget.cand.maxElapsed

(* The request envelope starts unspent and unoccupied.                     *)
LEMMA BudgetInit == Init => BudgetInv
<1> SUFFICES ASSUME Init PROVE BudgetInv
  OBVIOUS
<1>1. primary.request.maxExchanges \in Nat
  <2>1. TypeOK
    BY TypeInit
  <2>2. primary.request \in Envelopes
    BY <2>1, LeadMember, PolicyFields
  <2> QED
    BY <2>2 DEF Envelopes
<1>2. cand \notin Chain
  BY ChainAssumption DEF Init, Chain
<1> QED
  BY <1>1, <1>2 DEF Init, BudgetInv, NewBudget, primary

(* Two actions touch the budget, the clock it is measured from or the      *)
(* deadline; no other starts an exchange.                                  *)
LEMMA BudgetFrame ==
  ASSUME [Next]_vars, ~EnterCandidate, ~ClaimExchange
  PROVE  /\ UNCHANGED <<lead, chain, cand, entered, candAt, budget, deadline>>
         /\ pc' = "exchange" => pc = "exchange"
<1>1. CASE UNCHANGED vars
  BY <1>1 DEF vars
<1>2. CASE BeginAttempt \/ TransformRejects \/ CredentialAcquired \/ CredentialUnavailable
  BY <1>2 DEF BeginAttempt, TransformRejects, CredentialAcquired, CredentialUnavailable,
              Complete, place, counters, exchange
<1>3. CASE ClaimRefused \/ NoEligibleEndpoint
  BY <1>3 DEF ClaimRefused, NoEligibleEndpoint, EndpointFailed, Complete,
              place, counters, exchange
<1>7. CASE ExchangeFails \/ ExchangeTimesOut
  BY <1>7 DEF ExchangeFails, ExchangeTimesOut, EndpointFailed, Complete,
              place, counters, exchange
<1>4. CASE ErrorAnswered \/ BodyAbandoned \/ InvalidAnswered \/ CapacityRefused \/ AnswerCommitted
  BY <1>4 DEF ErrorAnswered, BodyAbandoned, InvalidAnswered, CapacityRefused, AnswerCommitted,
              Complete, place, counters, exchange
<1>5. CASE Decide \/ WaitOver \/ WaitAborted
  BY <1>5 DEF Decide, WaitOver, WaitAborted, Complete, place, counters, exchange
<1>6. CASE Finalize \/ Relay \/ CallerGoes \/ Tick
  BY <1>6 DEF Finalize, Relay, CallerGoes, Tick, Complete, place, counters, exchange
<1> QED
  BY <1>1, <1>2, <1>3, <1>4, <1>5, <1>6, <1>7 DEF Next, HandlerStep, Environment, Terminated

(* Every step keeps both envelopes: only a granted claim spends, and it    *)
(* carries a deadline inside both.                                         *)
LEMMA BudgetStep ==
  TypeOK /\ PlaceInv /\ BudgetInv /\ [Next]_vars => BudgetInv'
<1> SUFFICES ASSUME TypeOK, PlaceInv, BudgetInv, [Next]_vars PROVE BudgetInv'
  OBVIOUS
<1>1. CASE EnterCandidate
  <2>1. CASE cand < ChainLen /\ CanEnter(primary, entered)
    <3>1. cand + 1 \in Chain
      BY <2>1, ChainAssumption DEF TypeOK, Chain
    <3>2. chain[cand + 1].policy.candidate \in Envelopes
      BY <3>1, ChainMember, PolicyFields
    <3>3. /\ budget' = BeginCandidate(budget, chain[cand + 1].policy.candidate, clock)
          /\ cand' = cand + 1 /\ candAt' = clock /\ pc' = "attempt" /\ chain' = chain /\ lead' = lead
      BY <1>1, <2>1 DEF EnterCandidate
    <3>4. budget \in Budgets /\ clock \in Nat
      BY DEF TypeOK
    <3>5. /\ budget'.req = budget.req /\ budget'.reqUsed = budget.reqUsed
          /\ budget'.cand = chain[cand + 1].policy.candidate
          /\ budget'.candStart = clock /\ budget'.candUsed = 0
      BY <3>2, <3>3, <3>4, BeginCandidateFacts
    <3>6. chain[cand + 1].policy.candidate.maxExchanges >= 0
      BY <3>2 DEF Envelopes
    <3> QED
      BY <3>3, <3>5, <3>6 DEF BudgetInv, primary, policy
  <2>2. CASE ~(cand < ChainLen /\ CanEnter(primary, entered))
    BY <1>1, <2>2 DEF EnterCandidate, BudgetInv, primary, policy, place
  <2> QED
    BY <2>1, <2>2
<1>2. CASE ClaimExchange
  <2>1. budget \in Budgets /\ clock \in Nat
    BY DEF TypeOK
  <2>2. /\ budget'.req = budget.req /\ budget'.cand = budget.cand
        /\ budget'.start = budget.start /\ budget'.candStart = budget.candStart
        /\ budget'.reqUsed <= budget.req.maxExchanges
        /\ budget'.candUsed <= budget.cand.maxExchanges
        /\ deadline' <= budget.start + budget.req.maxElapsed
        /\ deadline' <= budget.candStart + budget.cand.maxElapsed
    BY <1>2, <2>1, AcquireFacts DEF ClaimExchange
  <2> QED
    BY <1>2, <2>2 DEF ClaimExchange, BudgetInv, primary, policy, place
<1>3. CASE ~EnterCandidate /\ ~ClaimExchange
  BY <1>3, BudgetFrame DEF BudgetInv, primary, policy
<1> QED
  BY <1>1, <1>2, <1>3

(* The exchange envelope is final: whatever the policies multiply into, no *)
(* request and no candidate starts more exchanges than its envelope allows *)
(* and none is in flight past its end.                                     *)
THEOREM WalkEnvelopeHeld == Spec => []EnvelopeHeld
<1>1. TypeOK /\ PlaceInv /\ BudgetInv => EnvelopeHeld
  <2> SUFFICES ASSUME TypeOK, PlaceInv, BudgetInv PROVE EnvelopeHeld
    OBVIOUS
  <2>1. cand > 0 <=> cand \in Chain
    BY ChainAssumption DEF TypeOK, Chain
  <2>2. pc = "exchange" => cand \in Chain
    BY DEF PlaceInv, InCandidate
  <2> QED
    BY <2>1, <2>2 DEF BudgetInv, EnvelopeHeld
<1> QED
  BY <1>1, TypeInit, TypeStep, BudgetInit, BudgetStep, PTL DEF Spec

-----------------------------------------------------------------------------
(* A scheduled wait ends inside the candidate's retry window. *)
LEMMA DecideFacts ==
  ASSUME TypeOK, PlaceInv, Decide
  PROVE  /\ pc' \in {"wait", "enter", "finalize"}
         /\ cand \in Chain
         /\ pc' = "wait" =>
              /\ ~cancelled
              /\ Greatest(1, failure.attempt) <= policy.maxRetries
              /\ wait'.until <= candAt + policy.retryElapsed
         /\ pc' = "enter" => cand < ChainLen /\ CanEnter(primary, entered)
         /\ retained' = IF pc' = "enter" /\ AnswerFor(failure) # NoAnswer
                        THEN AnswerFor(failure) ELSE retained
         /\ answer' = IF pc' = "finalize" THEN AnswerFor(failure) ELSE answer
         /\ UNCHANGED <<lead, chain, clock, cancelled, cand, entered, candAt, attempt, retries,
                        attempts, budget, failure, outcome, heard, lateClaims>>
<1>1. PICK d \in Observe(policy, primary, entered, candAt, budget, clock, cancelled, failure) :
        /\ pc' = CASE WalkAction(d.action) = "retry" -> "wait"
                   [] WalkAction(d.action) = "fallback" -> "enter"
                   [] OTHER -> "finalize"
        /\ wait' = IF WalkAction(d.action) = "retry"
                   THEN [armed |-> d.delay > 0, until |-> clock + d.delay] ELSE wait
        /\ retained' = RetainedOn(WalkAction(d.action))
        /\ answer' = AnswerOn(WalkAction(d.action))
  BY DEF Decide
<1>2. cand \in Chain /\ 1 \in Chain
  BY ChainAssumption DEF Decide, PlaceInv, InCandidate, Chain
<1>3. policy \in Policies /\ primary \in Policies
  BY <1>2, ChainMember, LeadMember DEF policy
<1>4. /\ d.action \in Actions /\ d.delay \in Nat
      /\ d.action = "retry" =>
           /\ ~cancelled /\ Greatest(1, failure.attempt) <= policy.maxRetries
           /\ clock + d.delay <= candAt + policy.retryElapsed
      /\ d.action = "fallback" => CanEnter(primary, entered)
  BY <1>1, <1>3, ObserveFacts DEF TypeOK, PlaceInv
<1>5. /\ WalkAction(d.action) = "retry" <=> d.action = "retry"
      /\ WalkAction(d.action) = "fallback" <=> d.action = "fallback" /\ cand # ChainLen
      /\ WalkAction(d.action) \in Actions
  BY <1>4 DEF WalkAction, Actions
<1>6. cand # ChainLen => cand < ChainLen
  BY <1>2, ChainAssumption DEF Chain
<1> QED
  BY <1>1, <1>2, <1>4, <1>5, <1>6
  DEF Decide, RetainedOn, AnswerOn, Actions, place, counters, exchange, history

(* Every step keeps the scheduled wait inside the retry window.            *)
LEMMA WaitStep ==
  TypeOK /\ PlaceInv /\ WaitInRetryWindow /\ [Next]_vars => WaitInRetryWindow'
<1> SUFFICES ASSUME TypeOK, PlaceInv, WaitInRetryWindow, [Next]_vars
             PROVE  WaitInRetryWindow'
  OBVIOUS
<1>1. CASE Decide
  BY <1>1, DecideFacts DEF WaitInRetryWindow, policy
<1>2. CASE UNCHANGED vars
  BY <1>2 DEF vars, WaitInRetryWindow, policy
<1>3. CASE EnterCandidate
  BY <1>3
  DEF EnterCandidate, WaitInRetryWindow, policy, Complete, EndpointFailed, place,
      counters, exchange, result, history
<1>4. CASE BeginAttempt \/ TransformRejects \/ CredentialAcquired \/ CredentialUnavailable
  BY <1>4
  DEF BeginAttempt, TransformRejects, CredentialAcquired, CredentialUnavailable,
      WaitInRetryWindow, policy, Complete, EndpointFailed, place, counters, exchange,
      result, history
<1>5. CASE ClaimExchange
  BY <1>5
  DEF ClaimExchange, WaitInRetryWindow, policy, Complete, EndpointFailed, place, counters,
      exchange, result, history
<1>6. CASE ClaimRefused
  BY <1>6
  DEF ClaimRefused, WaitInRetryWindow, policy, Complete, EndpointFailed, place, counters,
      exchange, result, history
<1>7. CASE NoEligibleEndpoint \/ ExchangeFails
  BY <1>7
  DEF NoEligibleEndpoint, ExchangeFails, WaitInRetryWindow, policy, Complete,
      EndpointFailed, place, counters, exchange, result, history
<1>8. CASE ExchangeTimesOut
  BY <1>8
  DEF ExchangeTimesOut, WaitInRetryWindow, policy, Complete, EndpointFailed, place,
      counters, exchange, result, history
<1>9. CASE ErrorAnswered \/ BodyAbandoned \/ InvalidAnswered
  BY <1>9
  DEF ErrorAnswered, BodyAbandoned, InvalidAnswered, WaitInRetryWindow, policy, Complete,
      EndpointFailed, place, counters, exchange, result, history
<1>10. CASE CapacityRefused \/ AnswerCommitted
  BY <1>10
  DEF CapacityRefused, AnswerCommitted, WaitInRetryWindow, policy, Complete,
      EndpointFailed, place, counters, exchange, result, history
<1>11. CASE WaitOver \/ WaitAborted
  BY <1>11
  DEF WaitOver, WaitAborted, WaitInRetryWindow, policy, Complete, EndpointFailed, place,
      counters, exchange, result, history
<1>12. CASE Finalize \/ Relay
  BY <1>12
  DEF Finalize, Relay, WaitInRetryWindow, policy, Complete, EndpointFailed, place,
      counters, exchange, result, history
<1>13. CASE CallerGoes \/ Tick
  BY <1>13
  DEF CallerGoes, Tick, WaitInRetryWindow, policy, Complete, EndpointFailed, place,
      counters, exchange, result, history
<1> QED
  BY <1>1, <1>2, <1>3, <1>4, <1>5, <1>6, <1>7, <1>8, <1>9, <1>10, <1>11, <1>12, <1>13
  DEF Next, HandlerStep, Environment, Terminated

(* No directive, jitter or cooldown makes the walk sleep past the retry    *)
(* window of the candidate it is asking.                                   *)
THEOREM WalkWaitInRetryWindow == Spec => []WaitInRetryWindow
<1>1. Init => WaitInRetryWindow
  BY DEF Init, WaitInRetryWindow
<1> QED
  BY <1>1, TypeInit, TypeStep, WaitStep, PTL DEF Spec

-----------------------------------------------------------------------------
(* The engine lets a spent candidate fall back only where it could enter   *)
(* another.                                                                *)
LEMMA CandidateSpentFacts ==
  ASSUME NEW p, NEW q, NEW e, NEW b, NEW t
  PROVE  LET d == CandidateSpent(p, q, e, b, t)
         IN  /\ d.action \in {"terminal", "fallback"}
             /\ d.action = "fallback" => CanEnter(q, e)
BY DEF CandidateSpent, ExhaustedRetry, Move, Decision

(* Every step that leaves for the next candidate has one to enter.         *)
LEMMA FallbackStep ==
  TypeOK /\ PlaceInv /\ FallbackLands /\ [Next]_vars => FallbackLands'
<1> SUFFICES ASSUME TypeOK, PlaceInv, FallbackLands, [Next]_vars
             PROVE  FallbackLands'
  OBVIOUS
<1>1. CASE Decide
  BY <1>1, DecideFacts DEF FallbackLands, primary
<1>2. CASE UNCHANGED vars
  BY <1>2 DEF vars, FallbackLands, primary
<1>3. CASE EnterCandidate
  BY <1>3
  DEF EnterCandidate, FallbackLands, primary, Complete, EndpointFailed, place, counters,
      exchange, result, history
<1>4. CASE BeginAttempt \/ TransformRejects \/ CredentialAcquired \/ CredentialUnavailable
  BY <1>4
  DEF BeginAttempt, TransformRejects, CredentialAcquired, CredentialUnavailable,
      FallbackLands, primary, Complete, EndpointFailed, place, counters, exchange, result,
      history
<1>5. CASE ClaimExchange
  BY <1>5
  DEF ClaimExchange, FallbackLands, primary, Complete, EndpointFailed, place, counters,
      exchange, result, history
<1>6. CASE ClaimRefused
  <2>1. UNCHANGED <<lead, chain, cand, entered>>
    BY <1>6 DEF ClaimRefused, place
  <2>2. pc' = "enter" => cand # ChainLen /\ CanEnter(primary, entered)
    BY <1>6, CandidateSpentFacts DEF ClaimRefused, EndpointFailed, Complete, WalkAction
  <2>3. cand # ChainLen => cand < ChainLen
    BY ChainAssumption DEF TypeOK
  <2> QED
    BY <2>1, <2>2, <2>3 DEF FallbackLands, primary
<1>7. CASE NoEligibleEndpoint \/ ExchangeFails
  BY <1>7
  DEF NoEligibleEndpoint, ExchangeFails, FallbackLands, primary, Complete, EndpointFailed,
      place, counters, exchange, result, history
<1>8. CASE ExchangeTimesOut
  BY <1>8
  DEF ExchangeTimesOut, FallbackLands, primary, Complete, EndpointFailed, place, counters,
      exchange, result, history
<1>9. CASE ErrorAnswered \/ BodyAbandoned \/ InvalidAnswered
  BY <1>9
  DEF ErrorAnswered, BodyAbandoned, InvalidAnswered, FallbackLands, primary, Complete,
      EndpointFailed, place, counters, exchange, result, history
<1>10. CASE CapacityRefused \/ AnswerCommitted
  BY <1>10
  DEF CapacityRefused, AnswerCommitted, FallbackLands, primary, Complete, EndpointFailed,
      place, counters, exchange, result, history
<1>11. CASE WaitOver \/ WaitAborted
  BY <1>11
  DEF WaitOver, WaitAborted, FallbackLands, primary, Complete, EndpointFailed, place,
      counters, exchange, result, history
<1>12. CASE Finalize \/ Relay
  BY <1>12
  DEF Finalize, Relay, FallbackLands, primary, Complete, EndpointFailed, place, counters,
      exchange, result, history
<1>13. CASE CallerGoes \/ Tick
  BY <1>13
  DEF CallerGoes, Tick, FallbackLands, primary, Complete, EndpointFailed, place, counters,
      exchange, result, history
<1> QED
  BY <1>1, <1>2, <1>3, <1>4, <1>5, <1>6, <1>7, <1>8, <1>9, <1>10, <1>11, <1>12, <1>13
  DEF Next, HandlerStep, Environment, Terminated

(* A fallback decision always lands: EnterCandidate never refuses a move   *)
(* the engine and walkAction allowed.                                      *)
THEOREM WalkFallbackLands == Spec => []FallbackLands
<1>1. Init => FallbackLands
  BY ChainAssumption DEF Init, FallbackLands, CanEnter
<1> QED
  BY <1>1, TypeInit, TypeStep, FallbackStep, PTL DEF Spec

-----------------------------------------------------------------------------
(* Why a caller that is gone costs at most one exchange: after a late      *)
(* claim the walk is in that exchange or past it, and every way on from    *)
(* there ends the walk.                                                    *)
LateInv ==
  /\ lateClaims \in {0, 1}
  /\ lateClaims = 1 =>
       cancelled /\ pc \in {"exchange", "observe", "finalize", "relay", "done"}

(* After the one late claim the walk has no way back to a dial.            *)
LEMMA LateStep == TypeOK /\ PlaceInv /\ LateInv /\ [Next]_vars => LateInv'
<1> SUFFICES ASSUME TypeOK, PlaceInv, LateInv, [Next]_vars PROVE LateInv'
  OBVIOUS
<1>1. CASE Decide
  <2>1. ASSUME cancelled PROVE pc' = "finalize"
    BY <1>1, <2>1 DEF Decide, Observe, Decision, WalkAction
  <2> QED
    BY <1>1, <2>1, DecideFacts DEF LateInv
<1>2. CASE UNCHANGED vars
  BY <1>2 DEF vars, LateInv
<1>3. CASE EnterCandidate
  BY <1>3
  DEF EnterCandidate, LateInv, Complete, EndpointFailed, place, counters, exchange,
      result, history
<1>4. CASE BeginAttempt \/ TransformRejects \/ CredentialAcquired \/ CredentialUnavailable
  BY <1>4
  DEF BeginAttempt, TransformRejects, CredentialAcquired, CredentialUnavailable, LateInv,
      Complete, EndpointFailed, place, counters, exchange, result, history
<1>5. CASE ClaimExchange
  BY <1>5
  DEF ClaimExchange, LateInv, Complete, EndpointFailed, place, counters, exchange, result,
      history
<1>6. CASE ClaimRefused
  BY <1>6
  DEF ClaimRefused, LateInv, Complete, EndpointFailed, place, counters, exchange, result,
      history
<1>7. CASE NoEligibleEndpoint \/ ExchangeFails
  BY <1>7
  DEF NoEligibleEndpoint, ExchangeFails, LateInv, Complete, EndpointFailed, place,
      counters, exchange, result, history
<1>8. CASE ExchangeTimesOut
  BY <1>8
  DEF ExchangeTimesOut, LateInv, Complete, EndpointFailed, place, counters, exchange,
      result, history
<1>9. CASE ErrorAnswered \/ BodyAbandoned \/ InvalidAnswered
  BY <1>9
  DEF ErrorAnswered, BodyAbandoned, InvalidAnswered, LateInv, Complete, EndpointFailed,
      place, counters, exchange, result, history
<1>10. CASE CapacityRefused \/ AnswerCommitted
  BY <1>10
  DEF CapacityRefused, AnswerCommitted, LateInv, Complete, EndpointFailed, place,
      counters, exchange, result, history
<1>11. CASE WaitOver \/ WaitAborted
  BY <1>11
  DEF WaitOver, WaitAborted, LateInv, Complete, EndpointFailed, place, counters, exchange,
      result, history
<1>12. CASE Finalize \/ Relay
  BY <1>12
  DEF Finalize, Relay, LateInv, Complete, EndpointFailed, place, counters, exchange,
      result, history
<1>13. CASE CallerGoes \/ Tick
  BY <1>13
  DEF CallerGoes, Tick, LateInv, Complete, EndpointFailed, place, counters, exchange,
      result, history
<1> QED
  BY <1>1, <1>2, <1>3, <1>4, <1>5, <1>6, <1>7, <1>8, <1>9, <1>10, <1>11, <1>12, <1>13
  DEF Next, HandlerStep, Environment, Terminated

(* The caller's cancellation is final: at most the one claim it raced is   *)
(* spent after it.                                                         *)
THEOREM WalkCallerFinal == Spec => []CallerFinal
<1>1. Init => LateInv
  BY DEF Init, LateInv
<1>2. LateInv => CallerFinal
  BY DEF LateInv, CallerFinal
<1> QED
  BY <1>1, <1>2, TypeInit, TypeStep, LateStep, PTL DEF Spec

-----------------------------------------------------------------------------
(* Why attempts are bounded: before an attempt is counted, and while one   *)
(* is waited for, a retry is still owed; an observation carries the        *)
(* attempt it is about; and the counters differ by the candidate that has  *)
(* been entered but not yet asked.                                         *)
AttemptInv ==
  /\ cand \in Chain =>
       /\ attempt <= policy.maxRetries + 1
       /\ pc \in {"attempt", "wait"} => attempt <= policy.maxRetries
       /\ pc = "wait" => attempt >= 1
  /\ pc = "observe" => failure.attempt = attempt
  /\ pc \in {"credential", "dial", "exchange", "observe"} => attempt >= 1
  /\ entered <= primary.maxCandidates
  /\ pc \notin {"attempt", "done"} => attempts = retries + entered
  /\ pc = "attempt" => attempts = retries + entered - (IF attempt = 0 THEN 1 ELSE 0)

(* No candidate has been asked at first.                                   *)
LEMMA AttemptInit == Init => AttemptInv
<1> SUFFICES ASSUME Init PROVE AttemptInv
  OBVIOUS
<1>1. TypeOK
  BY TypeInit
<1>2. primary.maxCandidates \in Nat
  BY <1>1, LeadMember, PolicyFields
<1>3. cand \notin Chain
  BY ChainAssumption DEF Init, Chain
<1> QED
  BY <1>2, <1>3 DEF Init, AttemptInv, primary

(* Every step keeps the attempt counters in agreement and in bounds.       *)
LEMMA AttemptStep ==
  TypeOK /\ PlaceInv /\ AttemptInv /\ [Next]_vars => AttemptInv'
<1> SUFFICES ASSUME TypeOK, PlaceInv, AttemptInv, [Next]_vars PROVE AttemptInv'
  OBVIOUS
<1>t. /\ attempt \in Nat /\ retries \in Nat /\ attempts \in Nat /\ entered \in Nat
      /\ cand \in Chain => policy.maxRetries \in Nat
      /\ primary.maxCandidates \in Nat /\ primary.maxCandidates >= 1
  <2>2. cand \in Chain => policy.maxRetries \in Nat
    BY ChainMember, PolicyFields DEF policy
  <2>3. primary \in Policies /\ Validate(primary)
    BY LeadMember
  <2>4. primary.maxCandidates \in Nat
    BY <2>3, PolicyFields
  <2>5. primary.maxCandidates >= 1
    BY <2>3, <2>4 DEF Validate
  <2> QED
    BY <2>2, <2>4, <2>5 DEF TypeOK
<1>1. CASE Decide
  <2>1. pc = "observe" /\ failure.attempt = attempt /\ attempt >= 1
    BY <1>1 DEF Decide, AttemptInv
  <2>2. pc' = "wait" => attempt <= policy.maxRetries
    BY <1>1, <1>t, <2>1, DecideFacts DEF Greatest
  <2> QED
    BY <1>1, <1>t, <2>1, <2>2, DecideFacts DEF AttemptInv, policy, primary
<1>2. CASE UNCHANGED vars
  BY <1>2 DEF vars, AttemptInv, policy, primary
<1>3. CASE EnterCandidate
  <2>1. CASE cand < ChainLen /\ CanEnter(primary, entered)
    <3>1. /\ cand' = cand + 1 /\ entered' = entered + 1 /\ attempt' = 0 /\ pc' = "attempt"
          /\ UNCHANGED <<lead, chain, retries, attempts>>
      BY <1>3, <2>1 DEF EnterCandidate
    <3>2. cand + 1 \in Chain
      BY <2>1, ChainAssumption DEF TypeOK, Chain
    <3>3. chain[cand + 1].policy.maxRetries \in Nat
      BY <3>2, ChainMember, PolicyFields
    <3>4. entered + 1 <= primary.maxCandidates
      BY <1>t, <2>1 DEF CanEnter
    <3>5. attempts = retries + entered
      BY <1>3 DEF EnterCandidate, AttemptInv
    <3> QED
      BY <1>t, <3>1, <3>3, <3>4, <3>5 DEF AttemptInv, policy, primary
  <2>2. CASE ~(cand < ChainLen /\ CanEnter(primary, entered))
    BY <1>3, <2>2, <1>t DEF EnterCandidate, AttemptInv, policy, primary, place
  <2> QED
    BY <2>1, <2>2
<1>4. CASE BeginAttempt
  BY <1>4, <1>t
  DEF BeginAttempt, AttemptInv, policy, primary, Observed, InCandidate, PlaceInv,
      Complete, EndpointFailed, place, counters, exchange, result, history
<1>5. CASE TransformRejects \/ CredentialAcquired \/ CredentialUnavailable
  BY <1>5, <1>t
  DEF TransformRejects, CredentialAcquired, CredentialUnavailable, AttemptInv, policy,
      primary, Observed, InCandidate, PlaceInv, Complete, EndpointFailed, place, counters,
      exchange, result, history
<1>6. CASE ClaimExchange
  BY <1>6, <1>t
  DEF ClaimExchange, AttemptInv, policy, primary, Observed, InCandidate, PlaceInv,
      Complete, EndpointFailed, place, counters, exchange, result, history
<1>7. CASE ClaimRefused
  BY <1>7, <1>t
  DEF ClaimRefused, AttemptInv, policy, primary, Observed, InCandidate, PlaceInv,
      Complete, EndpointFailed, place, counters, exchange, result, history
<1>8. CASE NoEligibleEndpoint \/ ExchangeFails
  BY <1>8, <1>t
  DEF NoEligibleEndpoint, ExchangeFails, AttemptInv, policy, primary, Observed,
      InCandidate, PlaceInv, Complete, EndpointFailed, place, counters, exchange, result,
      history
<1>9. CASE ExchangeTimesOut
  BY <1>9, <1>t
  DEF ExchangeTimesOut, AttemptInv, policy, primary, Observed, InCandidate, PlaceInv,
      Complete, EndpointFailed, place, counters, exchange, result, history
<1>10. CASE ErrorAnswered \/ BodyAbandoned \/ InvalidAnswered
  BY <1>10, <1>t
  DEF ErrorAnswered, BodyAbandoned, InvalidAnswered, AttemptInv, policy, primary,
      Observed, InCandidate, PlaceInv, Complete, EndpointFailed, place, counters,
      exchange, result, history
<1>11. CASE CapacityRefused \/ AnswerCommitted
  BY <1>11, <1>t
  DEF CapacityRefused, AnswerCommitted, AttemptInv, policy, primary, Observed,
      InCandidate, PlaceInv, Complete, EndpointFailed, place, counters, exchange, result,
      history
<1>12. CASE WaitOver \/ WaitAborted
  BY <1>12, <1>t
  DEF WaitOver, WaitAborted, AttemptInv, policy, primary, Observed, InCandidate, PlaceInv,
      Complete, EndpointFailed, place, counters, exchange, result, history
<1>13. CASE Finalize \/ Relay
  BY <1>13, <1>t
  DEF Finalize, Relay, AttemptInv, policy, primary, Observed, InCandidate, PlaceInv,
      Complete, EndpointFailed, place, counters, exchange, result, history
<1>14. CASE CallerGoes \/ Tick
  BY <1>14, <1>t
  DEF CallerGoes, Tick, AttemptInv, policy, primary, Observed, InCandidate, PlaceInv,
      Complete, EndpointFailed, place, counters, exchange, result, history
<1> QED
  BY <1>1, <1>2, <1>3, <1>4, <1>5, <1>6, <1>7, <1>8, <1>9, <1>10, <1>11, <1>12, <1>13, <1>14
  DEF Next, HandlerStep, Environment, Terminated

(* A candidate is asked at most 1 + maxRetries times, the walk enters at   *)
(* most maxCandidates, and the completion record's counters agree.         *)
THEOREM WalkAttemptsBounded == Spec => []AttemptsBounded
<1>1. TypeOK /\ AttemptInv => AttemptsBounded
  <2> SUFFICES ASSUME TypeOK, AttemptInv PROVE AttemptsBounded
    OBVIOUS
  <2>1. cand > 0 <=> cand \in Chain
    BY ChainAssumption DEF TypeOK, Chain
  <2> QED
    BY <2>1 DEF AttemptInv, AttemptsBounded
<1> QED
  BY <1>1, TypeInit, TypeStep, AttemptInit, AttemptStep, PTL DEF Spec

-----------------------------------------------------------------------------
(* Why the last answer wins: between a dial and its observation the        *)
(* candidate in scope counts as unanswered, an observation of a response   *)
(* was preceded by one, an answer ends the walk, and a move on is always   *)
(* made.                                                                   *)
AnswerInv ==
  /\ LastAnswerWins
  /\ \A c \in heard : c <= cand
  /\ pc \in {"credential", "dial", "exchange"} => cand \notin heard
  /\ pc = "observe" => (cand \in heard <=> failure.kind \in {"http", "protocol"})
  /\ pc = "finalize" /\ answer = NoAnswer => cand \notin heard
  /\ answer # NoAnswer => pc \in {"finalize", "relay", "done"}
  /\ pc = "relay" => answer # NoAnswer
  /\ answer # NoAnswer => answer.kind # "none"
  /\ retained # NoAnswer => retained.kind # "none"
  /\ outcome = "upstream_unreachable" => pc = "done"

(* An upstream's answer to the candidate in scope. *)
LEMMA AnsweredStep ==
  ASSUME TypeOK, PlaceInv, AnswerInv, pc = "exchange",
         heard' = heard \cup {cand}, cand' = cand, retained' = retained,
         \/ pc' = "observe" /\ failure'.kind \in {"http", "protocol"} /\ UNCHANGED <<answer, outcome>>
         \/ pc' = "done" /\ outcome' # "upstream_unreachable" /\ UNCHANGED answer
         \/ pc' = "relay" /\ answer'.kind # "none" /\ answer'.cand = cand /\ UNCHANGED outcome
  PROVE  AnswerInv'
<1>1. cand \in Nat /\ answer = NoAnswer /\ cand \notin heard /\ outcome # "upstream_unreachable"
  BY DEF TypeOK, AnswerInv
<1>2. \A c \in heard : c < cand
  <2>1. \A c \in heard : c \in Nat
    BY ChainAssumption DEF TypeOK, Chain
  <2> QED
    BY <1>1, <2>1 DEF AnswerInv
<1>3. retained # NoAnswer => retained.cand \in heard
  BY DEF AnswerInv, LastAnswerWins
<1>4. \A c \in heard : retained # NoAnswer /\ c <= retained.cand
  BY <1>2 DEF AnswerInv, LastAnswerWins, HasLeft
<1>5. /\ cand' = cand /\ pc' # "enter" /\ outcome' # "upstream_unreachable"
      /\ answer' = NoAnswer \/ (answer'.cand = cand /\ answer' # NoAnswer /\ answer'.kind # "none")
  BY <1>1 DEF NoAnswer
<1>6. \A c \in heard' : c <= cand
  BY <1>1, <1>2, ChainAssumption DEF TypeOK, Chain
<1>7. LastAnswerWins'
  <2>1. (retained # NoAnswer => retained.cand \in heard /\ HasLeft(retained.cand))'
    BY <1>2, <1>3, <1>5 DEF HasLeft
  <2>2. (\A c \in heard : HasLeft(c) => retained # NoAnswer /\ c <= retained.cand)'
    BY <1>1, <1>4, <1>5 DEF HasLeft
  <2>4. (answer # NoAnswer => answer.cand \in heard /\ \A c \in heard : c <= answer.cand)'
    BY <1>5, <1>6
  <2> QED
    BY <1>5, <2>1, <2>2, <2>4 DEF LastAnswerWins
<1> QED
  BY <1>1, <1>5, <1>6, <1>7 DEF AnswerInv, NoAnswer

(* A step that hears nothing and leaves the slots as they are, inside a    *)
(* candidate or out of it.                                                 *)
LEMMA UnansweredStep ==
  ASSUME TypeOK, AnswerInv, UNCHANGED <<cand, heard, retained, answer>>,
         pc' \in {"credential", "dial", "exchange", "observe", "enter", "finalize"} => cand \notin heard,
         pc' = "observe" => failure'.kind \notin {"http", "protocol"},
         pc # "enter",
         answer = NoAnswer, pc' # "relay",
         outcome' = "upstream_unreachable" => pc' = "done" /\ heard = {}
  PROVE  AnswerInv'
<1>1. \A c \in heard : c \in Nat /\ c <= cand
  BY ChainAssumption DEF TypeOK, Chain, AnswerInv
<1>2. cand \in Nat
  BY DEF TypeOK
<1>3. \A c \in heard : HasLeft(c)' => HasLeft(c)
  BY <1>1, <1>2 DEF HasLeft
<1>4. \A c \in heard : HasLeft(c) => HasLeft(c)'
  BY DEF HasLeft
<1>5. LastAnswerWins'
  BY <1>3, <1>4 DEF AnswerInv, LastAnswerWins
<1> QED
  BY <1>1, <1>5 DEF AnswerInv

(* Every step lets the last answer win. *)
LEMMA AnswerStep ==
  TypeOK /\ PlaceInv /\ FallbackLands /\ AnswerInv /\ [Next]_vars => AnswerInv'
<1> SUFFICES ASSUME TypeOK, PlaceInv, FallbackLands, AnswerInv, [Next]_vars
             PROVE  AnswerInv'
  OBVIOUS
<1>t. /\ cand \in Nat /\ \A c \in heard : c \in Nat /\ c <= cand
      /\ pc \notin {"finalize", "relay", "done"} => answer = NoAnswer
      /\ pc # "done" => outcome # "upstream_unreachable"
      /\ pc \in {"credential", "dial", "exchange"} => cand \notin heard
  BY ChainAssumption DEF TypeOK, Chain, AnswerInv
<1>1. CASE Decide
  <2>1. pc = "observe" /\ answer = NoAnswer /\ UNCHANGED <<cand, heard, outcome>>
    BY <1>1, <1>t, DecideFacts DEF Decide
  <2>2. AnswerFor(failure) # NoAnswer <=> cand \in heard
    <3>1. cand \in heard <=> failure.kind \in {"http", "protocol"}
      BY <2>1 DEF AnswerInv
    <3>2. AnswerFor(failure) # NoAnswer <=> failure.kind \in {"http", "protocol"}
      <4>1. AnswerFor(failure) # NoAnswer => failure.kind \in {"http", "protocol"}
        BY DEF AnswerFor
      <4>2. failure.kind \in {"http", "protocol"} => AnswerFor(failure).kind \in {"httpError", "invalid"}
        BY DEF AnswerFor
      <4>3. NoAnswer.kind = "none"
        BY DEF NoAnswer
      <4> QED
        BY <4>1, <4>2, <4>3
    <3> QED
      BY <3>1, <3>2
  <2>3. AnswerFor(failure) # NoAnswer =>
          AnswerFor(failure).cand = cand /\ AnswerFor(failure).kind # "none"
    BY DEF AnswerFor
  <2>4. CASE pc' = "wait"
    <3>1. UNCHANGED <<retained, answer>>
      BY <1>1, <2>4, DecideFacts
    <3> QED
      BY <1>t, <2>1, <2>4, <3>1 DEF AnswerInv, LastAnswerWins, HasLeft
  <2>5. CASE pc' = "enter"
    <3>1. /\ retained' = IF AnswerFor(failure) # NoAnswer THEN AnswerFor(failure) ELSE retained
          /\ answer' = NoAnswer
      BY <1>1, <2>1, <2>5, DecideFacts
    <3>2. CASE cand \in heard
      <4>1. retained' # NoAnswer /\ retained'.cand = cand
        BY <2>2, <2>3, <3>1, <3>2
      <4>2. LastAnswerWins'
        BY <1>t, <2>1, <2>5, <3>1, <3>2, <4>1 DEF LastAnswerWins, HasLeft
      <4> QED
        BY <1>t, <2>1, <2>3, <2>5, <3>1, <4>2 DEF AnswerInv
    <3>3. CASE cand \notin heard
      <4>1. retained' = retained
        BY <2>2, <3>1, <3>3
      <4>2. \A c \in heard : c < cand
        BY <1>t, <3>3
      <4>3. LastAnswerWins'
        BY <1>t, <2>1, <2>5, <3>1, <4>1, <4>2 DEF AnswerInv, LastAnswerWins, HasLeft
      <4> QED
        BY <1>t, <2>1, <2>5, <3>1, <4>1, <4>3 DEF AnswerInv
    <3> QED
      BY <3>2, <3>3
  <2>6. CASE pc' = "finalize"
    <3>1. retained' = retained /\ answer' = AnswerFor(failure)
      BY <1>1, <2>6, DecideFacts
    <3>2. LastAnswerWins'
      BY <1>t, <2>1, <2>2, <2>3, <2>6, <3>1 DEF AnswerInv, LastAnswerWins, HasLeft
    <3> QED
      BY <1>t, <2>1, <2>2, <2>3, <2>6, <3>1, <3>2 DEF AnswerInv
  <2> QED
    BY <1>1, <2>4, <2>5, <2>6, DecideFacts
<1>2. CASE UNCHANGED vars
  BY <1>2 DEF vars, AnswerInv, LastAnswerWins, HasLeft
<1>3. CASE EnterCandidate
  <2>1. /\ pc = "enter" /\ pc' = "attempt" /\ cand' = cand + 1
        /\ UNCHANGED <<heard, retained, answer, outcome>>
    BY <1>3 DEF EnterCandidate, FallbackLands, result, history
  <2>2. LastAnswerWins'
    BY <1>t, <2>1 DEF AnswerInv, LastAnswerWins, HasLeft
  <2> QED
    BY <1>t, <2>1, <2>2 DEF AnswerInv
<1>4. CASE BeginAttempt
  <2>1. /\ pc = "attempt" /\ pc' \in {"credential", "dial"} /\ heard' = heard \ {cand}
        /\ UNCHANGED <<cand, retained, answer, outcome>>
    BY <1>4 DEF BeginAttempt, place, result
  <2>2. LastAnswerWins'
    BY <1>t, <2>1 DEF AnswerInv, LastAnswerWins, HasLeft
  <2> QED
    BY <1>t, <2>1, <2>2 DEF AnswerInv
<1>5. CASE TransformRejects \/ CredentialAcquired \/ ClaimExchange
  BY <1>5, <1>t, UnansweredStep
  DEF TransformRejects, CredentialAcquired, ClaimExchange, Complete, place, result, history
<1>6. CASE CredentialUnavailable
  <2>1. /\ pc = "credential" /\ pc' = "observe" /\ failure'.kind = "credential"
        /\ UNCHANGED <<cand, heard, retained, answer, outcome>>
    BY <1>6 DEF CredentialUnavailable, Observed, place, result, history
  <2> QED
    BY <1>t, <2>1, UnansweredStep
<1>7. CASE \/ ClaimRefused \/ NoEligibleEndpoint \/ ExchangeFails
           \/ ExchangeTimesOut /\ EndpointFailed /\ UNCHANGED heard
  <2>1. ~EndpointFailed \/ (pc' = "done" /\ outcome' = "client_disconnected")
                        \/ (pc' = "observe" /\ failure'.kind = "transport" /\ UNCHANGED outcome)
    BY DEF EndpointFailed, Complete, Observed
  <2>2. /\ pc \in {"dial", "exchange"} /\ UNCHANGED <<cand, heard, retained, answer>>
        /\ \/ EndpointFailed
           \/ pc' \in {"enter", "finalize", "dial"} /\ UNCHANGED outcome
    BY <1>7 DEF ClaimRefused, NoEligibleEndpoint, ExchangeFails, ExchangeTimesOut, place, history
  <2> QED
    BY <1>t, <2>1, <2>2, UnansweredStep
<1>8. CASE ExchangeTimesOut /\ ~(EndpointFailed /\ UNCHANGED heard)
  <2>1. /\ pc = "exchange" /\ pc' = "observe" /\ failure'.kind = "protocol"
        /\ heard' = heard \cup {cand} /\ UNCHANGED <<cand, retained, answer, outcome>>
    BY <1>8 DEF ExchangeTimesOut, Observed, place
  <2> QED
    BY <2>1, AnsweredStep
<1>9. CASE ErrorAnswered \/ InvalidAnswered
  <2>1. /\ pc = "exchange" /\ pc' = "observe" /\ failure'.kind \in {"http", "protocol"}
        /\ heard' = heard \cup {cand} /\ UNCHANGED <<cand, retained, answer, outcome>>
    BY <1>9 DEF ErrorAnswered, InvalidAnswered, Observed, place, result
  <2> QED
    BY <2>1, AnsweredStep
<1>10. CASE BodyAbandoned \/ CapacityRefused
  <2>1. /\ pc = "exchange" /\ pc' = "done" /\ outcome' # "upstream_unreachable"
        /\ heard' = heard \cup {cand} /\ UNCHANGED <<cand, retained, answer>>
    BY <1>10 DEF BodyAbandoned, CapacityRefused, Complete, place
  <2> QED
    BY <2>1, AnsweredStep
<1>11. CASE AnswerCommitted
  <2>1. /\ pc = "exchange" /\ pc' = "relay" /\ answer'.kind # "none" /\ answer'.cand = cand
        /\ heard' = heard \cup {cand} /\ UNCHANGED <<cand, retained, outcome>>
    BY <1>11 DEF AnswerCommitted, NoAnswer, place
  <2> QED
    BY <2>1, AnsweredStep
<1>12. CASE WaitOver \/ WaitAborted
  BY <1>12, <1>t, UnansweredStep DEF WaitOver, WaitAborted, Complete, place, result, history
<1>13. CASE Finalize
  <2>1. pc = "finalize" /\ UNCHANGED <<cand, heard, retained>>
    BY <1>13 DEF Finalize, place, history
  <2>2. answer = NoAnswer => \A c \in heard : c < cand
    BY <1>t, <2>1 DEF AnswerInv
  <2>3. CASE answer # NoAnswer
    <3>1. answer' = answer /\ pc' = "relay" /\ outcome' = outcome
      BY <1>13, <2>3 DEF Finalize
    <3> QED
      BY <1>t, <2>1, <2>3, <3>1 DEF AnswerInv, LastAnswerWins, HasLeft
  <2>4. CASE answer = NoAnswer /\ retained # NoAnswer
    <3>1. answer' = retained /\ pc' = "relay" /\ outcome' = outcome
      BY <1>13, <2>4 DEF Finalize
    <3>2. LastAnswerWins'
      BY <1>t, <2>1, <2>2, <2>4, <3>1 DEF AnswerInv, LastAnswerWins, HasLeft
    <3> QED
      BY <1>t, <2>1, <2>4, <3>1, <3>2 DEF AnswerInv
  <2>5. CASE answer = NoAnswer /\ retained = NoAnswer
    <3>1. answer' = answer /\ pc' = "done"
      BY <1>13, <2>5 DEF Finalize, Complete
    <3>2. heard = {}
      BY <2>2, <2>5 DEF AnswerInv, LastAnswerWins, HasLeft
    <3> QED
      BY <1>t, <2>1, <2>5, <3>1, <3>2 DEF AnswerInv, LastAnswerWins, HasLeft
  <2> QED
    BY <2>3, <2>4, <2>5
<1>14. CASE CallerGoes \/ Tick
  BY <1>14 DEF CallerGoes, Tick, AnswerInv, LastAnswerWins, HasLeft, place, result, history
<1>15. CASE Relay
  <2>1. answer.kind \in {"sse", "verbatim", "buffered", "httpError", "invalid"}
    BY <1>15 DEF Relay, AnswerKinds, TypeOK, AnswerInv
  <2>2. /\ pc = "relay" /\ pc' = "done" /\ UNCHANGED <<cand, heard, retained, answer>>
        /\ outcome' # "upstream_unreachable"
    BY <1>15, <2>1 DEF Relay, RelayOutcomes, Complete, place, history
  <2> QED
    BY <1>t, <2>2 DEF AnswerInv, LastAnswerWins, HasLeft
<1> QED
  BY <1>1, <1>2, <1>3, <1>4, <1>5, <1>6, <1>7, <1>8, <1>9, <1>10, <1>11, <1>12,
     <1>13, <1>14, <1>15
  DEF Next, HandlerStep, Environment, Terminated

(* Types, place, landing fallbacks and the last answer hold together.      *)
LEMMA AnswerInvariant == Spec => [](TypeOK /\ PlaceInv /\ FallbackLands /\ AnswerInv)
<1>1. Init => AnswerInv
  BY DEF Init, AnswerInv, LastAnswerWins, NoAnswer
<1>2. Init => FallbackLands
  BY ChainAssumption DEF Init, FallbackLands, CanEnter
<1> QED
  BY <1>1, <1>2, TypeInit, TypeStep, FallbackStep, AnswerStep, PTL DEF Spec

(* The last answer wins: whatever retries and fallbacks, blocked attempts  *)
(* and refusals lie in between, the client is given the answer of the last *)
(* candidate whose last attempt was answered, and unreachable is reported  *)
(* only when there is none.                                                *)
THEOREM WalkLastAnswerWins == Spec => []LastAnswerWins
BY AnswerInvariant, PTL DEF AnswerInv

(* Commitment is final: after an answer is chosen nothing is dialed or     *)
(* waited for and the answer stays.                                        *)
THEOREM WalkCommitmentFinal == Spec => CommitmentFinal
<1>1. AnswerInv /\ [Next]_vars =>
        [answer # NoAnswer => /\ answer' = answer
                              /\ budget' = budget
                              /\ pc' \in {"finalize", "relay", "done"}]_vars
  <2> SUFFICES ASSUME AnswerInv, [Next]_vars, answer # NoAnswer
               PROVE  /\ answer' = answer /\ budget' = budget
                      /\ pc' \in {"finalize", "relay", "done"}
    OBVIOUS
  <2>1. pc \in {"finalize", "relay", "done"}
    BY DEF AnswerInv
  <2>2. Finalize \/ Relay \/ CallerGoes \/ UNCHANGED vars
    BY <2>1 DEF Next, HandlerStep, Environment, Terminated, EnterCandidate, BeginAttempt,
         TransformRejects, CredentialAcquired, CredentialUnavailable, ClaimExchange,
         ClaimRefused, NoEligibleEndpoint, ExchangeFails, ExchangeTimesOut, ErrorAnswered,
         BodyAbandoned, InvalidAnswered, CapacityRefused, AnswerCommitted, Decide, WaitOver,
         WaitAborted, Tick
  <2> QED
    BY <2>1, <2>2 DEF Finalize, Relay, CallerGoes, Complete, vars, exchange, result
<1> QED
  BY <1>1, AnswerInvariant, PTL DEF Spec, CommitmentFinal
=============================================================================
