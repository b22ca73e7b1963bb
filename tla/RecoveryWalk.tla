---------------------------- MODULE RecoveryWalk ----------------------------
(***************************************************************************)
(* The provider walk of one client request (internal/proxy/handler.go,     *)
(* serve): enter the candidates of the model's chain in order, attempt     *)
(* each one, claim an exchange from the budget before every dial, ask the  *)
(* recovery engine what a failure means, wait, move on or stop, and commit *)
(* one answer.                                                             *)
(*                                                                         *)
(* One goroutine executes the walk. Concurrent with it are the clock, the  *)
(* client (which may go away at any instant), the upstreams, and other     *)
(* requests, whose effect on the shared egress and credential pools is     *)
(* the nondeterminism of NoEligibleEndpoint and CredentialUnavailable.     *)
(***************************************************************************)
EXTENDS RecoveryEngine

CONSTANTS
  ChainLen,      \* number of candidates in the model's fallback chain
  Candidates,    \* candidate configurations a chain may be made of
  RetryAfters,   \* Retry-After directives an upstream may send, in ticks
  ReadyIns,      \* how far off the next ready credential may be, in ticks
  MaxClock       \* bound on the clock

Chain == 1..ChainLen

(* A candidate: its policy, the number of members its egress pool may dial *)
(* per attempt (0 for a direct transport), whether it has a credential     *)
(* pool and whether it takes images.                                       *)
CandidateConfigs == [policy : Policies, poolDials : Nat, cred : BOOLEAN, vision : BOOLEAN]

ASSUME ChainAssumption == ChainLen \in Nat \ {0}
ASSUME CandidatesAssumption ==
  Candidates \subseteq {c \in CandidateConfigs : Validate(c.policy)}
ASSUME TicksAssumption ==
  RetryAfters \subseteq Nat /\ ReadyIns \subseteq Nat /\ MaxClock \in Nat

VARIABLES
  lead,       \* the model's first candidate as written
  chain,      \* the request's candidates, frozen by its config snapshot
  clock,      \* the engine's clock
  cancelled,  \* the request context is done
  pc,         \* where the walk is
  cand,       \* one-based index of the candidate in scope, 0 before the first
  entered,    \* candidates entered
  candAt,     \* when the candidate in scope was entered: its retry window
  attempt,    \* attempts on the candidate in scope
  retries,    \* retries_total of the completion record
  attempts,   \* provider_attempts of the completion record
  budget,     \* the exchange envelope
  dials,      \* exchanges of the egress pool's current Execute
  deadline,   \* when the exchange in flight leaves its granted window
  failure,    \* the observation being decided on
  wait,       \* the retry wait: whether a timer was armed, and when it is over
  retained,   \* last answer of a candidate the walk moved on from
  answer,     \* the one result the walk commits
  outcome,    \* outcome token of the completion record
  heard,      \* history: candidates whose last attempt was answered
  lateClaims  \* history: exchanges claimed after the caller went away

vars == <<lead, chain, clock, cancelled, pc, cand, entered, candAt, attempt, retries,
          attempts, budget, dials, deadline, failure, wait, retained, answer,
          outcome, heard, lateClaims>>

(* Variables grouped by who changes them. *)
place     == <<cand, entered, candAt>>
counters  == <<attempt, retries, attempts>>
exchange  == <<budget, dials, deadline>>
result    == <<retained, answer, outcome>>
history   == <<heard, lateClaims>>

PCs == {"enter", "attempt", "credential", "dial", "exchange", "observe",
        "wait", "finalize", "relay", "done"}

AnswerKinds == {"none", "sse", "verbatim", "buffered", "httpError", "invalid"}
NoAnswer == [kind |-> "none", cand |-> 0]

Observations == [kind : FailureKinds, attempt : Nat, retryAfter : Nat,
                 readyIn : Nat, committed : BOOLEAN]
NoObservation == [kind |-> "transport", attempt |-> 0, retryAfter |-> 0,
                  readyIn |-> 0, committed |-> FALSE]

Outcomes == {"completed", "transform_error", "upstream_unreachable",
             "client_disconnected", "capacity_exceeded", "relayed",
             "upstream_read_failed", "upstream_http_error",
             "upstream_invalid_response", "stream_truncated", "stream_limit_exceeded"}

primary == lead.policy
policy  == chain[cand].policy
pooled  == chain[cand].poolDials > 0

(* serve has loaded the snapshot, authenticated the client, read the body  *)
(* and resolved the model. An image request keeps only the candidates that *)
(* take images, so the first one tried may not be the one whose policy     *)
(* NewEngine opens the request envelope with.                              *)
Init ==
  /\ chain \in [Chain -> Candidates]
  /\ lead \in Candidates
  /\ lead # chain[1] => ~lead.vision /\ \A i \in Chain : chain[i].vision
  /\ clock = 0 /\ cancelled = FALSE
  /\ pc = "enter"
  /\ cand = 0 /\ entered = 0 /\ candAt = 0
  /\ attempt = 0 /\ retries = 0 /\ attempts = 0
  /\ budget = NewBudget(lead.policy.request, 0)
  /\ dials = 0 /\ deadline = 0
  /\ failure = NoObservation /\ wait = [armed |-> FALSE, until |-> 0]
  /\ retained = NoAnswer /\ answer = NoAnswer /\ outcome = "completed"
  /\ heard = {} /\ lateClaims = 0

-----------------------------------------------------------------------------
(* complete(): the request is over and its completion record written. *)
Complete(how) == pc' = "done" /\ outcome' = how

(* The head of the walk loop: the fallback budget's gate, then a fresh     *)
(* candidate envelope, retry window and attempt counter. A chain that is   *)
(* used up or a gate that refuses ends the walk.                           *)
EnterCandidate ==
  /\ pc = "enter"
  /\ IF cand < ChainLen /\ CanEnter(primary, entered)
     THEN /\ pc' = "attempt"
          /\ cand' = cand + 1
          /\ entered' = entered + 1
          /\ candAt' = clock
          /\ attempt' = 0
          /\ budget' = BeginCandidate(budget, chain[cand + 1].policy.candidate, clock)
     ELSE /\ pc' = "finalize"
          /\ UNCHANGED <<place, attempt, budget>>
  /\ UNCHANGED <<lead, chain, clock, cancelled, retries, attempts, dials, deadline,
                 failure, wait, result, history>>

(* One attempt begins: transformed, built and counted before anything can  *)
(* fail upstream.                                                          *)
BeginAttempt ==
  /\ pc = "attempt"
  /\ attempt' = attempt + 1
  /\ attempts' = attempts + 1
  /\ retries' = IF attempt >= 1 THEN retries + 1 ELSE retries
  /\ dials' = 0
  /\ heard' = heard \ {cand}
  /\ pc' = IF chain[cand].cred THEN "credential" ELSE "dial"
  /\ UNCHANGED <<lead, chain, clock, cancelled, place, budget, deadline, failure,
                 wait, result, lateClaims>>

(* A body the transform rejects is answered locally with a 400, before the *)
(* attempt is counted; a write that fails makes it a disconnect.           *)
TransformRejects ==
  /\ pc = "attempt"
  /\ \/ Complete("transform_error")
     \/ cancelled /\ Complete("client_disconnected")
  /\ UNCHANGED <<lead, chain, clock, cancelled, place, counters, exchange, failure,
                 wait, retained, answer, history>>

(* An observation of the candidate in scope. *)
Observed(kind, retryAfter, readyIn) ==
  [kind |-> kind, attempt |-> attempt, retryAfter |-> retryAfter,
   readyIn |-> readyIn, committed |-> answer # NoAnswer]

(* The credential pool hands out a key for this attempt ...                *)
CredentialAcquired ==
  /\ pc = "credential"
  /\ pc' = "dial"
  /\ UNCHANGED <<lead, chain, clock, cancelled, place, counters, exchange, failure,
                 wait, result, history>>

(* ... or every key is cooling: a failure that spends no exchange and      *)
(* carries when the first key is ready again.                              *)
CredentialUnavailable ==
  /\ pc = "credential"
  /\ pc' = "observe"
  /\ \E readyIn \in ReadyIns : failure' = Observed("credential", 0, readyIn)
  /\ UNCHANGED <<lead, chain, clock, cancelled, place, counters, exchange, wait,
                 result, history>>

(* Mutant: the decided action is followed whatever is left of the chain. *)
WalkActionUnfolded(action) == action

(* walkAction: a fallback with no candidate left to fall to is terminal. *)
WalkAction(action) ==
  IF action = "fallback" /\ cand = ChainLen THEN "terminal" ELSE action

(* A failure of the path to the upstream is observed, unless the context   *)
(* is done: then the caller owns it and the request is over.               *)
EndpointFailed ==
  IF cancelled
  THEN Complete("client_disconnected") /\ UNCHANGED failure
  ELSE pc' = "observe" /\ failure' = Observed("transport", 0, 0) /\ UNCHANGED outcome

-----------------------------------------------------------------------------
(* A dial claims its exchange first; the claim carries its window. *)
ClaimExchange ==
  LET grant == AcquireExchange(budget, clock)
  IN  /\ pc = "dial"
      /\ grant.granted
      /\ budget' = grant.budget
      /\ deadline' = clock + grant.window
      /\ dials' = dials + 1
      /\ lateClaims' = IF cancelled THEN lateClaims + 1 ELSE lateClaims
      /\ pc' = "exchange"
      /\ UNCHANGED <<lead, chain, clock, cancelled, place, counters, failure, wait,
                     result, heard>>

(* A refused claim before any dial of this attempt has no failure to       *)
(* classify: the spent candidate falls back if its policy says so, and a   *)
(* spent request stops the walk. A pool refused AFTER a dial keeps that    *)
(* dial's error in force (the caller's, if it is gone), unless the request *)
(* itself is spent.                                                        *)
ClaimRefused ==
  /\ pc = "dial"
  /\ ~AcquireExchange(budget, clock).granted
  /\ LET spent == CandidateSpent(policy, primary, entered, budget, clock)
     IN  \/ /\ dials = 0 \/ Exhausted(budget, clock) = "request"
            /\ pc' = IF WalkAction(spent.action) = "fallback" THEN "enter" ELSE "finalize"
            /\ UNCHANGED <<failure, outcome>>
         \/ /\ dials > 0 /\ Exhausted(budget, clock) = "candidate"
            /\ EndpointFailed
  /\ UNCHANGED <<lead, chain, clock, cancelled, place, counters, exchange, wait,
                 retained, answer, history>>

(* No member of the egress pool may be dialed (further): ineligible,       *)
(* unhealthy or saturated. Before the first dial this is the pool's own    *)
(* exhaustion, afterwards the last member's error, and the caller's own    *)
(* end if the context is done.                                             *)
NoEligibleEndpoint ==
  /\ pc = "dial"
  /\ pooled
  /\ EndpointFailed
  /\ UNCHANGED <<lead, chain, clock, cancelled, place, counters, exchange, wait,
                 retained, answer, history>>

(* The dial failed. A caller that is gone owns the failure and ends the    *)
(* request; a pool moves to its next member if the request definitely was  *)
(* not sent; any other failure is observed.                                *)
ExchangeFails ==
  /\ pc = "exchange"
  /\ \/ EndpointFailed
     \/ /\ ~cancelled
        /\ dials < chain[cand].poolDials
        /\ pc' = "dial"
        /\ UNCHANGED <<failure, outcome>>
  /\ UNCHANGED <<lead, chain, clock, cancelled, place, counters, exchange, wait,
                 retained, answer, history>>

(* Mutant: the exchanges of an egress pool are dialed without a window. *)
WindowOverUnlessPooled == clock >= deadline /\ ~pooled

(* The window timer of the exchange in flight has fired. *)
WindowOver == clock >= deadline

(* The granted window is over: DialWithin ends the exchange, as a failed   *)
(* dial (send state unknown, so no further member) when no response had    *)
(* arrived, as a protocol failure when its body had not.                   *)
ExchangeTimesOut ==
  /\ pc = "exchange"
  /\ WindowOver
  /\ \/ EndpointFailed /\ UNCHANGED heard
     \/ /\ ~cancelled
        /\ pc' = "observe" /\ failure' = Observed("protocol", 0, 0)
        /\ heard' = heard \cup {cand}
        /\ UNCHANGED outcome
  /\ UNCHANGED <<lead, chain, clock, cancelled, place, counters, exchange, wait,
                 retained, answer, lateClaims>>

(* A 4xx or 5xx answered within the window. Its body is captured as        *)
(* evidence, or the capture failed; either way Retry-After was read.       *)
ErrorAnswered ==
  /\ pc = "exchange"
  /\ clock < deadline
  /\ heard' = heard \cup {cand}
  /\ pc' = "observe"
  /\ \E ra \in RetryAfters :
       \/ failure' = Observed("http", ra, 0)
       \/ ~cancelled /\ failure' = Observed("protocol", ra, 0)
  /\ UNCHANGED <<lead, chain, clock, cancelled, place, counters, exchange, wait,
                 result, lateClaims>>

(* The read of an answer's body fails on a caller that is gone. *)
BodyAbandoned ==
  /\ pc = "exchange"
  /\ cancelled
  /\ heard' = heard \cup {cand}
  /\ Complete("client_disconnected")
  /\ UNCHANGED <<lead, chain, clock, cancelled, place, counters, exchange, failure,
                 wait, retained, answer, lateClaims>>

(* A 2xx meant to be buffered whose body is unreadable, not JSON or too    *)
(* large.                                                                  *)
InvalidAnswered ==
  /\ pc = "exchange"
  /\ clock < deadline
  /\ heard' = heard \cup {cand}
  /\ pc' = "observe"
  /\ failure' = Observed("protocol", 0, 0)
  /\ UNCHANGED <<lead, chain, clock, cancelled, place, counters, exchange, wait,
                 result, lateClaims>>

(* A buffered body the memory budget refuses ends the request locally. *)
CapacityRefused ==
  /\ pc = "exchange"
  /\ clock < deadline
  /\ heard' = heard \cup {cand}
  /\ \/ Complete("capacity_exceeded")
     \/ cancelled /\ Complete("client_disconnected")
  /\ UNCHANGED <<lead, chain, clock, cancelled, place, counters, exchange, failure,
                 wait, retained, answer, lateClaims>>

(* A usable answer commits: an event stream and a verbatim relay hand      *)
(* their live body over, a buffered one was read and validated.            *)
AnswerCommitted ==
  /\ pc = "exchange"
  /\ clock < deadline
  /\ heard' = heard \cup {cand}
  /\ \E kind \in {"sse", "verbatim", "buffered"} :
       answer' = [kind |-> kind, cand |-> cand]
  /\ pc' = "relay"
  /\ UNCHANGED <<lead, chain, clock, cancelled, place, counters, exchange, failure,
                 wait, retained, outcome, lateClaims>>

-----------------------------------------------------------------------------
(* Mutant: the one-based chain position is incremented twice. *)
AnswerForOffByOne(o) ==
  [kind |-> IF o.kind = "http" THEN "httpError" ELSE "invalid", cand |-> cand + 1]

(* What a failed attempt leaves to answer with: an HTTP error or an        *)
(* invalid response; a transport or credential failure leaves nothing.     *)
AnswerFor(o) ==
  IF o.kind = "http" THEN [kind |-> "httpError", cand |-> cand]
  ELSE IF o.kind = "protocol" THEN [kind |-> "invalid", cand |-> cand]
  ELSE NoAnswer

(* Mutant: the answer of a candidate the walk leaves is committed. *)
AnswerOnCommitsLeft(act) == IF act = "retry" THEN answer ELSE AnswerFor(failure)

(* Only a failure that ends the walk is answered with. *)
AnswerOn(act) == IF act = "terminal" THEN AnswerFor(failure) ELSE answer

(* Mutant: only an HTTP error is kept when the walk moves on. *)
RetainedOnHttpOnly(act) ==
  IF act = "fallback" /\ failure.kind = "http" THEN AnswerFor(failure) ELSE retained

(* The answer of a candidate the walk leaves is kept in the one slot. *)
RetainedOn(act) ==
  IF act = "fallback" /\ AnswerFor(failure) # NoAnswer THEN AnswerFor(failure)
  ELSE retained

(* The engine decides and the walk follows: wait and re-ask the same       *)
(* candidate, retain the answer and move on, or answer with it.            *)
Decide ==
  /\ pc = "observe"
  /\ \E d \in Observe(policy, primary, entered, candAt, budget, clock, cancelled, failure) :
       LET act == WalkAction(d.action)
       IN  /\ pc' = CASE act = "retry" -> "wait"
                      [] act = "fallback" -> "enter"
                      [] OTHER -> "finalize"
           /\ wait' = IF act = "retry"
                      THEN [armed |-> d.delay > 0, until |-> clock + d.delay] ELSE wait
           /\ retained' = RetainedOn(act)
           /\ answer' = AnswerOn(act)
  /\ UNCHANGED <<lead, chain, clock, cancelled, place, counters, exchange, failure,
                 outcome, history>>

(* waitOut: the timer fires (the select may prefer it to a context that is *)
(* done as well, but a zero wait consults the context alone) ...           *)
WaitOver ==
  /\ pc = "wait"
  /\ clock >= wait.until
  /\ wait.armed \/ ~cancelled
  /\ pc' = "attempt"
  /\ UNCHANGED <<lead, chain, clock, cancelled, place, counters, exchange, failure,
                 wait, result, history>>

(* ... or the caller goes away first, and nothing is answered. *)
WaitAborted ==
  /\ pc = "wait"
  /\ cancelled
  /\ Complete("client_disconnected")
  /\ UNCHANGED <<lead, chain, clock, cancelled, place, counters, exchange, failure,
                 wait, retained, answer, history>>

(* After the walk: the committed answer, else the retained one, else the   *)
(* synthesized 502 (nothing is written to a caller that is gone).          *)
Finalize ==
  /\ pc = "finalize"
  /\ \/ /\ answer # NoAnswer \/ retained # NoAnswer
        /\ answer' = IF answer # NoAnswer THEN answer ELSE retained
        /\ pc' = "relay"
        /\ UNCHANGED outcome
     \/ /\ answer = NoAnswer /\ retained = NoAnswer
        /\ Complete(IF cancelled THEN "client_disconnected" ELSE "upstream_unreachable")
        /\ UNCHANGED answer
  /\ UNCHANGED <<lead, chain, clock, cancelled, place, counters, exchange, failure,
                 wait, retained, history>>

(* How the writing of each kind of answer may end, the client staying: a   *)
(* live body may break off or (an event stream) pass a frame limit, and a  *)
(* buffered one may resist its last translation.                           *)
RelayOutcomes ==
  [sse       |-> {"completed", "stream_truncated", "stream_limit_exceeded"},
   verbatim  |-> {"relayed", "upstream_read_failed"},
   buffered  |-> {"completed", "upstream_invalid_response"},
   httpError |-> {"upstream_http_error"},
   invalid   |-> {"upstream_invalid_response", "upstream_read_failed"}]

(* The answer is written to the client; any write may end in a disconnect. *)
(* The stream is one whose policy has continuation off, the default: no    *)
(* timer runs while a live body is relayed, and a client may read slowly,  *)
(* so only the client's going, which cancels the body, is sure to end it.  *)
Relay ==
  /\ pc = "relay"
  /\ \/ \E how \in Outcomes : how \in RelayOutcomes[answer.kind] /\ Complete(how)
     \/ cancelled /\ Complete("client_disconnected")
  /\ UNCHANGED <<lead, chain, clock, cancelled, place, counters, exchange, failure,
                 wait, retained, answer, history>>

-----------------------------------------------------------------------------
(* The client goes away. *)
CallerGoes ==
  /\ pc # "done"
  /\ ~cancelled
  /\ cancelled' = TRUE
  /\ UNCHANGED <<lead, chain, clock, pc, place, counters, exchange, failure, wait,
                 result, history>>

(* Time passes while the walk is blocked and wherever it is about to read  *)
(* the clock; the window timer of an exchange is punctual.                 *)
Tick ==
  /\ pc \in {"enter", "dial", "exchange", "observe", "wait"}
  /\ clock < MaxClock
  /\ pc = "exchange" => clock < deadline
  /\ clock' = clock + 1
  /\ UNCHANGED <<lead, chain, cancelled, pc, place, counters, exchange, failure,
                 wait, result, history>>

(* The steps of the handler's goroutine that depend on nobody else. *)
HandlerStep ==
  \/ EnterCandidate \/ BeginAttempt
  \/ CredentialAcquired \/ CredentialUnavailable
  \/ ClaimExchange \/ ClaimRefused
  \/ ExchangeTimesOut
  \/ Decide \/ WaitOver \/ WaitAborted
  \/ Finalize
  \/ cancelled /\ Relay

(* What upstreams, other requests and a client that stays decide. *)
Environment ==
  \/ TransformRejects \/ NoEligibleEndpoint
  \/ ExchangeFails \/ ErrorAnswered \/ InvalidAnswered \/ BodyAbandoned
  \/ CapacityRefused
  \/ AnswerCommitted
  \/ Relay
  \/ CallerGoes

(* The request is over: the walk has nothing left to do. *)
Terminated == pc = "done" /\ UNCHANGED vars

Next == HandlerStep \/ Environment \/ Tick \/ Terminated

(* The goroutine and the clock keep running; an upstream need not answer   *)
(* or go on with a body, and a client need not read or leave.              *)
Spec == Init /\ [][Next]_vars /\ WF_vars(HandlerStep) /\ WF_vars(Tick)
-----------------------------------------------------------------------------
(* The walk's state keeps its types: in particular a committed or retained *)
(* answer names a candidate of the chain (walkAnswer's candIndex), and the *)
(* budget only ever holds natural counts and instants.                     *)
TypeOK ==
  /\ lead \in Candidates /\ chain \in [Chain -> Candidates]
  /\ clock \in Nat /\ cancelled \in BOOLEAN /\ pc \in PCs
  /\ cand \in 0..ChainLen /\ entered \in Nat /\ candAt \in Nat
  /\ attempt \in Nat /\ retries \in Nat /\ attempts \in Nat
  /\ budget \in Budgets /\ dials \in Nat /\ deadline \in Nat
  /\ failure \in Observations /\ wait \in [armed : BOOLEAN, until : Nat]
  /\ retained \in [kind : AnswerKinds, cand : 0..ChainLen]
  /\ answer \in [kind : AnswerKinds, cand : 0..ChainLen]
  /\ outcome \in Outcomes /\ heard \subseteq Chain /\ lateClaims \in Nat

(* The exchange envelope is final (budget.go, AcquireExchange): whatever   *)
(* retries, fallbacks and egress fallbacks multiply into, the request      *)
(* starts at most its maximum of exchanges and each candidate at most its  *)
(* own, and an exchange in flight ends before either envelope's time does. *)
EnvelopeHeld ==
  /\ budget.reqUsed <= primary.request.maxExchanges
  /\ cand > 0 => budget.candUsed <= policy.candidate.maxExchanges
  /\ pc = "exchange" =>
       /\ deadline <= budget.start + primary.request.maxElapsed
       /\ deadline <= candAt + policy.candidate.maxElapsed

(* The bound on logical attempts (engine.go, retry and canEnter): a        *)
(* candidate is asked at most 1 + maxRetries times, the walk enters at     *)
(* most maxCandidates, and the completion record's two counters agree with *)
(* both, however attempts end (blocked, refused, failed or answered).      *)
AttemptsBounded ==
  /\ cand > 0 => attempt <= policy.maxRetries + 1
  /\ entered <= primary.maxCandidates
  /\ pc \notin {"attempt", "done"} => attempts = retries + entered

(* A fallback decision always lands (handler.go, the walk loop): once the  *)
(* engine or walkAction lets the walk move, EnterCandidate cannot refuse   *)
(* and the chain is not used up, so no move is ever reported that did not  *)
(* happen.                                                                 *)
FallbackLands == pc = "enter" => cand < ChainLen /\ CanEnter(primary, entered)

(* A caller that is gone costs at most one more exchange (handler.go,      *)
(* waitOut and ClassifyAttempt): no retry, fallback or pool member follows *)
(* the one claim that may have raced the cancellation.                     *)
CallerFinal == lateClaims <= 1

(* No upstream directive, jitter or credential cooldown makes the proxy    *)
(* sleep past the retry window of the candidate it is asking (engine.go,   *)
(* retryDelay).                                                            *)
WaitInRetryWindow ==
  pc = "wait" => wait.until <= candAt + policy.retryElapsed

(* The walk is done with this candidate and has moved on. *)
HasLeft(c) == c < cand \/ pc = "enter"

(* The last answer wins (handler.go, the slots of the walk): of the        *)
(* candidates the walk has left, the slot keeps the last one whose last    *)
(* attempt an upstream answered, neither missing nor overwritten by what   *)
(* failed unanswered after it; the client is given the answer of the last  *)
(* such candidate of all; and it is told that nobody could be reached only *)
(* if there is none.                                                       *)
LastAnswerWins ==
  /\ retained # NoAnswer => retained.cand \in heard /\ HasLeft(retained.cand)
  /\ \A c \in heard : HasLeft(c) => retained # NoAnswer /\ c <= retained.cand
  /\ answer # NoAnswer => answer.cand \in heard /\ \A c \in heard : c <= answer.cand
  /\ outcome = "upstream_unreachable" => heard = {}

(* Commitment is final (handler.go, the walk's contract): once an answer   *)
(* has been chosen no further exchange starts, nothing is waited for, and  *)
(* the answer stays.                                                       *)
CommitmentFinal ==
  [][answer # NoAnswer =>
       /\ answer' = answer
       /\ budget' = budget
       /\ pc' \in {"finalize", "relay", "done"}]_vars

(* Every walk ends, in an answer or without one (handler.go, serve): an    *)
(* upstream that never answers, a pool that never frees and a key that     *)
(* never cools down cannot park it.  What remains may only be the relay of *)
(* an answer to a client that stays, which nothing bounds: once the client *)
(* has gone the request is over.                                           *)
Termination == <>[](pc = "done" \/ (pc = "relay" /\ ~cancelled))

-----------------------------------------------------------------------------
(* Decision.Delay "has already been capped by ... the exchange envelopes"  *)
(* (engine.go:34-36): a scheduled wait ends while the request's envelope   *)
(* still has time.                                                         *)
WaitInEnvelope ==
  pc = "wait" => wait.until <= budget.start + primary.request.maxElapsed

=============================================================================
