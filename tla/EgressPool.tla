----------------------------- MODULE EgressPool -----------------------------
(***************************************************************************)
(* One egress pool and its registry entry (internal/transport/pool.go and  *)
(* registry.go): concurrent requests execute on the pool's members while   *)
(* config publishes drop the pool and bring it back. A publish that drops  *)
(* a pool in use defers its teardown to the last lease's release; a pool   *)
(* brought back starts a fresh state instance.                             *)
(*                                                                         *)
(* Each action is one critical section (r.mu, st.mu, schedMu, or a         *)
(* member's own mutex) of one goroutine; selectInitial's scan, which holds *)
(* schedMu throughout, reads all members at one instant.                   *)
(***************************************************************************)
EXTENDS Integers, FiniteSets

CONSTANTS
  Requests,       \* slots: the requests that run at one time
  NMembers,       \* members of the pool, in declaration order
  MaxConcurrency, \* a member's permit cap, 0 for unlimited
  Weight,         \* a member's weight
  MaxAttempts,    \* fallback.max-attempts of the pool, 1 if disabled
  Threshold,      \* failures that put a member in cooldown, 0 to disable
  Cooldown,       \* ticks a cooldown lasts
  MaxClock,       \* bound on the clock
  MaxPublishes    \* bound on config publishes

Members == 0..(NMembers - 1)

ASSUME PoolAssumption ==
  /\ IsFiniteSet(Requests)
  /\ NMembers \in Nat \ {0} /\ MaxAttempts \in Nat \ {0}
  /\ MaxConcurrency \in [Members -> Nat] /\ Weight \in [Members -> Nat \ {0}]
  /\ Threshold \in Nat /\ Cooldown \in Nat /\ MaxClock \in Nat /\ MaxPublishes \in Nat

(* State instances are numbered as the registry creates them: one at first *)
(* and one more at most after each publish that dropped the last.          *)
Instances == 1..(MaxPublishes + 1)
NoInstance == 0

VARIABLES
  clock,
  weighted,   \* the pool's strategy: weighted or plain round robin; never changes
  active,     \* the published snapshot contains the pool
  publishes,  \* number of publishes so far
  pools,      \* the registry's state instance under the pool's identity
  doers,      \* the state instance its doer entry points to
  made,       \* instances made
  leases, retired, torn, cursor, cw,   \* per instance: poolState
  cur, fails, until,                   \* per instance and member
  pc, inst, eligible, off, first, dials,  \* per request: Execute's locals
  pinned,     \* history: the request took its lease on a state not yet dropped
  sent        \* history: dials that may have reached an upstream

vars == <<clock, weighted, active, publishes, pools, doers, made, leases, retired, torn, cursor,
          cw, cur, fails, until, pc, inst, eligible, off, first, dials, pinned, sent>>

registry == <<weighted, active, publishes, pools, doers, made>>
sched    == <<cursor, cw>>
health   == <<fails, until>>
locals   == <<inst, eligible, off, first, dials, pinned, sent>>

PCs == {"idle", "accepted", "resolved", "select", "claim", "dial", "strike", "next",
        "acquire", "body", "end", "retire"}

Init ==
  /\ clock = 0 /\ weighted \in BOOLEAN /\ active = TRUE /\ publishes = 0
  /\ pools = NoInstance /\ doers = NoInstance /\ made = 0
  /\ leases = [s \in Instances |-> 0]
  /\ retired = [s \in Instances |-> FALSE]
  /\ torn = [s \in Instances |-> FALSE]
  /\ cursor = [s \in Instances |-> 0]
  /\ cw = [s \in Instances |-> [m \in Members |-> 0]]
  /\ cur = [s \in Instances |-> [m \in Members |-> 0]]
  /\ fails = [s \in Instances |-> [m \in Members |-> 0]]
  /\ until = [s \in Instances |-> [m \in Members |-> 0]]
  /\ pc = [r \in Requests |-> "idle"]
  /\ inst = [r \in Requests |-> NoInstance]
  /\ eligible = [r \in Requests |-> {}]
  /\ off = [r \in Requests |-> 0]
  /\ first = [r \in Requests |-> 0]
  /\ dials = [r \in Requests |-> 0]
  /\ pinned = [r \in Requests |-> FALSE]
  /\ sent = [r \in Requests |-> 0]

-----------------------------------------------------------------------------
(* The dynamic gates of a member. *)
Usable(s, m) == clock >= until[s][m]
Free(s, m) == MaxConcurrency[m] = 0 \/ cur[s][m] < MaxConcurrency[m]

(* tryAcquire and release: an unlimited member counts nothing. *)
Taken(s, m) ==
  IF MaxConcurrency[m] = 0 THEN cur ELSE [cur EXCEPT ![s][m] = @ + 1]
Released(s, m) ==
  IF MaxConcurrency[m] = 0 \/ cur[s][m] = 0 THEN cur ELSE [cur EXCEPT ![s][m] = @ - 1]

MemberOf(r) == (first[r] + off[r]) % NMembers

(* A request whose snapshot contains the pool; static eligibility (body    *)
(* size, streaming) admits some of its members.                            *)
Accept(r) ==
  /\ pc[r] = "idle"
  /\ active
  /\ pc' = [pc EXCEPT ![r] = "accepted"]
  /\ \E e \in SUBSET Members : eligible' = [eligible EXCEPT ![r] = e]
  /\ UNCHANGED <<clock, registry, leases, retired, torn, sched, cur, health, inst,
                 off, first, dials, pinned, sent>>

(* Registry.Doer: a live state is shared; a missing or retired one is      *)
(* replaced by a fresh instance, whatever the current snapshot holds.      *)
Doer(r) ==
  /\ pc[r] = "accepted"
  /\ pc' = [pc EXCEPT ![r] = "resolved"]
  /\ IF pools # NoInstance /\ ~retired[pools]
     THEN /\ inst' = [inst EXCEPT ![r] = pools]
          /\ doers' = pools
          /\ UNCHANGED <<pools, made>>
     ELSE /\ made' = made + 1
          /\ pools' = made + 1
          /\ doers' = made + 1
          /\ inst' = [inst EXCEPT ![r] = made + 1]
  /\ UNCHANGED <<clock, weighted, active, publishes, leases, retired, torn, sched, cur, health,
                 eligible, off, first, dials, pinned, sent>>

(* Execute takes its lease. *)
Begin(r) ==
  /\ pc[r] = "resolved"
  /\ leases' = [leases EXCEPT ![inst[r]] = @ + 1]
  /\ pinned' = [pinned EXCEPT ![r] = ~retired[inst[r]] /\ ~torn[inst[r]]]
  /\ pc' = [pc EXCEPT ![r] = IF eligible[r] = {} THEN "end" ELSE "select"]
  /\ UNCHANGED <<clock, registry, retired, torn, sched, cur, health, inst, eligible, off,
                 first, dials, sent>>

-----------------------------------------------------------------------------
(* selectInitial, round robin: the first takeable member from the cursor   *)
(* on; the cursor moves only when one is taken.                            *)
Takeable(r, m) == m \in eligible[r] /\ Usable(inst[r], m) /\ Free(inst[r], m)

Distance(s, m) == (m - cursor[s] + NMembers) % NMembers

(* Mutant: the cursor is not wrapped. *)
SelectRoundRobinUnwrapped(r, m) ==
  LET s == inst[r]
  IN  /\ ~weighted
      /\ Takeable(r, m)
      /\ \A k \in Members : Takeable(r, k) => Distance(s, m) <= Distance(s, k)
      /\ cursor' = [cursor EXCEPT ![s] = m + 1]
      /\ cw' = cw

SelectRoundRobin(r, m) ==
  LET s == inst[r]
  IN  /\ ~weighted
      /\ Takeable(r, m)
      /\ \A k \in Members : Takeable(r, k) => Distance(s, m) <= Distance(s, k)
      /\ cursor' = [cursor EXCEPT ![s] = (m + 1) % NMembers]
      /\ cw' = cw

(* selectWeightedLocked: candidates gain their weight and the leader pays  *)
(* the round's total. A saturated leader's round is undone and run again   *)
(* without it, so the members still in the last round are the winner and   *)
(* the ones it outranks. A member that is no candidate loses its credit.   *)
Credit(s, m) == cw[s][m] + Weight[m]

Outranks(s, m, k) ==
  \/ Credit(s, m) > Credit(s, k)
  \/ Credit(s, m) = Credit(s, k) /\ m < k

Total(ms) ==
  LET sum[n \in 0..NMembers] ==
        IF n = 0 THEN 0
        ELSE sum[n - 1] + (IF (n - 1) \in ms THEN Weight[n - 1] ELSE 0)
  IN  sum[NMembers]

(* Mutant: the winner pays for the unavailable members too. *)
SelectWeightedPaysAll(r, m) ==
  LET s == inst[r]
      candidates == {k \in eligible[r] : Usable(s, k)}
      round == {k \in candidates : k = m \/ Outranks(s, m, k)}
  IN  /\ weighted
      /\ Takeable(r, m)
      /\ \A k \in candidates : Free(s, k) /\ k # m => Outranks(s, m, k)
      /\ cw' = [cw EXCEPT ![s] = [k \in Members |->
                  IF k \notin candidates THEN 0
                  ELSE IF k = m THEN Credit(s, m) - Total(Members)
                  ELSE IF k \in round THEN Credit(s, k)
                  ELSE cw[s][k]]]
      /\ cursor' = cursor

SelectWeighted(r, m) ==
  LET s == inst[r]
      candidates == {k \in eligible[r] : Usable(s, k)}
      round == {k \in candidates : k = m \/ Outranks(s, m, k)}
  IN  /\ weighted
      /\ Takeable(r, m)
      /\ \A k \in candidates : Free(s, k) /\ k # m => Outranks(s, m, k)
      /\ cw' = [cw EXCEPT ![s] = [k \in Members |->
                  IF k \notin candidates THEN 0
                  ELSE IF k = m THEN Credit(s, m) - Total(round)
                  ELSE IF k \in round THEN Credit(s, k)
                  ELSE cw[s][k]]]
      /\ cursor' = cursor

(* The pick and its permit are one critical section. *)
SelectInitial(r) ==
  /\ pc[r] = "select"
  /\ \E m \in Members :
       /\ SelectWeighted(r, m) \/ SelectRoundRobin(r, m)
       /\ cur' = Taken(inst[r], m)
       /\ first' = [first EXCEPT ![r] = m]
  /\ off' = [off EXCEPT ![r] = 0]
  /\ pc' = [pc EXCEPT ![r] = "claim"]
  /\ UNCHANGED <<clock, registry, leases, retired, torn, health, inst, eligible, dials,
                 pinned, sent>>

(* No member is takeable: zero dials, the pool is exhausted. *)
SelectNone(r) ==
  /\ pc[r] = "select"
  /\ \A m \in Members : ~Takeable(r, m)
  /\ cw' = IF weighted
           THEN [cw EXCEPT ![inst[r]] = [k \in Members |->
                   IF k \in eligible[r] /\ Usable(inst[r], k) THEN @[k] ELSE 0]]
           ELSE cw
  /\ pc' = [pc EXCEPT ![r] = "end"]
  /\ UNCHANGED <<clock, registry, leases, retired, torn, cursor, cur, health, locals>>

-----------------------------------------------------------------------------
(* The exchange is claimed from the request's budget and the member is     *)
(* dialed ...                                                              *)
Claim(r) ==
  /\ pc[r] = "claim"
  /\ dials' = [dials EXCEPT ![r] = @ + 1]
  /\ pc' = [pc EXCEPT ![r] = "dial"]
  /\ UNCHANGED <<clock, registry, leases, retired, torn, sched, cur, health, inst,
                 eligible, off, first, pinned, sent>>

(* Mutant: a refused exchange keeps the permit. *)
ClaimRefusedKeepsPermit(r) ==
  /\ pc[r] = "claim"
  /\ cur' = cur
  /\ pc' = [pc EXCEPT ![r] = "end"]
  /\ UNCHANGED <<clock, registry, leases, retired, torn, sched, health, locals>>

(* Mutant: a refused exchange returns without end(). *)
ClaimRefusedKeepsLease(r) ==
  /\ pc[r] = "claim"
  /\ cur' = Released(inst[r], MemberOf(r))
  /\ pc' = [pc EXCEPT ![r] = "idle"]
  /\ UNCHANGED <<clock, registry, leases, retired, torn, sched, health, locals>>

(* ... unless the request cannot be built or the budget refuses: the       *)
(* permit goes back and no member is struck.                               *)
ClaimRefused(r) ==
  /\ pc[r] = "claim"
  /\ cur' = Released(inst[r], MemberOf(r))
  /\ pc' = [pc EXCEPT ![r] = "end"]
  /\ UNCHANGED <<clock, registry, leases, retired, torn, sched, health, locals>>

(* Any response is an answer: the member is healthy, and its permit and    *)
(* the lease stay with the body.                                           *)
Answered(r) ==
  LET s == inst[r]  m == MemberOf(r)
  IN  /\ pc[r] = "dial"
      /\ fails' = [fails EXCEPT ![s][m] = 0]
      /\ until' = [until EXCEPT ![s][m] = 0]
      /\ sent' = [sent EXCEPT ![r] = @ + 1]
      /\ pc' = [pc EXCEPT ![r] = "body"]
      /\ UNCHANGED <<clock, registry, leases, retired, torn, sched, cur, inst, eligible,
                     off, first, dials, pinned>>

(* Mutant: a dial that may have been sent falls back too. *)
StoppedFallsBack(r) ==
  /\ pc[r] = "dial"
  /\ cur' = Released(inst[r], MemberOf(r))
  /\ off' = [off EXCEPT ![r] = @ + 1]
  /\ sent' = [sent EXCEPT ![r] = @ + 1]
  /\ pc' = [pc EXCEPT ![r] = "next"]
  /\ UNCHANGED <<clock, registry, leases, retired, torn, sched, health, inst, eligible,
                 first, dials, pinned>>

(* The caller ended the dial, or the request may have reached the member:  *)
(* nobody is struck and nothing is dialed again.                           *)
Stopped(r) ==
  /\ pc[r] = "dial"
  /\ cur' = Released(inst[r], MemberOf(r))
  /\ sent' = [sent EXCEPT ![r] = @ + 1]
  /\ pc' = [pc EXCEPT ![r] = "end"]
  /\ UNCHANGED <<clock, registry, leases, retired, torn, sched, health, inst, eligible,
                 off, first, dials, pinned>>

(* The request definitely was not sent: the permit goes back ...           *)
NotSent(r) ==
  /\ pc[r] = "dial"
  /\ cur' = Released(inst[r], MemberOf(r))
  /\ pc' = [pc EXCEPT ![r] = "strike"]
  /\ UNCHANGED <<clock, registry, leases, retired, torn, sched, health, locals>>

(* ... and the member, which others may take meanwhile, is struck (into a  *)
(* cooldown at the threshold); the next one may be tried.                  *)
Strike(r) ==
  LET s == inst[r]  m == MemberOf(r)
      trips == Threshold > 0 /\ fails[s][m] + 1 >= Threshold
  IN  /\ pc[r] = "strike"
      /\ fails' = IF Threshold = 0 THEN fails
                  ELSE [fails EXCEPT ![s][m] = IF trips THEN 0 ELSE @ + 1]
      /\ until' = IF trips THEN [until EXCEPT ![s][m] = clock + Cooldown] ELSE until
      /\ off' = [off EXCEPT ![r] = @ + 1]
      /\ pc' = [pc EXCEPT ![r] = "next"]
      /\ UNCHANGED <<clock, registry, leases, retired, torn, sched, cur, inst, eligible,
                     first, dials, pinned, sent>>

(* The fallback order: the remaining members cyclically. One that is not   *)
(* eligible or not usable is passed over ...                               *)
FallbackChecks(r) ==
  /\ pc[r] = "next"
  /\ off[r] < NMembers /\ dials[r] < MaxAttempts
  /\ IF MemberOf(r) \in eligible[r] /\ Usable(inst[r], MemberOf(r))
     THEN pc' = [pc EXCEPT ![r] = "acquire"] /\ off' = off
     ELSE pc' = pc /\ off' = [off EXCEPT ![r] = @ + 1]
  /\ UNCHANGED <<clock, registry, leases, retired, torn, sched, cur, health, inst, eligible,
                 first, dials, pinned, sent>>

(* ... and so is one without a free permit. *)
FallbackTakes(r) ==
  LET m == MemberOf(r)
  IN  /\ pc[r] = "acquire"
      /\ IF Free(inst[r], m)
         THEN cur' = Taken(inst[r], m) /\ pc' = [pc EXCEPT ![r] = "claim"] /\ off' = off
         ELSE /\ cur' = cur
              /\ pc' = [pc EXCEPT ![r] = "next"]
              /\ off' = [off EXCEPT ![r] = @ + 1]
      /\ UNCHANGED <<clock, registry, leases, retired, torn, sched, health, inst, eligible,
                     first, dials, pinned, sent>>

(* Members or attempts are used up. *)
FallbackEnds(r) ==
  /\ pc[r] = "next"
  /\ off[r] >= NMembers \/ dials[r] >= MaxAttempts
  /\ pc' = [pc EXCEPT ![r] = "end"]
  /\ UNCHANGED <<clock, registry, leases, retired, torn, sched, cur, health, locals>>

(* The caller closes the body: the permit first, then the lease. *)
CloseBody(r) ==
  /\ pc[r] = "body"
  /\ cur' = Released(inst[r], MemberOf(r))
  /\ pc' = [pc EXCEPT ![r] = "end"]
  /\ UNCHANGED <<clock, registry, leases, retired, torn, sched, health, locals>>

(* Execute's locals die with it; the slot serves another request later. *)
Forget(r) ==
  /\ eligible' = [eligible EXCEPT ![r] = {}]
  /\ off' = [off EXCEPT ![r] = 0]
  /\ first' = [first EXCEPT ![r] = 0]
  /\ dials' = [dials EXCEPT ![r] = 0]
  /\ pinned' = [pinned EXCEPT ![r] = FALSE]
  /\ sent' = [sent EXCEPT ![r] = 0]

(* Mutant: the last lease does not call onRetire. *)
EndForgetsRetire(r) ==
  LET s == inst[r]
  IN  /\ pc[r] = "end"
      /\ leases' = [leases EXCEPT ![s] = @ - 1]
      /\ pc' = [pc EXCEPT ![r] = "idle"]
      /\ inst' = [inst EXCEPT ![r] = NoInstance]
      /\ Forget(r)
      /\ UNCHANGED <<clock, registry, retired, torn, sched, cur, health>>

(* end(): the lease goes back; the last one of a retired state calls       *)
(* onRetire, after st.mu is released.                                      *)
End(r) ==
  LET s == inst[r]
  IN  /\ pc[r] = "end"
      /\ leases' = [leases EXCEPT ![s] = @ - 1]
      /\ IF retired[s] /\ leases[s] - 1 <= 0
         THEN pc' = [pc EXCEPT ![r] = "retire"] /\ inst' = inst
         ELSE pc' = [pc EXCEPT ![r] = "idle"] /\ inst' = [inst EXCEPT ![r] = NoInstance]
      /\ Forget(r)
      /\ UNCHANGED <<clock, registry, retired, torn, sched, cur, health>>

-----------------------------------------------------------------------------
(* Mutant: the entry is taken by identity string, not by instance. *)
FinishRetireAnyInstance(s, d) ==
  /\ pools' = NoInstance
  /\ doers' = d
  /\ torn' = [torn EXCEPT ![s] = TRUE]

(* finishRetireLocked: a state the registry no longer holds is left alone; *)
(* otherwise the doer entry goes if it is this state's, the state entry    *)
(* goes, and the members' idle connections are closed.                     *)
FinishRetire(s, d) ==
  IF pools # NoInstance /\ pools # s
  THEN pools' = pools /\ doers' = d /\ torn' = torn
  ELSE /\ pools' = NoInstance
       /\ doers' = IF d = s THEN NoInstance ELSE d
       /\ torn' = [torn EXCEPT ![s] = TRUE]

(* The deferred teardown takes r.mu some time after the lease went back. *)
RetirePool(r) ==
  /\ pc[r] = "retire"
  /\ FinishRetire(inst[r], doers)
  /\ pc' = [pc EXCEPT ![r] = "idle"]
  /\ inst' = [inst EXCEPT ![r] = NoInstance]
  /\ UNCHANGED <<clock, weighted, active, publishes, made, leases, retired, sched, cur,
                 health, eligible, off, first, dials, pinned, sent>>

(* Mutant: a state in use is torn down by the publish itself. *)
PublishDropsNow ==
  /\ publishes < MaxPublishes
  /\ publishes' = publishes + 1
  /\ active' = FALSE
  /\ IF pools = NoInstance
     THEN pools' = pools /\ doers' = NoInstance /\ torn' = torn
     ELSE FinishRetire(pools, NoInstance)
  /\ UNCHANGED <<clock, weighted, made, leases, retired, sched, cur, health, pc, locals>>

(* A publish without the pool, and Retain on it: the doer entry goes; a    *)
(* state in use is marked for its last lease, an idle one torn down.       *)
PublishDrops ==
  /\ publishes < MaxPublishes
  /\ publishes' = publishes + 1
  /\ active' = FALSE
  /\ IF pools = NoInstance
     THEN pools' = pools /\ doers' = NoInstance /\ UNCHANGED <<torn, retired>>
     ELSE IF leases[pools] > 0
     THEN /\ retired' = [retired EXCEPT ![pools] = TRUE]
          /\ doers' = NoInstance
          /\ UNCHANGED <<pools, torn>>
     ELSE /\ FinishRetire(pools, NoInstance)
          /\ UNCHANGED retired
  /\ UNCHANGED <<clock, weighted, made, leases, sched, cur, health, pc, locals>>

(* A publish with the pool: Retain keeps whatever is there. *)
PublishKeeps ==
  /\ publishes < MaxPublishes
  /\ publishes' = publishes + 1
  /\ active' = TRUE
  /\ UNCHANGED <<clock, weighted, pools, doers, made, leases, retired, torn, sched, cur, health, pc,
                 locals>>

Tick ==
  /\ clock < MaxClock
  /\ clock' = clock + 1
  /\ UNCHANGED <<registry, leases, retired, torn, sched, cur, health, pc, locals>>

(* The steps of a request's own goroutine; a dial ends, because its        *)
(* exchange window is finite, and a client closes the body it is read.     *)
RequestStep(r) ==
  \/ Doer(r) \/ Begin(r) \/ SelectInitial(r) \/ SelectNone(r)
  \/ Claim(r) \/ ClaimRefused(r)
  \/ Answered(r) \/ Stopped(r) \/ NotSent(r) \/ Strike(r)
  \/ FallbackChecks(r) \/ FallbackTakes(r) \/ FallbackEnds(r)
  \/ CloseBody(r) \/ End(r) \/ RetirePool(r)

Next ==
  \/ \E r \in Requests : Accept(r) \/ RequestStep(r)
  \/ PublishDrops \/ PublishKeeps \/ Tick

Spec == Init /\ [][Next]_vars /\ \A r \in Requests : WF_vars(RequestStep(r))

-----------------------------------------------------------------------------
(* Pool, registry and requests keep their types: the cursor stays an index *)
(* of the member list (pool.go, selectInitial), no count goes negative, and *)
(* the registry never needs more instances than publishes allow. The range *)
(* of the weighted credit is CreditBounded's.                              *)
TypeOK ==
  /\ clock \in Nat /\ weighted \in BOOLEAN /\ active \in BOOLEAN /\ publishes \in Nat
  /\ pools \in Instances \cup {NoInstance} /\ doers \in Instances \cup {NoInstance}
  /\ made \in Instances \cup {0}
  /\ leases \in [Instances -> Nat]
  /\ retired \in [Instances -> BOOLEAN] /\ torn \in [Instances -> BOOLEAN]
  /\ cursor \in [Instances -> Members]
  /\ cur \in [Instances -> [Members -> Nat]]
  /\ fails \in [Instances -> [Members -> Nat]] /\ until \in [Instances -> [Members -> Nat]]
  /\ pc \in [Requests -> PCs] /\ inst \in [Requests -> Instances \cup {NoInstance}]
  /\ eligible \in [Requests -> SUBSET Members] /\ off \in [Requests -> 0..NMembers]
  /\ first \in [Requests -> Members] /\ dials \in [Requests -> Nat]
  /\ pinned \in [Requests -> BOOLEAN] /\ sent \in [Requests -> Nat]

(* Who holds a permit of a member, and who holds a lease of a state. *)
HasPermit(s, m) ==
  {r \in Requests : pc[r] \in {"claim", "dial", "body"} /\ inst[r] = s /\ MemberOf(r) = m}
HasLease(s) ==
  {r \in Requests :
     /\ inst[r] = s
     /\ pc[r] \in {"select", "claim", "dial", "strike", "next", "acquire", "body", "end"}}

(* Permits are conserved (pool.go, limiter): a capped member's count is    *)
(* exactly the requests dialing it or still reading its answer, on every   *)
(* path (refusal, failure, cancellation, stream), and never above the cap. *)
PermitsConserved ==
  \A s \in Instances, m \in Members :
    MaxConcurrency[m] > 0 =>
      /\ cur[s][m] = Cardinality(HasPermit(s, m))
      /\ cur[s][m] <= MaxConcurrency[m]

(* Leases are conserved (pool.go, begin and end): the count is exactly the *)
(* requests executing on the state or holding one of its bodies, so a      *)
(* teardown neither waits for nobody nor forgets somebody.                 *)
LeasesConserved == \A s \in Instances : leases[s] = Cardinality(HasLease(s))

(* The registry owns live states only (registry.go, finishRetireLocked): a *)
(* late teardown of an old generation never takes the entry of a newer     *)
(* one, and what the registry would hand out is never torn down.           *)
RegistryOwnsLive ==
  /\ pools # NoInstance => ~torn[pools]
  /\ doers # NoInstance => doers = pools /\ ~retired[doers]

(* A state in use when a publish drops it outlives its users (registry.go, *)
(* retirePoolLocked): a request that took its lease on a live state never  *)
(* has it torn down before the lease goes back. (A request that resolved   *)
(* the doer but takes its lease after the drop may run on a torn state.)   *)
TeardownDeferred ==
  \A s \in Instances : \A r \in HasLease(s) : pinned[r] => ~torn[s]

(* The pool never sends a request twice (pool.go, Execute): at most one    *)
(* dial of an Execute may have reached an upstream, and dials are bounded  *)
(* by the fallback budget.                                                 *)
SentAtMostOnce == \A r \in Requests : sent[r] <= 1 /\ dials[r] <= MaxAttempts

(* Credit stays bounded (pool.go, selectWeightedLocked): however members   *)
(* come, go and saturate, no credit and no debt grows past the price of    *)
(* one round per other member, so no counter drifts and no member bursts   *)
(* or starves on an old balance.                                           *)
CreditBounded ==
  LET round == (NMembers - 1) * Total(Members)
  IN  cw \in [Instances -> [Members -> -round..round]]

(* A deferred teardown happens: a dropped state still registered is torn   *)
(* down or superseded once its requests are over.                          *)
RetiredGoes == \A s \in Instances : retired[s] ~> (torn[s] \/ pools # s)
=============================================================================
