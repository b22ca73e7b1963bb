-------------------------- MODULE EgressPoolProofs --------------------------
(***************************************************************************)
(* The egress pool gives permits and leases back on every path, sends a    *)
(* request at most once, keeps the weighted credit bounded, and its        *)
(* registry keeps live states only and tears a state down after its users, *)
(* for every number of requests, members and publishes and all weights.    *)
(***************************************************************************)
EXTENDS EgressPool, FiniteSetTheorems, TLAPS

(* The types, by who owns the state. *)
RegistryTypeOK ==
  /\ clock \in Nat /\ weighted \in BOOLEAN /\ active \in BOOLEAN /\ publishes \in Nat
  /\ pools \in Instances \cup {NoInstance} /\ doers \in Instances \cup {NoInstance}
  /\ made \in Instances \cup {0}
  /\ retired \in [Instances -> BOOLEAN] /\ torn \in [Instances -> BOOLEAN]

(* The types of the pool states. *)
StateTypeOK ==
  /\ leases \in [Instances -> Nat]
  /\ cursor \in [Instances -> Members]
  /\ cur \in [Instances -> [Members -> Nat]]
  /\ fails \in [Instances -> [Members -> Nat]] /\ until \in [Instances -> [Members -> Nat]]

(* The types of the requests. *)
LocalTypeOK ==
  /\ pc \in [Requests -> PCs] /\ inst \in [Requests -> Instances \cup {NoInstance}]
  /\ eligible \in [Requests -> SUBSET Members] /\ off \in [Requests -> 0..NMembers]
  /\ first \in [Requests -> Members] /\ dials \in [Requests -> Nat]
  /\ pinned \in [Requests -> BOOLEAN] /\ sent \in [Requests -> Nat]

(* Where a request has a state, a member under its index, attempts left,   *)
(* and nothing sent yet.                                                   *)
PlaceInv ==
  \A r \in Requests :
    /\ pc[r] \in {"idle", "accepted"} <=> inst[r] = NoInstance
    /\ inst[r] <= made
    /\ pc[r] = "retire" => retired[inst[r]]
    /\ pc[r] \in {"claim", "dial", "strike", "acquire", "body"} => off[r] < NMembers

(* What a request may have sent, by where it stands. *)
SendInv ==
  \A r \in Requests :
    /\ sent[r] <= 1 /\ dials[r] <= MaxAttempts
    /\ pc[r] \notin {"body", "end"} => sent[r] = 0
    /\ pc[r] \in {"claim", "acquire"} => dials[r] < MaxAttempts
    /\ pc[r] \in {"idle", "accepted", "resolved", "select", "retire"} => dials[r] = 0

(* A publish ends at most one instance, and an instance not made yet is    *)
(* fresh.                                                                  *)
RegistryInv ==
  /\ publishes <= MaxPublishes
  /\ made <= publishes + 1 /\ pools <= made
  /\ made = publishes + 1 => pools # NoInstance /\ ~retired[pools]
  /\ \A s \in Instances : s > made => ~retired[s] /\ ~torn[s]
  /\ RegistryOwnsLive

-----------------------------------------------------------------------------
(* An index taken modulo the members is a member's. *)
LEMMA Wraps ==
  ASSUME NEW n \in Nat
  PROVE  n % NMembers \in Members
BY PoolAssumption DEF Members

(* An index that is a member's wraps to itself. *)
LEMMA WrapsToItself ==
  ASSUME NEW m \in Members
  PROVE  (m + 0) % NMembers = m
<1>1. m \in Nat /\ NMembers \in Nat /\ m < NMembers
  BY PoolAssumption DEF Members
<1>2. m % NMembers = m
  BY <1>1
<1>3. m + 0 = m
  BY <1>1
<1> QED
  BY <1>2, <1>3

(* The parts of the type invariant. *)
LEMMA TypeParts == TypeOK <=> RegistryTypeOK /\ StateTypeOK /\ LocalTypeOK
BY DEF TypeOK, RegistryTypeOK, StateTypeOK, LocalTypeOK

(* The member a request stands at is one. *)
LEMMA MemberIsOne ==
  ASSUME LocalTypeOK, NEW r \in Requests
  PROVE  MemberOf(r) \in Members
<1>1. first[r] \in Nat /\ off[r] \in Nat
  BY PoolAssumption DEF LocalTypeOK, Members
<1>2. first[r] + off[r] \in Nat
  BY <1>1
<1> QED
  BY <1>2, Wraps DEF MemberOf

(* Any set of requests is finite. *)
LEMMA Finite ==
  ASSUME NEW S \in SUBSET Requests
  PROVE  IsFiniteSet(S) /\ Cardinality(S) \in Nat
BY PoolAssumption, FS_Subset, FS_CardinalityType

(* The registry's numbers are numbers. *)
LEMMA Counts ==
  ASSUME RegistryTypeOK
  PROVE  /\ made \in Nat /\ publishes \in Nat /\ pools \in Nat /\ clock \in Nat
         /\ MaxPublishes \in Nat
<1>1. \A s \in Instances \cup {NoInstance} : s \in Nat
  BY PoolAssumption DEF Instances, NoInstance
<1> QED
  BY <1>1, PoolAssumption DEF RegistryTypeOK, NoInstance

(* The initial state. *)
LEMMA InitFacts == Init => TypeOK /\ PlaceInv /\ SendInv /\ RegistryInv
<1> SUFFICES ASSUME Init PROVE TypeOK /\ PlaceInv /\ SendInv /\ RegistryInv
  OBVIOUS
<1> USE PoolAssumption DEF Init, NoInstance
<1>1. 0 \in Members
  BY DEF Members
<1>2. TypeOK
  BY <1>1 DEF TypeOK, PCs
<1>3. PlaceInv /\ SendInv
  BY DEF PlaceInv, SendInv
<1>4. RegistryInv
  BY DEF RegistryInv, RegistryOwnsLive, Instances
<1> QED
  BY <1>2, <1>3, <1>4

(* The lease of a request about to end is counted. *)
LEMMA LeaseCounted ==
  ASSUME TypeOK, LeasesConserved, NEW r \in Requests, inst[r] \in Instances, pc[r] = "end"
  PROVE  leases[inst[r]] >= 1
<1>1. r \in HasLease(inst[r])
  BY DEF HasLease
<1>2. HasLease(inst[r]) \in SUBSET Requests
  BY DEF HasLease
<1>3. Cardinality(HasLease(inst[r])) # 0
  BY <1>1, <1>2, Finite, FS_EmptySet
<1> QED
  BY <1>2, <1>3, Finite DEF LeasesConserved

-----------------------------------------------------------------------------
(* The registry's types and invariant. Only five actions touch them. *)

(* Registry.Doer hands out a live state; it makes one only when a publish  *)
(* has ended the last.                                                     *)
LEMMA DoerRegistry ==
  ASSUME TypeOK, PlaceInv, RegistryInv, NEW r \in Requests, Doer(r)
  PROVE  RegistryTypeOK' /\ RegistryInv'
<1> USE PoolAssumption DEF NoInstance
<1>1. /\ made \in Nat /\ publishes \in Nat /\ pools \in Nat /\ clock \in Nat
      /\ MaxPublishes \in Nat
  BY TypeParts, Counts
<1>2. CASE pools # NoInstance /\ ~retired[pools]
  BY <1>1, <1>2 DEF Doer, TypeOK, RegistryTypeOK, RegistryInv, RegistryOwnsLive
<1>3. CASE ~(pools # NoInstance /\ ~retired[pools])
  <2>1. made + 1 <= publishes + 1
    BY <1>1, <1>3 DEF RegistryInv
  <2>2. made + 1 \in Instances
    BY <1>1, <2>1 DEF RegistryInv, Instances
  <2>3. /\ made' = made + 1 /\ pools' = made + 1 /\ doers' = made + 1
        /\ UNCHANGED <<clock, weighted, active, publishes, retired, torn>>
    BY <1>3 DEF Doer
  <2>4. ~retired[made + 1] /\ ~torn[made + 1]
    BY <1>1, <2>2 DEF RegistryInv
  <2> QED
    BY <1>1, <2>1, <2>2, <2>3, <2>4 DEF TypeOK, RegistryTypeOK, RegistryInv, RegistryOwnsLive
<1> QED
  BY <1>2, <1>3

(* The deferred teardown takes the entry of its own state only. *)
LEMMA RetireRegistry ==
  ASSUME TypeOK, PlaceInv, RegistryInv, NEW r \in Requests, RetirePool(r)
  PROVE  RegistryTypeOK' /\ RegistryInv'
<1> USE PoolAssumption DEF NoInstance
<1>1. /\ made \in Nat /\ publishes \in Nat /\ pools \in Nat /\ clock \in Nat
      /\ MaxPublishes \in Nat
  BY TypeParts, Counts
<1>2. inst[r] \in Instances /\ inst[r] <= made /\ retired[inst[r]]
  BY DEF RetirePool, TypeOK, PlaceInv
<1>3. UNCHANGED <<clock, weighted, active, publishes, made, retired>>
  BY DEF RetirePool
<1>4. CASE pools # NoInstance /\ pools # inst[r]
  BY <1>1, <1>3, <1>4 DEF RetirePool, FinishRetire, TypeOK, RegistryTypeOK, RegistryInv, RegistryOwnsLive
<1>5. CASE ~(pools # NoInstance /\ pools # inst[r])
  <2>1. pools' = NoInstance /\ doers' = NoInstance /\ torn' = [torn EXCEPT ![inst[r]] = TRUE]
    BY <1>2, <1>5 DEF RetirePool, FinishRetire, RegistryInv, RegistryOwnsLive
  <2>2. made # publishes + 1
    BY <1>2, <1>5 DEF RegistryInv
  <2> QED
    BY <1>1, <1>2, <1>3, <2>1, <2>2 DEF TypeOK, RegistryTypeOK, RegistryInv, RegistryOwnsLive
<1> QED
  BY <1>4, <1>5

(* A publish that drops the pool ends the state in force. *)
LEMMA DropRegistry ==
  ASSUME TypeOK, PlaceInv, RegistryInv, PublishDrops
  PROVE  RegistryTypeOK' /\ RegistryInv'
<1> USE PoolAssumption DEF NoInstance
<1>1. /\ made \in Nat /\ publishes \in Nat /\ pools \in Nat /\ clock \in Nat
      /\ MaxPublishes \in Nat
  BY TypeParts, Counts
<1>2. /\ publishes' = publishes + 1 /\ publishes < MaxPublishes /\ active' = FALSE
      /\ doers' = NoInstance /\ UNCHANGED <<clock, weighted, made>>
  BY DEF PublishDrops, FinishRetire
<1>a. RegistryTypeOK
  BY TypeParts
<1>b. publishes' \in Nat /\ doers' \in Instances \cup {NoInstance}
  BY <1>1, <1>2
<1>c. active' \in BOOLEAN
  BY <1>2
<1>3. CASE pools = NoInstance
  <2>1. UNCHANGED <<pools, torn, retired>>
    BY <1>3 DEF PublishDrops
  <2> QED
    BY <1>1, <1>a, <1>b, <1>c, <1>2, <1>3, <2>1 DEF RegistryTypeOK, RegistryInv, RegistryOwnsLive
<1>4. CASE pools # NoInstance /\ leases[pools] > 0
  <2>1. retired' = [retired EXCEPT ![pools] = TRUE] /\ UNCHANGED <<pools, torn>>
    BY <1>4 DEF PublishDrops
  <2>2. pools \in Instances /\ made' # publishes' + 1
    BY <1>1, <1>2, <1>4 DEF TypeOK, RegistryInv
  <2>3. RegistryTypeOK'
    BY <1>a, <1>b, <1>c, <1>2, <2>1 DEF RegistryTypeOK
  <2> QED
    BY <1>1, <1>2, <2>1, <2>2, <2>3 DEF TypeOK, RegistryInv, RegistryOwnsLive
<1>5. CASE pools # NoInstance /\ ~(leases[pools] > 0)
  <2>1. /\ pools' = NoInstance /\ torn' = [torn EXCEPT ![pools] = TRUE]
        /\ UNCHANGED retired
    BY <1>5 DEF PublishDrops, FinishRetire
  <2>2. pools \in Instances /\ made' # publishes' + 1
    BY <1>1, <1>2, <1>5 DEF TypeOK, RegistryInv
  <2>3. RegistryTypeOK'
    BY <1>a, <1>b, <1>c, <1>2, <2>1 DEF RegistryTypeOK
  <2> QED
    BY <1>1, <1>2, <2>1, <2>2, <2>3 DEF TypeOK, RegistryInv, RegistryOwnsLive
<1> QED
  BY <1>3, <1>4, <1>5

(* The other steps leave the registry's entries alone. *)
LEMMA RestRegistry ==
  ASSUME TypeOK, RegistryInv,
         UNCHANGED <<weighted, pools, doers, made, retired, torn>>,
         \/ UNCHANGED <<clock, active, publishes>>
         \/ PublishKeeps
         \/ Tick
  PROVE  RegistryTypeOK' /\ RegistryInv'
<1> USE PoolAssumption DEF NoInstance
<1>1. /\ made \in Nat /\ publishes \in Nat /\ pools \in Nat /\ clock \in Nat
      /\ MaxPublishes \in Nat
  BY TypeParts, Counts
<1>2. CASE UNCHANGED <<clock, active, publishes>>
  BY <1>1, <1>2 DEF TypeOK, RegistryTypeOK, RegistryInv, RegistryOwnsLive
<1>3. CASE PublishKeeps
  BY <1>1, <1>3 DEF PublishKeeps, TypeOK, RegistryTypeOK, RegistryInv, RegistryOwnsLive
<1>4. CASE Tick
  BY <1>1, <1>4 DEF Tick, registry, TypeOK, RegistryTypeOK, RegistryInv, RegistryOwnsLive
<1> QED
  BY <1>2, <1>3, <1>4

-----------------------------------------------------------------------------
(* The requests' own state: types, places and what was sent. *)

(* Steps of a request that leave the registry alone. *)
LEMMA RequestLocal ==
  ASSUME TypeOK, PlaceInv, SendInv, NEW r \in Requests,
         \/ Accept(r) \/ Begin(r) \/ SelectInitial(r) \/ SelectNone(r)
         \/ Claim(r) \/ ClaimRefused(r)
         \/ Answered(r) \/ Stopped(r) \/ NotSent(r) \/ Strike(r)
         \/ FallbackChecks(r) \/ FallbackTakes(r) \/ FallbackEnds(r)
         \/ CloseBody(r)
  PROVE  /\ LocalTypeOK' /\ PlaceInv' /\ SendInv'
         /\ UNCHANGED <<clock, registry, retired, torn>>
<1> USE PoolAssumption DEF registry, sched, health, locals, PCs
<1>0. LocalTypeOK
  BY TypeParts
<1>1. CASE Accept(r)
  BY <1>0, <1>1 DEF Accept, LocalTypeOK, PlaceInv, SendInv
<1>2. CASE Begin(r)
  BY <1>0, <1>2 DEF Begin, LocalTypeOK, PlaceInv, SendInv
<1>3. CASE SelectInitial(r)
  BY <1>0, <1>3 DEF SelectInitial, LocalTypeOK, PlaceInv, SendInv
<1>4. CASE SelectNone(r)
  BY <1>0, <1>4 DEF SelectNone, LocalTypeOK, PlaceInv, SendInv
<1>5. CASE Claim(r)
  BY <1>0, <1>5 DEF Claim, LocalTypeOK, PlaceInv, SendInv
<1>6. CASE ClaimRefused(r)
  BY <1>0, <1>6 DEF ClaimRefused, LocalTypeOK, PlaceInv, SendInv
<1>7. CASE Answered(r)
  BY <1>0, <1>7 DEF Answered, LocalTypeOK, PlaceInv, SendInv
<1>8. CASE Stopped(r)
  BY <1>0, <1>8 DEF Stopped, LocalTypeOK, PlaceInv, SendInv
<1>9. CASE NotSent(r)
  BY <1>0, <1>9 DEF NotSent, LocalTypeOK, PlaceInv, SendInv
<1>10. CASE Strike(r)
  BY <1>0, <1>10 DEF Strike, LocalTypeOK, PlaceInv, SendInv
<1>11. CASE FallbackChecks(r)
  BY <1>0, <1>11 DEF FallbackChecks, LocalTypeOK, PlaceInv, SendInv
<1>12. CASE FallbackTakes(r)
  BY <1>0, <1>12 DEF FallbackTakes, LocalTypeOK, PlaceInv, SendInv
<1>13. CASE FallbackEnds(r)
  BY <1>0, <1>13 DEF FallbackEnds, LocalTypeOK, PlaceInv, SendInv
<1>14. CASE CloseBody(r)
  BY <1>0, <1>14 DEF CloseBody, LocalTypeOK, PlaceInv, SendInv
<1> QED
  BY <1>1, <1>2, <1>3, <1>4, <1>5, <1>6, <1>7, <1>8, <1>9, <1>10, <1>11, <1>12, <1>13, <1>14

(* The request that resolves its doer. *)
LEMMA DoerLocal ==
  ASSUME TypeOK, PlaceInv, SendInv, RegistryInv, NEW r \in Requests, Doer(r)
  PROVE  LocalTypeOK' /\ PlaceInv' /\ SendInv'
<1> USE PoolAssumption DEF NoInstance, PCs
<1>0. LocalTypeOK
  BY TypeParts
<1>1. made \in Nat /\ made' \in Nat /\ made <= made' /\ pools \in Nat
  BY TypeParts, Counts DEF Doer
<1>2. inst' = [inst EXCEPT ![r] = pools'] /\ pools' \in Instances /\ pools' # 0 /\ pools' <= made'
  <2>1. RegistryTypeOK' /\ RegistryInv'
    BY DoerRegistry
  <2>2. pools' # 0 /\ inst' = [inst EXCEPT ![r] = pools']
    BY <1>1 DEF Doer
  <2> QED
    BY <2>1, <2>2 DEF RegistryTypeOK, RegistryInv
<1>3. /\ pc[r] = "accepted" /\ pc' = [pc EXCEPT ![r] = "resolved"]
      /\ UNCHANGED <<retired, eligible, off, first, dials, pinned, sent>>
  BY DEF Doer
<1>4. LocalTypeOK' /\ SendInv'
  BY <1>0, <1>2, <1>3 DEF LocalTypeOK, SendInv
<1>5. \A q \in Requests : inst[q] \in Nat
  BY <1>0 DEF LocalTypeOK, Instances
<1>6. PlaceInv'
  BY <1>0, <1>1, <1>2, <1>3, <1>5 DEF LocalTypeOK, PlaceInv
<1> QED
  BY <1>4, <1>6

(* The request that gives its lease back, or carries a teardown out. *)
LEMMA EndLocal ==
  ASSUME TypeOK, PlaceInv, SendInv, NEW r \in Requests, End(r) \/ RetirePool(r)
  PROVE  LocalTypeOK' /\ PlaceInv' /\ SendInv'
<1> USE PoolAssumption DEF NoInstance, PCs
<1>0. LocalTypeOK /\ made \in Nat /\ 0 \in Members
  BY TypeParts, Counts DEF Members
<1>1. CASE End(r)
  <2>1. /\ pc' \in [Requests -> PCs] /\ inst' \in [Requests -> Instances \cup {NoInstance}]
        /\ \A q \in Requests : q # r => pc'[q] = pc[q] /\ inst'[q] = inst[q]
        /\ \/ pc'[r] = "retire" /\ inst'[r] = inst[r] /\ retired[inst[r]]
           \/ pc'[r] = "idle" /\ inst'[r] = NoInstance
        /\ pc[r] = "end"
    BY <1>0, <1>1 DEF End, LocalTypeOK
  <2>2. LocalTypeOK'
    BY <1>0, <1>1, <2>1 DEF End, Forget, LocalTypeOK
  <2>3. SendInv'
    BY <1>0, <1>1, <2>1 DEF End, Forget, LocalTypeOK, SendInv
  <2>4. PlaceInv'
    BY <1>0, <1>1, <2>1 DEF End, Forget, registry, LocalTypeOK, PlaceInv
  <2> QED
    BY <2>2, <2>3, <2>4
<1>2. CASE RetirePool(r)
  <2>1. LocalTypeOK'
    BY <1>0, <1>2 DEF RetirePool, LocalTypeOK
  <2>2. SendInv'
    BY <1>0, <1>2 DEF RetirePool, LocalTypeOK, SendInv
  <2>3. PlaceInv'
    BY <1>0, <1>2 DEF RetirePool, LocalTypeOK, PlaceInv
  <2> QED
    BY <2>1, <2>2, <2>3
<1> QED
  BY <1>1, <1>2

(* The steps of nobody's request. *)
LEMMA OutsideLocal ==
  ASSUME TypeOK, PlaceInv, SendInv, PublishDrops \/ PublishKeeps \/ Tick \/ UNCHANGED vars
  PROVE  LocalTypeOK' /\ PlaceInv' /\ SendInv'
<1> USE DEF locals, registry
<1>0. LocalTypeOK /\ RegistryTypeOK
  BY TypeParts
<1>1. UNCHANGED <<pc, inst, eligible, off, first, dials, pinned, sent, made>>
  BY DEF PublishDrops, PublishKeeps, Tick, vars
<1>2. \A s \in Instances : retired[s] => retired'[s]
  BY <1>0 DEF PublishDrops, PublishKeeps, Tick, vars, FinishRetire, RegistryTypeOK
<1>3. \A r \in Requests : pc[r] = "retire" => inst[r] \in Instances
  BY <1>0 DEF PlaceInv, LocalTypeOK
<1> QED
  BY <1>0, <1>1, <1>2, <1>3 DEF LocalTypeOK, PlaceInv, SendInv

-----------------------------------------------------------------------------
(* The pool states' types. *)

(* One member's count of one state is replaced. *)
LEMMA Update ==
  ASSUME NEW f \in [Instances -> [Members -> Nat]], NEW s \in Instances, NEW m \in Members,
         NEW v \in Nat
  PROVE  /\ [f EXCEPT ![s][m] = v] \in [Instances -> [Members -> Nat]]
         /\ f[s][m] \in Nat
OBVIOUS

(* Counts are given back only by who holds them. *)
LEMMA StateStep ==
  ASSUME TypeOK, PlaceInv, LeasesConserved, [Next]_vars
  PROVE  StateTypeOK'
<1> USE PoolAssumption DEF registry, sched, health, locals
<1>0. StateTypeOK /\ LocalTypeOK /\ RegistryTypeOK /\ clock \in Nat
  BY TypeParts, Counts
<1>a. ASSUME NEW r \in Requests PROVE MemberOf(r) \in Members
  BY <1>0, MemberIsOne
<1>b. ASSUME NEW r \in Requests, pc[r] \notin {"idle", "accepted"} PROVE inst[r] \in Instances
  BY <1>0, <1>b DEF PlaceInv, LocalTypeOK
<1>c. ASSUME NEW s \in Instances, NEW m \in Members
      PROVE  /\ Taken(s, m) \in [Instances -> [Members -> Nat]]
             /\ Released(s, m) \in [Instances -> [Members -> Nat]]
  <2>1. cur \in [Instances -> [Members -> Nat]] /\ cur[s][m] \in Nat
    BY <1>0 DEF StateTypeOK
  <2>2. [cur EXCEPT ![s][m] = cur[s][m] + 1] \in [Instances -> [Members -> Nat]]
    BY <2>1, Update
  <2>3. cur[s][m] # 0 => [cur EXCEPT ![s][m] = cur[s][m] - 1] \in [Instances -> [Members -> Nat]]
    <3>1. HAVE cur[s][m] # 0
    <3>2. cur[s][m] - 1 \in Nat
      BY <2>1, <3>1
    <3> QED
      BY <2>1, <3>2, Update
  <2> QED
    BY <2>1, <2>2, <2>3 DEF Taken, Released
<1>1. ASSUME NEW r \in Requests, Begin(r) PROVE StateTypeOK'
  BY <1>0, <1>1, <1>b DEF Begin, StateTypeOK
<1>2. ASSUME NEW r \in Requests, SelectInitial(r) PROVE StateTypeOK'
  <2>1. PICK m \in Members : /\ SelectWeighted(r, m) \/ SelectRoundRobin(r, m)
                             /\ cur' = Taken(inst[r], m)
    BY <1>2 DEF SelectInitial
  <2>2. (m + 1) % NMembers \in Members
    <3>1. m + 1 \in Nat
      BY DEF Members
    <3> QED
      BY <3>1, Wraps
  <2>3. cursor' \in [Instances -> Members]
    BY <1>0, <2>1, <2>2 DEF SelectWeighted, SelectRoundRobin, StateTypeOK
  <2> QED
    BY <1>0, <1>2, <1>b, <1>c, <2>1, <2>3 DEF SelectInitial, StateTypeOK
<1>3. ASSUME NEW r \in Requests,
             ClaimRefused(r) \/ Stopped(r) \/ NotSent(r) \/ CloseBody(r)
      PROVE  StateTypeOK'
  <2>1. inst[r] \in Instances /\ MemberOf(r) \in Members
    BY <1>3, <1>a, <1>b DEF ClaimRefused, Stopped, NotSent, CloseBody
  <2>2. cur' = Released(inst[r], MemberOf(r)) /\ UNCHANGED <<leases, cursor, fails, until>>
    BY <1>3 DEF ClaimRefused, Stopped, NotSent, CloseBody
  <2> QED
    BY <1>0, <1>c, <2>1, <2>2 DEF StateTypeOK
<1>4. ASSUME NEW r \in Requests, Answered(r) \/ Strike(r) PROVE StateTypeOK'
  <2> DEFINE s == inst[r]
             m == MemberOf(r)
  <2>1. s \in Instances /\ m \in Members
    BY <1>4, <1>a, <1>b DEF Answered, Strike
  <2>2. /\ fails \in [Instances -> [Members -> Nat]] /\ fails[s][m] + 1 \in Nat
        /\ until \in [Instances -> [Members -> Nat]] /\ clock + Cooldown \in Nat
    BY <1>0, <2>1 DEF StateTypeOK
  <2>3. UNCHANGED <<leases, cursor, cur>>
    BY <1>4 DEF Answered, Strike
  <2>4. \/ fails' = fails
        \/ fails' = [fails EXCEPT ![s][m] = 0]
        \/ fails' = [fails EXCEPT ![s][m] = fails[s][m] + 1]
    BY <1>4 DEF Answered, Strike
  <2>5. \/ until' = until
        \/ until' = [until EXCEPT ![s][m] = 0]
        \/ until' = [until EXCEPT ![s][m] = clock + Cooldown]
    BY <1>4 DEF Answered, Strike
  <2> HIDE DEF s, m
  <2>6. fails' \in [Instances -> [Members -> Nat]]
    BY <2>1, <2>2, <2>4, Update
  <2>7. until' \in [Instances -> [Members -> Nat]]
    BY <2>1, <2>2, <2>5, Update
  <2> QED
    BY <1>0, <2>3, <2>6, <2>7 DEF StateTypeOK
<1>5. ASSUME NEW r \in Requests, FallbackTakes(r) PROVE StateTypeOK'
  <2>1. inst[r] \in Instances /\ MemberOf(r) \in Members
    BY <1>5, <1>a, <1>b DEF FallbackTakes
  <2>2. cur' = Taken(inst[r], MemberOf(r)) \/ cur' = cur
    BY <1>5 DEF FallbackTakes
  <2>3. UNCHANGED <<leases, cursor, fails, until>>
    BY <1>5 DEF FallbackTakes
  <2> QED
    BY <1>0, <1>c, <2>1, <2>2, <2>3 DEF StateTypeOK
<1>6. ASSUME NEW r \in Requests, End(r) PROVE StateTypeOK'
  <2>1. inst[r] \in Instances /\ leases[inst[r]] - 1 \in Nat
    <3>1. pc[r] = "end" /\ inst[r] \in Instances
      BY <1>6, <1>b DEF End
    <3>2. leases[inst[r]] \in Nat /\ leases[inst[r]] >= 1
      BY <1>0, <3>1, LeaseCounted DEF StateTypeOK
    <3> QED
      BY <3>1, <3>2
  <2> QED
    BY <1>0, <1>6, <2>1 DEF End, StateTypeOK
<1>7. ASSUME NEW r \in Requests,
             \/ Accept(r) \/ Doer(r) \/ SelectNone(r) \/ Claim(r)
             \/ FallbackChecks(r) \/ FallbackEnds(r) \/ RetirePool(r)
      PROVE  StateTypeOK'
  BY <1>0, <1>7 DEF Accept, Doer, SelectNone, Claim, FallbackChecks, FallbackEnds, RetirePool, StateTypeOK
<1>8. CASE PublishDrops \/ PublishKeeps \/ Tick \/ UNCHANGED vars
  BY <1>0, <1>8 DEF PublishDrops, PublishKeeps, Tick, vars, StateTypeOK
<1> QED
  BY <1>1, <1>2, <1>3, <1>4, <1>5, <1>6, <1>7, <1>8 DEF Next, RequestStep

-----------------------------------------------------------------------------
(* Leases. *)

(* Where a request holds a lease. *)
LeasePCs == {"select", "claim", "dial", "strike", "next", "acquire", "body", "end"}

(* A step that moves no request in or out of the leased places of its      *)
(* state keeps the holders.                                                *)
LEMMA SameHolders ==
  ASSUME UNCHANGED <<leases, inst>>, LeasesConserved,
         \A r \in Requests : pc'[r] \in LeasePCs <=> pc[r] \in LeasePCs
  PROVE  LeasesConserved'
<1>1. \A s \in Instances : HasLease(s)' = HasLease(s)
  BY DEF HasLease, LeasePCs
<1> QED
  BY <1>1 DEF LeasesConserved

(* begin() and end() count the request that calls them, and only it. *)
LEMMA LeaseStep ==
  ASSUME TypeOK, PlaceInv, LeasesConserved, [Next]_vars
  PROVE  LeasesConserved'
<1> USE DEF registry, sched, health, locals
<1>0. StateTypeOK /\ LocalTypeOK
  BY TypeParts
<1>b. ASSUME NEW r \in Requests, pc[r] \notin {"idle", "accepted"} PROVE inst[r] \in Instances
  BY <1>0, <1>b DEF PlaceInv, LocalTypeOK
<1>1. ASSUME NEW r \in Requests, Begin(r) PROVE LeasesConserved'
  <2> SUFFICES ASSUME NEW s \in Instances PROVE leases'[s] = Cardinality(HasLease(s)')
    BY DEF LeasesConserved
  <2>1. pc[r] = "resolved" /\ inst' = inst /\ inst[r] \in Instances /\ pc'[r] \in LeasePCs
    BY <1>0, <1>1, <1>b DEF Begin, LocalTypeOK, LeasePCs
  <2>2. \A q \in Requests : q # r => pc'[q] = pc[q]
    BY <1>0, <1>1 DEF Begin, LocalTypeOK
  <2>3. CASE s = inst[r]
    <3>1. HasLease(s)' = HasLease(s) \cup {r} /\ r \notin HasLease(s)
      BY <2>1, <2>2, <2>3 DEF HasLease, LeasePCs
    <3>2. HasLease(s) \in SUBSET Requests
      BY DEF HasLease
    <3>3. Cardinality(HasLease(s)') = Cardinality(HasLease(s)) + 1
      BY <3>1, <3>2, Finite, FS_AddElement
    <3>4. leases'[s] = leases[s] + 1
      BY <1>0, <1>1, <2>3 DEF Begin, StateTypeOK
    <3> QED
      BY <3>3, <3>4 DEF LeasesConserved
  <2>4. CASE s # inst[r]
    <3>1. HasLease(s)' = HasLease(s)
      BY <2>1, <2>2, <2>4 DEF HasLease, LeasePCs
    <3>2. leases'[s] = leases[s]
      BY <1>0, <1>1, <2>4 DEF Begin, StateTypeOK
    <3> QED
      BY <3>1, <3>2 DEF LeasesConserved
  <2> QED
    BY <2>3, <2>4
<1>2. ASSUME NEW r \in Requests, End(r) PROVE LeasesConserved'
  <2> SUFFICES ASSUME NEW s \in Instances PROVE leases'[s] = Cardinality(HasLease(s)')
    BY DEF LeasesConserved
  <2>1. pc[r] = "end" /\ inst[r] \in Instances /\ pc'[r] \notin LeasePCs
    BY <1>0, <1>2, <1>b DEF End, LocalTypeOK, LeasePCs
  <2>2. \A q \in Requests : q # r => pc'[q] = pc[q] /\ inst'[q] = inst[q]
    BY <1>0, <1>2 DEF End, LocalTypeOK
  <2>3. CASE s = inst[r]
    <3>1. HasLease(s)' = HasLease(s) \ {r} /\ r \in HasLease(s)
      BY <2>1, <2>2, <2>3 DEF HasLease, LeasePCs
    <3>2. HasLease(s) \in SUBSET Requests
      BY DEF HasLease
    <3>3. Cardinality(HasLease(s)') = Cardinality(HasLease(s)) - 1
      BY <3>1, <3>2, Finite, FS_RemoveElement
    <3>4. leases'[s] = leases[s] - 1
      BY <1>0, <1>2, <2>3 DEF End, StateTypeOK
    <3> QED
      BY <3>3, <3>4 DEF LeasesConserved
  <2>4. CASE s # inst[r]
    <3>1. HasLease(s)' = HasLease(s)
      BY <2>1, <2>2, <2>4 DEF HasLease, LeasePCs
    <3>2. leases'[s] = leases[s]
      BY <1>0, <1>2, <2>4 DEF End, StateTypeOK
    <3> QED
      BY <3>1, <3>2 DEF LeasesConserved
  <2> QED
    BY <2>3, <2>4
<1>3. ASSUME NEW r \in Requests, Doer(r) \/ RetirePool(r) PROVE LeasesConserved'
  <2>1. pc[r] \notin LeasePCs /\ pc'[r] \notin LeasePCs
    BY <1>0, <1>3 DEF Doer, RetirePool, LocalTypeOK, LeasePCs
  <2>2. \A q \in Requests : q # r => pc'[q] = pc[q] /\ inst'[q] = inst[q]
    BY <1>0, <1>3 DEF Doer, RetirePool, LocalTypeOK
  <2>3. \A s \in Instances : HasLease(s)' = HasLease(s)
    BY <2>1, <2>2 DEF HasLease, LeasePCs
  <2> QED
    BY <1>3, <2>3 DEF LeasesConserved, Doer, RetirePool
<1>4. ASSUME NEW r \in Requests,
             \/ Accept(r) \/ SelectInitial(r) \/ SelectNone(r) \/ Claim(r) \/ ClaimRefused(r)
             \/ Answered(r) \/ Stopped(r) \/ NotSent(r) \/ Strike(r) \/ FallbackChecks(r)
             \/ FallbackTakes(r) \/ FallbackEnds(r) \/ CloseBody(r)
      PROVE  LeasesConserved'
  <2>1. UNCHANGED <<leases, inst>>
    BY <1>4 DEF Accept, SelectInitial, SelectNone, Claim, ClaimRefused, Answered, Stopped, NotSent,
                Strike, FallbackChecks, FallbackTakes, FallbackEnds, CloseBody
  <2>2. \A q \in Requests : pc'[q] \in LeasePCs <=> pc[q] \in LeasePCs
    BY <1>0, <1>4 DEF Accept, SelectInitial, SelectNone, Claim, ClaimRefused, Answered, Stopped, NotSent,
                Strike, FallbackChecks, FallbackTakes, FallbackEnds, CloseBody, LocalTypeOK, LeasePCs
  <2> QED
    BY <2>1, <2>2, SameHolders
<1>5. CASE PublishDrops \/ PublishKeeps \/ Tick \/ UNCHANGED vars
  <2>1. UNCHANGED <<leases, inst, pc>>
    BY <1>5 DEF PublishDrops, PublishKeeps, Tick, vars
  <2> QED
    BY <2>1, SameHolders
<1> QED
  BY <1>1, <1>2, <1>3, <1>4, <1>5 DEF Next, RequestStep

-----------------------------------------------------------------------------
(* The inductive invariant. *)
PoolInv == TypeOK /\ PlaceInv /\ SendInv /\ RegistryInv /\ LeasesConserved

(* It holds at first and is kept by every step. *)
LEMMA PoolInvariant == Spec => []PoolInv
<1>1. Init => PoolInv
  <2>1. Init => \A s \in Instances : HasLease(s) = {} /\ leases[s] = 0
    BY DEF Init, HasLease
  <2> QED
    BY <2>1, InitFacts, FS_EmptySet DEF PoolInv, LeasesConserved
<1>2. PoolInv /\ [Next]_vars => PoolInv'
  <2> SUFFICES ASSUME PoolInv, [Next]_vars PROVE PoolInv'
    OBVIOUS
  <2> USE DEF PoolInv
  <2>1. LeasesConserved' /\ StateTypeOK'
    BY LeaseStep, StateStep
  <2>2. ASSUME NEW r \in Requests, Accept(r) \/ RequestStep(r)
        PROVE  RegistryTypeOK' /\ RegistryInv' /\ LocalTypeOK' /\ PlaceInv' /\ SendInv'
    <3>1. CASE Doer(r)
      BY <3>1, DoerRegistry, DoerLocal
    <3>2. CASE RetirePool(r)
      BY <3>2, RetireRegistry, EndLocal
    <3>3. CASE End(r)
      BY <3>3, RestRegistry, EndLocal DEF End, registry
    <3>4. CASE ~(Doer(r) \/ RetirePool(r) \/ End(r))
      BY <2>2, <3>4, RestRegistry, RequestLocal DEF RequestStep, registry
    <3> QED
      BY <3>1, <3>2, <3>3, <3>4
  <2>3. ASSUME PublishDrops
        PROVE  RegistryTypeOK' /\ RegistryInv' /\ LocalTypeOK' /\ PlaceInv' /\ SendInv'
    <3>1. RegistryTypeOK' /\ RegistryInv'
      BY <2>3, DropRegistry
    <3> QED
      BY <2>3, <3>1, OutsideLocal
  <2>4. ASSUME PublishKeeps \/ Tick \/ UNCHANGED vars
        PROVE  RegistryTypeOK' /\ RegistryInv' /\ LocalTypeOK' /\ PlaceInv' /\ SendInv'
    <3>1. RegistryTypeOK' /\ RegistryInv'
      BY <2>4, RestRegistry DEF PublishKeeps, Tick, registry, vars
    <3> QED
      BY <2>4, <3>1, OutsideLocal
  <2>5. RegistryTypeOK' /\ RegistryInv' /\ LocalTypeOK' /\ PlaceInv' /\ SendInv'
    BY <2>2, <2>3, <2>4 DEF Next
  <2>6. TypeOK'
    BY <2>1, <2>5 DEF TypeOK, RegistryTypeOK, StateTypeOK, LocalTypeOK
  <2> QED
    BY <2>1, <2>5, <2>6
<1> QED
  BY <1>1, <1>2, PTL DEF Spec

-----------------------------------------------------------------------------
(* Permits. *)

(* Where a request holds a permit. *)
PermitPCs == {"claim", "dial", "body"}

(* A step that takes or releases none keeps the holders of each member. *)
LEMMA SamePermits ==
  ASSUME PermitsConserved, UNCHANGED cur,
         \A q \in Requests : pc'[q] \in PermitPCs <=> pc[q] \in PermitPCs,
         \A q \in Requests : pc[q] \in PermitPCs => inst'[q] = inst[q] /\ MemberOf(q)' = MemberOf(q)
  PROVE  PermitsConserved'
<1>1. \A s \in Instances, m \in Members : HasPermit(s, m)' = HasPermit(s, m)
  BY DEF HasPermit, PermitPCs
<1> QED
  BY <1>1 DEF PermitsConserved

(* tryAcquire on a member with a free permit counts the one who takes it. *)
LEMMA PermitTaken ==
  ASSUME TypeOK, PermitsConserved, NEW r \in Requests, NEW k \in Members, inst[r] \in Instances,
         Free(inst[r], k), cur' = Taken(inst[r], k), UNCHANGED inst,
         pc[r] \notin PermitPCs, pc'[r] \in PermitPCs, MemberOf(r)' = k,
         \A q \in Requests : q # r => pc'[q] = pc[q] /\ MemberOf(q)' = MemberOf(q)
  PROVE  PermitsConserved'
<1> USE PoolAssumption
<1> SUFFICES ASSUME NEW s \in Instances, NEW m \in Members, MaxConcurrency[m] > 0
             PROVE  /\ cur'[s][m] = Cardinality(HasPermit(s, m)')
                    /\ cur'[s][m] <= MaxConcurrency[m]
  BY DEF PermitsConserved
<1>0. cur \in [Instances -> [Members -> Nat]]
  BY TypeParts DEF StateTypeOK
<1>1. cur[s][m] = Cardinality(HasPermit(s, m)) /\ cur[s][m] <= MaxConcurrency[m]
  BY DEF PermitsConserved
<1>2. CASE s = inst[r] /\ m = k
  <2>1. HasPermit(s, m)' = HasPermit(s, m) \cup {r} /\ r \notin HasPermit(s, m)
    BY <1>2 DEF HasPermit, PermitPCs
  <2>2. HasPermit(s, m) \in SUBSET Requests
    BY DEF HasPermit
  <2>3. Cardinality(HasPermit(s, m)') = Cardinality(HasPermit(s, m)) + 1
    BY <2>1, <2>2, Finite, FS_AddElement
  <2>4. cur'[s][m] = cur[s][m] + 1 /\ cur[s][m] < MaxConcurrency[m]
    BY <1>0, <1>2 DEF Taken, Free
  <2>5. cur[s][m] \in Nat /\ MaxConcurrency[m] \in Nat
    BY <1>0
  <2> QED
    BY <1>1, <2>3, <2>4, <2>5
<1>3. CASE ~(s = inst[r] /\ m = k)
  <2>1. HasPermit(s, m)' = HasPermit(s, m)
    BY <1>3 DEF HasPermit, PermitPCs
  <2>2. cur'[s][m] = cur[s][m]
    BY <1>0, <1>3 DEF Taken
  <2> QED
    BY <1>1, <2>1, <2>2
<1> QED
  BY <1>2, <1>3

(* release counts the one who gives its permit back. *)
LEMMA PermitReleased ==
  ASSUME TypeOK, PermitsConserved, NEW r \in Requests, inst[r] \in Instances,
         cur' = Released(inst[r], MemberOf(r)), UNCHANGED inst,
         pc[r] \in PermitPCs, pc'[r] \notin PermitPCs,
         \A q \in Requests : q # r => pc'[q] = pc[q] /\ MemberOf(q)' = MemberOf(q)
  PROVE  PermitsConserved'
<1> USE PoolAssumption
<1> DEFINE k == MemberOf(r)
<1> SUFFICES ASSUME NEW s \in Instances, NEW m \in Members, MaxConcurrency[m] > 0
             PROVE  /\ cur'[s][m] = Cardinality(HasPermit(s, m)')
                    /\ cur'[s][m] <= MaxConcurrency[m]
  BY DEF PermitsConserved
<1>0. cur \in [Instances -> [Members -> Nat]] /\ k \in Members
  BY TypeParts, MemberIsOne DEF StateTypeOK
<1>1. cur[s][m] = Cardinality(HasPermit(s, m)) /\ cur[s][m] <= MaxConcurrency[m]
  BY DEF PermitsConserved
<1>2. CASE s = inst[r] /\ m = k
  <2>1. HasPermit(s, m)' = HasPermit(s, m) \ {r} /\ r \in HasPermit(s, m)
    BY <1>2 DEF HasPermit, PermitPCs
  <2>2. HasPermit(s, m) \in SUBSET Requests
    BY DEF HasPermit
  <2>3. Cardinality(HasPermit(s, m)') = Cardinality(HasPermit(s, m)) - 1
    BY <2>1, <2>2, Finite, FS_RemoveElement
  <2>4. Cardinality(HasPermit(s, m)) # 0
    BY <2>1, <2>2, Finite, FS_EmptySet
  <2>5. cur'[s][m] = cur[s][m] - 1
    BY <1>0, <1>1, <1>2, <2>4 DEF Released
  <2>6. cur[s][m] \in Nat /\ MaxConcurrency[m] \in Nat
    BY <1>0
  <2> QED
    BY <1>1, <2>3, <2>5, <2>6
<1>3. CASE ~(s = inst[r] /\ m = k)
  <2>1. HasPermit(s, m)' = HasPermit(s, m)
    BY <1>3 DEF HasPermit, PermitPCs
  <2>2. cur'[s][m] = cur[s][m]
    BY <1>0, <1>3 DEF Released
  <2> QED
    BY <1>1, <2>1, <2>2
<1> QED
  BY <1>2, <1>3

(* Every path of Execute, and the body's close, keeps the count. *)
LEMMA PermitStep ==
  ASSUME PoolInv, PermitsConserved, [Next]_vars
  PROVE  PermitsConserved'
<1> USE DEF registry, sched, health, locals
<1>0. TypeOK /\ LocalTypeOK /\ PlaceInv
  BY TypeParts DEF PoolInv
<1>b. ASSUME NEW r \in Requests, pc[r] \notin {"idle", "accepted"} PROVE inst[r] \in Instances
  BY <1>0, <1>b DEF PlaceInv, LocalTypeOK
<1>1. ASSUME NEW r \in Requests, SelectInitial(r) PROVE PermitsConserved'
  <2>1. PICK m \in Members : /\ SelectWeighted(r, m) \/ SelectRoundRobin(r, m)
                             /\ cur' = Taken(inst[r], m)
                             /\ first' = [first EXCEPT ![r] = m]
    BY <1>1 DEF SelectInitial
  <2>2. Free(inst[r], m)
    BY <2>1 DEF SelectWeighted, SelectRoundRobin, Takeable
  <2>3. /\ pc[r] = "select" /\ pc' = [pc EXCEPT ![r] = "claim"]
        /\ off' = [off EXCEPT ![r] = 0] /\ inst' = inst
    BY <1>1 DEF SelectInitial
  <2>4. (m + 0) % NMembers = m
    BY WrapsToItself
  <2>5. MemberOf(r)' = m
    BY <1>0, <2>1, <2>3, <2>4 DEF MemberOf, LocalTypeOK
  <2>6. \A q \in Requests : q # r => pc'[q] = pc[q] /\ MemberOf(q)' = MemberOf(q)
    BY <1>0, <2>1, <2>3 DEF MemberOf, LocalTypeOK
  <2>7. pc[r] \notin PermitPCs /\ pc'[r] \in PermitPCs /\ inst[r] \in Instances
    BY <1>0, <1>b, <2>3 DEF PermitPCs, LocalTypeOK
  <2> QED
    BY <1>0, <2>1, <2>2, <2>3, <2>5, <2>6, <2>7, PermitTaken
<1>2. ASSUME NEW r \in Requests, FallbackTakes(r) PROVE PermitsConserved'
  <2>1. pc[r] = "acquire" /\ UNCHANGED <<inst, first>>
    BY <1>2 DEF FallbackTakes
  <2>2. CASE Free(inst[r], MemberOf(r))
    <3>1. cur' = Taken(inst[r], MemberOf(r)) /\ pc' = [pc EXCEPT ![r] = "claim"] /\ off' = off
      BY <1>2, <2>2 DEF FallbackTakes
    <3>2. \A q \in Requests : MemberOf(q)' = MemberOf(q)
      BY <2>1, <3>1 DEF MemberOf
    <3>3. /\ pc[r] \notin PermitPCs /\ pc'[r] \in PermitPCs /\ inst[r] \in Instances
          /\ \A q \in Requests : q # r => pc'[q] = pc[q]
      BY <1>0, <1>b, <2>1, <3>1 DEF PermitPCs, LocalTypeOK
    <3>4. MemberOf(r) \in Members
      BY <1>0, MemberIsOne
    <3> QED
      BY <1>0, <2>1, <2>2, <3>1, <3>2, <3>3, <3>4, PermitTaken
  <2>3. CASE ~Free(inst[r], MemberOf(r))
    <3>1. cur' = cur /\ pc' = [pc EXCEPT ![r] = "next"] /\ off' = [off EXCEPT ![r] = @ + 1]
      BY <1>2, <2>3 DEF FallbackTakes
    <3>2. \A q \in Requests : q # r => MemberOf(q)' = MemberOf(q)
      BY <1>0, <2>1, <3>1 DEF MemberOf, LocalTypeOK
    <3>3. \A q \in Requests : pc'[q] \in PermitPCs <=> pc[q] \in PermitPCs
      BY <1>0, <2>1, <3>1 DEF PermitPCs, LocalTypeOK
    <3>4. pc[r] \notin PermitPCs
      BY <2>1 DEF PermitPCs
    <3> QED
      BY <2>1, <3>1, <3>2, <3>3, <3>4, SamePermits
  <2> QED
    BY <2>2, <2>3
<1>3. ASSUME NEW r \in Requests, ClaimRefused(r) \/ Stopped(r) \/ NotSent(r) \/ CloseBody(r)
      PROVE  PermitsConserved'
  <2>1. cur' = Released(inst[r], MemberOf(r)) /\ UNCHANGED <<inst, first, off>>
    BY <1>3 DEF ClaimRefused, Stopped, NotSent, CloseBody
  <2>2. /\ pc[r] \in PermitPCs /\ pc'[r] \notin PermitPCs /\ inst[r] \in Instances
        /\ \A q \in Requests : q # r => pc'[q] = pc[q]
    BY <1>0, <1>3, <1>b DEF ClaimRefused, Stopped, NotSent, CloseBody, LocalTypeOK, PermitPCs
  <2>3. \A q \in Requests : MemberOf(q)' = MemberOf(q)
    BY <2>1 DEF MemberOf
  <2> QED
    BY <1>0, <2>1, <2>2, <2>3, PermitReleased
<1>4. ASSUME NEW r \in Requests,
             \/ Accept(r) \/ Doer(r) \/ Begin(r) \/ SelectNone(r) \/ Claim(r) \/ Answered(r)
             \/ Strike(r) \/ FallbackChecks(r) \/ FallbackEnds(r) \/ End(r) \/ RetirePool(r)
      PROVE  PermitsConserved'
  <2>1. /\ UNCHANGED cur
        /\ pc'[r] \in PermitPCs <=> pc[r] \in PermitPCs
        /\ pc[r] \in PermitPCs => UNCHANGED <<inst, first, off>>
    BY <1>0, <1>4 DEF Accept, Doer, Begin, SelectNone, Claim, Answered, Strike, FallbackChecks,
                      FallbackEnds, End, RetirePool, LocalTypeOK, PermitPCs
  <2>2. \A q \in Requests : q # r => /\ pc'[q] = pc[q] /\ inst'[q] = inst[q]
                                    /\ first'[q] = first[q] /\ off'[q] = off[q]
    BY <1>0, <1>4 DEF Accept, Doer, Begin, SelectNone, Claim, Answered, Strike, FallbackChecks,
                      FallbackEnds, End, Forget, RetirePool, LocalTypeOK
  <2>3. \A q \in Requests : pc[q] \in PermitPCs => inst'[q] = inst[q] /\ MemberOf(q)' = MemberOf(q)
    BY <2>1, <2>2 DEF MemberOf
  <2>4. \A q \in Requests : pc'[q] \in PermitPCs <=> pc[q] \in PermitPCs
    BY <2>1, <2>2
  <2> QED
    BY <2>1, <2>3, <2>4, SamePermits
<1>5. CASE PublishDrops \/ PublishKeeps \/ Tick \/ UNCHANGED vars
  <2>1. UNCHANGED <<cur, pc, inst, first, off>>
    BY <1>5 DEF PublishDrops, PublishKeeps, Tick, vars
  <2>2. \A q \in Requests : MemberOf(q)' = MemberOf(q)
    BY <2>1 DEF MemberOf
  <2> QED
    BY <2>1, <2>2, SamePermits
<1> QED
  BY <1>1, <1>2, <1>3, <1>4, <1>5 DEF Next, RequestStep

-----------------------------------------------------------------------------
(* Teardown. *)

(* Whoever took its lease on a live state still has it, and nobody is      *)
(* about to tear it down.                                                  *)
TeardownInv ==
  \A r \in Requests :
    pc[r] \in LeasePCs /\ pinned[r] =>
      /\ ~torn[inst[r]]
      /\ \A q \in Requests : pc[q] = "retire" => inst[q] # inst[r]

(* The state of the last lease has no other user. *)
LEMMA LastLease ==
  ASSUME TypeOK, LeasesConserved, NEW s \in Instances, NEW r \in HasLease(s), leases[s] - 1 <= 0
  PROVE  \A q \in HasLease(s) : q = r
<1>1. HasLease(s) \in SUBSET Requests /\ HasLease(s) \ {r} \in SUBSET Requests
  BY DEF HasLease
<1>2. Cardinality(HasLease(s) \ {r}) = Cardinality(HasLease(s)) - 1
  BY <1>1, Finite, FS_RemoveElement
<1>3. Cardinality(HasLease(s) \ {r}) = 0
  BY <1>1, <1>2, Finite DEF LeasesConserved
<1>4. HasLease(s) \ {r} = {}
  BY <1>1, <1>3, Finite, FS_EmptySet
<1> QED
  BY <1>4

(* A state without leases has no user. *)
LEMMA NoLease ==
  ASSUME LeasesConserved, NEW s \in Instances, ~(leases[s] > 0)
  PROVE  HasLease(s) = {}
<1>1. HasLease(s) \in SUBSET Requests
  BY DEF HasLease
<1> QED
  BY <1>1, Finite, FS_EmptySet DEF LeasesConserved

(* Every step keeps it. *)
LEMMA TeardownStep ==
  ASSUME PoolInv, TeardownInv, [Next]_vars
  PROVE  TeardownInv'
<1> USE DEF registry, sched, health, locals
<1>0. TypeOK /\ LocalTypeOK /\ RegistryTypeOK /\ PlaceInv /\ LeasesConserved
  BY TypeParts DEF PoolInv
<1>b. ASSUME NEW r \in Requests, pc[r] \notin {"idle", "accepted"} PROVE inst[r] \in Instances
  BY <1>0, <1>b DEF PlaceInv, LocalTypeOK
<1>1. ASSUME NEW r \in Requests, Begin(r) PROVE TeardownInv'
  <2>1. /\ pc[r] = "resolved" /\ pinned' = [pinned EXCEPT ![r] = ~retired[inst[r]] /\ ~torn[inst[r]]]
        /\ UNCHANGED <<inst, torn, retired>>
    BY <1>1 DEF Begin
  <2>2. /\ \A q \in Requests : q # r => pc'[q] = pc[q] /\ pinned'[q] = pinned[q]
        /\ pc'[r] # "retire" /\ pinned'[r] = (~retired[inst[r]] /\ ~torn[inst[r]])
    BY <1>0, <1>1 DEF Begin, LocalTypeOK
  <2>3. \A q \in Requests : pc[q] = "retire" => retired[inst[q]]
    BY <1>0 DEF PlaceInv
  <2> QED
    BY <2>1, <2>2, <2>3 DEF TeardownInv
<1>2. ASSUME NEW r \in Requests, End(r) PROVE TeardownInv'
  <2>1. /\ pc[r] = "end" /\ inst[r] \in Instances /\ pinned'[r] = FALSE /\ UNCHANGED torn
        /\ \A q \in Requests : q # r => pc'[q] = pc[q] /\ inst'[q] = inst[q] /\ pinned'[q] = pinned[q]
    BY <1>0, <1>2, <1>b DEF End, Forget, LocalTypeOK
  <2>2. ASSUME pc'[r] = "retire", NEW q \in Requests, q # r, pc[q] \in LeasePCs
        PROVE  inst'[r] # inst[q]
    <3>1. leases[inst[r]] - 1 <= 0 /\ inst'[r] = inst[r]
      BY <1>0, <1>2, <2>2 DEF End, LocalTypeOK
    <3>2. r \in HasLease(inst[r])
      BY <2>1 DEF HasLease
    <3>3. q \notin HasLease(inst[r])
      BY <1>0, <2>1, <2>2, <3>1, <3>2, LastLease
    <3> QED
      BY <2>2, <3>1, <3>3 DEF HasLease, LeasePCs
  <2> QED
    BY <2>1, <2>2 DEF TeardownInv
<1>3. ASSUME NEW r \in Requests, RetirePool(r) PROVE TeardownInv'
  <2>1. /\ pc[r] = "retire" /\ pc'[r] = "idle" /\ UNCHANGED pinned
        /\ \A q \in Requests : q # r => pc'[q] = pc[q] /\ inst'[q] = inst[q]
    BY <1>0, <1>3 DEF RetirePool, LocalTypeOK
  <2>2. torn' = torn \/ torn' = [torn EXCEPT ![inst[r]] = TRUE]
    BY <1>3 DEF RetirePool, FinishRetire
  <2>3. \A s \in Instances : s # inst[r] => torn'[s] = torn[s]
    BY <1>0, <2>2 DEF RegistryTypeOK
  <2>4. \A q \in Requests : pc[q] \in LeasePCs => inst[q] \in Instances
    BY <1>b DEF LeasePCs
  <2>5. pc'[r] \notin LeasePCs
    BY <2>1 DEF LeasePCs
  <2> QED
    BY <2>1, <2>3, <2>4, <2>5 DEF TeardownInv
<1>4. CASE PublishDrops
  <2>1. UNCHANGED <<pc, inst, pinned>>
    BY <1>4 DEF PublishDrops
  <2>2. ASSUME NEW r \in Requests, pc[r] \in LeasePCs PROVE torn'[inst[r]] = torn[inst[r]]
    <3>1. CASE torn' = torn
      BY <3>1
    <3>2. CASE torn' # torn
      <4>1. /\ pools \in Instances /\ ~(leases[pools] > 0)
            /\ torn' = [torn EXCEPT ![pools] = TRUE]
        BY <1>0, <1>4, <3>2 DEF PublishDrops, FinishRetire, RegistryTypeOK
      <4>2. inst[r] \in Instances
        BY <1>b, <2>2 DEF LeasePCs
      <4>3. r \in HasLease(inst[r])
        BY <2>2 DEF HasLease, LeasePCs
      <4>4. inst[r] # pools
        BY <1>0, <4>1, <4>3, NoLease
      <4> QED
        BY <1>0, <4>1, <4>2, <4>4 DEF RegistryTypeOK
    <3> QED
      BY <3>1, <3>2
  <2> QED
    BY <2>1, <2>2 DEF TeardownInv
<1>5. ASSUME NEW r \in Requests,
             \/ Accept(r) \/ SelectInitial(r) \/ SelectNone(r) \/ Claim(r) \/ ClaimRefused(r)
             \/ Answered(r) \/ Stopped(r) \/ NotSent(r) \/ Strike(r) \/ FallbackChecks(r)
             \/ FallbackTakes(r) \/ FallbackEnds(r) \/ CloseBody(r)
      PROVE  TeardownInv'
  <2>1. UNCHANGED <<inst, torn, pinned>>
    BY <1>5 DEF Accept, SelectInitial, SelectNone, Claim, ClaimRefused, Answered, Stopped, NotSent,
                Strike, FallbackChecks, FallbackTakes, FallbackEnds, CloseBody
  <2>2. \A q \in Requests : /\ pc'[q] \in LeasePCs <=> pc[q] \in LeasePCs
                            /\ pc'[q] = "retire" => pc[q] = "retire"
    BY <1>0, <1>5 DEF Accept, SelectInitial, SelectNone, Claim, ClaimRefused, Answered, Stopped, NotSent,
                Strike, FallbackChecks, FallbackTakes, FallbackEnds, CloseBody, LocalTypeOK, LeasePCs
  <2> QED
    BY <2>1, <2>2 DEF TeardownInv
<1>6. ASSUME NEW r \in Requests, Doer(r) PROVE TeardownInv'
  <2>1. /\ pc'[r] \notin LeasePCs /\ pc'[r] # "retire" /\ UNCHANGED <<torn, pinned>>
        /\ \A q \in Requests : q # r => pc'[q] = pc[q] /\ inst'[q] = inst[q]
    BY <1>0, <1>6 DEF Doer, LocalTypeOK, LeasePCs
  <2> QED
    BY <2>1 DEF TeardownInv
<1>7. CASE PublishKeeps \/ Tick \/ UNCHANGED vars
  BY <1>7 DEF PublishKeeps, Tick, vars, TeardownInv
<1> QED
  BY <1>1, <1>2, <1>3, <1>4, <1>5, <1>6, <1>7 DEF Next, RequestStep

-----------------------------------------------------------------------------
(* Induction, with sets in the place of predicates.                        *)

(* A nonempty set of subsets of a finite set has a minimal one. *)
LEMMA MinimalSubset ==
  ASSUME NEW S, IsFiniteSet(S), NEW B \in SUBSET (SUBSET S), B # {}
  PROVE  \E T \in B : \A U \in B : U \subseteq T => U = T
<1>1. IsWellFoundedOn(StrictSubsetOrdering(S), FiniteSubsetsOf(S))
  BY FS_StrictSubsetOrderingWellFounded
<1>2. FiniteSubsetsOf(S) = SUBSET S
  BY FS_FiniteSubsetsOfFinite
<1>3. \E T \in B : \A U \in B : ~(<<U, T>> \in StrictSubsetOrdering(S))
  BY <1>1, <1>2, WFMin
<1>4. PICK T \in B : \A U \in B : ~(<<U, T>> \in StrictSubsetOrdering(S))
  BY <1>3
<1>5. ASSUME NEW U \in B, U \subseteq T, U # T PROVE FALSE
  <2>1. <<U, T>> \in StrictSubsetOrdering(S)
    BY <1>5 DEF StrictSubsetOrdering
  <2> QED
    BY <2>1, <1>4
<1> QED
  BY <1>5

(* What holds of nothing and is kept by one more element holds of a finite *)
(* set.                                                                    *)
LEMMA SetInduction ==
  ASSUME NEW S, IsFiniteSet(S), NEW G, {} \in G,
         \A T \in SUBSET S : \A x \in S \ T : T \in G => T \cup {x} \in G
  PROVE  S \in G
<1> SUFFICES ASSUME S \notin G PROVE FALSE
  OBVIOUS
<1> DEFINE B == {T \in SUBSET S : T \notin G}
<1>1. B \in SUBSET (SUBSET S) /\ B # {}
  OBVIOUS
<1>2. PICK T \in B : \A U \in B : U \subseteq T => U = T
  <2> HIDE DEF B
  <2> QED
    BY <1>1, MinimalSubset
<1>3. T # {} /\ T \in SUBSET S /\ T \notin G
  OBVIOUS
<1>4. PICK x \in T : TRUE
  BY <1>3
<1>5. T \ {x} \in SUBSET S /\ T \ {x} # T /\ x \in S \ (T \ {x}) /\ (T \ {x}) \cup {x} = T
  BY <1>3, <1>4
<1>6. T \ {x} \in G
  BY <1>2, <1>5
<1> QED
  BY <1>3, <1>5, <1>6

(* What holds of 0 and is kept by the next number holds up to n. *)
LEMMA IntervalInduction ==
  ASSUME NEW n \in Nat, NEW G, 0 \in G, \A i \in 0..(n - 1) : i \in G => i + 1 \in G
  PROVE  \A i \in 0..n : i \in G
<1> SUFFICES ASSUME NEW bad \in 0..n, bad \notin G PROVE FALSE
  OBVIOUS
<1> DEFINE B == {0..i : i \in {k \in 0..n : k \notin G}}
<1>1. IsFiniteSet(0..n)
  BY FS_Interval
<1>2. B \in SUBSET (SUBSET (0..n))
  <2>1. ASSUME NEW i \in 0..n PROVE 0..i \in SUBSET (0..n)
    OBVIOUS
  <2> QED
    BY <2>1
<1>3. B # {}
  OBVIOUS
<1>4. PICK T \in B : \A U \in B : U \subseteq T => U = T
  <2> DEFINE D == 0..n
  <2>1. IsFiniteSet(D) /\ B \in SUBSET (SUBSET D) /\ B # {}
    BY <1>1, <1>2, <1>3
  <2> HIDE DEF B, D
  <2> QED
    BY <2>1, MinimalSubset
<1>5. PICK i \in 0..n : i \notin G /\ T = 0..i
  OBVIOUS
<1>6. i - 1 \in 0..(n - 1) /\ (i - 1) + 1 = i /\ i - 1 \in 0..n
  BY <1>5
<1>7. i - 1 \notin G
  BY <1>5, <1>6
<1>8. 0..(i - 1) \in B
  BY <1>6, <1>7
<1>9. 0..(i - 1) \subseteq T /\ i \in T /\ i \notin 0..(i - 1)
  BY <1>5
<1> QED
  BY <1>4, <1>8, <1>9

-----------------------------------------------------------------------------
(* Sums over sets of members.                                              *)

(* What the members of S have in c, together. *)
Sum(c, S) ==
  LET sum[n \in 0..NMembers] ==
        IF n = 0 THEN 0
        ELSE sum[n - 1] + (IF (n - 1) \in S THEN c[n - 1] ELSE 0)
  IN  sum[NMembers]

(* g adds up the members of S below n. *)
Adds(g, c, S) ==
  /\ g \in [0..NMembers -> Int] /\ g[0] = 0
  /\ \A n \in 1..NMembers : g[n] = g[n - 1] + (IF (n - 1) \in S THEN c[n - 1] ELSE 0)

(* The recursion of a sum has a solution, and the sum is its last value. *)
LEMMA SumAdds ==
  ASSUME NEW c \in [Members -> Int], NEW S
  PROVE  \E g : Adds(g, c, S) /\ Sum(c, S) = g[NMembers]
<1> DEFINE a == [n \in 1..NMembers |-> IF (n - 1) \in S THEN c[n - 1] ELSE 0]
           Upto(g, k) == /\ g \in [0..k -> Int] /\ g[0] = 0
                         /\ \A n \in 1..k : g[n] = g[n - 1] + a[n]
           G == {k \in 0..NMembers : \E g : Upto(g, k)}
<1>0. NMembers \in Nat
  BY PoolAssumption
<1>1. \A n \in 1..NMembers : a[n] \in Int /\ a[n] = IF (n - 1) \in S THEN c[n - 1] ELSE 0
  BY <1>0 DEF Members
<1> HIDE DEF a
<1>2. 0 \in G
  <2> DEFINE g == [i \in 0..0 |-> 0]
  <2>1. Upto(g, 0)
    OBVIOUS
  <2>2. 0 \in 0..NMembers
    BY <1>0
  <2> HIDE DEF Upto, g
  <2> QED
    BY <2>1, <2>2
<1>3. ASSUME NEW k \in 0..(NMembers - 1), k \in G PROVE k + 1 \in G
  <2>1. PICK g : Upto(g, k)
    BY <1>3
  <2> DEFINE h == [i \in 0..(k + 1) |-> IF i = k + 1 THEN g[k] + a[k + 1] ELSE g[i]]
  <2>2. k + 1 \in 1..NMembers /\ k \in 0..k /\ g[k] \in Int /\ a[k + 1] \in Int
    BY <1>0, <1>1, <2>1
  <2>3. h \in [0..(k + 1) -> Int]
    BY <2>1, <2>2
  <2>4. h[0] = 0
    BY <2>1
  <2>5. ASSUME NEW n \in 1..(k + 1) PROVE h[n] = h[n - 1] + a[n]
    <3>1. CASE n = k + 1
      BY <3>1, <2>2
    <3>2. CASE n # k + 1
      <4>1. n \in 1..k /\ n - 1 \in 0..k /\ n \in 0..(k + 1) /\ n - 1 \in 0..(k + 1) /\ n - 1 # k + 1
        BY <3>2
      <4>2. h[n] = g[n] /\ h[n - 1] = g[n - 1]
        BY <3>2, <4>1
      <4> QED
        BY <2>1, <4>1, <4>2
    <3> QED
      BY <3>1, <3>2
  <2> HIDE DEF h
  <2>6. Upto(h, k + 1)
    BY <2>3, <2>4, <2>5
  <2> HIDE DEF Upto
  <2> QED
    BY <1>0, <2>2, <2>6
<1>4. NMembers \in G
  <2> HIDE DEF G
  <2> QED
    BY <1>0, <1>2, <1>3, IntervalInduction
<1>5. PICK g : Upto(g, NMembers)
  BY <1>4
<1> DEFINE Rec(f) == [n \in 0..NMembers |->
                        IF n = 0 THEN 0 ELSE f[n - 1] + (IF (n - 1) \in S THEN c[n - 1] ELSE 0)]
<1>6. ASSUME NEW f, f = Rec(f) PROVE /\ DOMAIN f = 0..NMembers /\ f[0] = 0
                                     /\ \A n \in 1..NMembers : f[n] = f[n - 1] + a[n]
  <2>1. DOMAIN f = 0..NMembers
    BY <1>6
  <2>2. \A n \in 0..NMembers : f[n] = IF n = 0 THEN 0 ELSE f[n - 1] + (IF (n - 1) \in S THEN c[n - 1] ELSE 0)
    BY <1>6
  <2> QED
    BY <1>0, <1>1, <2>1, <2>2
<1>7. g = Rec(g)
  <2>1. DOMAIN g = 0..NMembers /\ g = [n \in 0..NMembers |-> g[n]]
    BY <1>5
  <2>2. \A n \in 0..NMembers : g[n] = IF n = 0 THEN 0 ELSE g[n - 1] + (IF (n - 1) \in S THEN c[n - 1] ELSE 0)
    <3> TAKE n \in 0..NMembers
    <3>1. n = 0 \/ n \in 1..NMembers
      BY <1>0
    <3> QED
      BY <1>1, <1>5, <3>1
  <2>3. \A n \in 0..NMembers : g[n] = Rec(g)[n]
    BY <2>2
  <2>4. DOMAIN Rec(g) = 0..NMembers
    OBVIOUS
  <2> HIDE DEF Rec
  <2>5. Rec(g) = [n \in 0..NMembers |-> Rec(g)[n]]
    BY <2>4 DEF Rec
  <2> QED
    BY <2>1, <2>3, <2>5
<1> DEFINE sum == CHOOSE f : f = Rec(f)
<1>8. sum = Rec(sum)
  BY <1>7
<1>9. Sum(c, S) = sum[NMembers]
  BY DEF Sum
<1> HIDE DEF sum, Rec
<1>10. /\ DOMAIN sum = 0..NMembers /\ sum[0] = 0
       /\ \A n \in 1..NMembers : sum[n] = sum[n - 1] + a[n]
  BY <1>6, <1>8
<1>11. \A n \in 0..NMembers : sum[n] \in Int
  <2> DEFINE I == {n \in 0..NMembers : sum[n] \in Int}
  <2>1. 0 \in I
    BY <1>0, <1>10
  <2>2. ASSUME NEW n \in 0..(NMembers - 1), n \in I PROVE n + 1 \in I
    <3>1. n + 1 \in 1..NMembers /\ (n + 1) - 1 = n
      BY <1>0
    <3> QED
      BY <1>1, <1>10, <2>2, <3>1
  <2>3. \A n \in 0..NMembers : n \in I
    <3> HIDE DEF I
    <3> QED
      BY <1>0, <2>1, <2>2, IntervalInduction
  <2> QED
    BY <2>3
<1>12. sum \in [0..NMembers -> Int]
  <2>1. sum = [n \in 0..NMembers |-> sum[n]]
    BY <1>8 DEF Rec
  <2> QED
    BY <1>11, <2>1
<1> QED
  BY <1>1, <1>9, <1>10, <1>12 DEF Adds

(* What member k adds to the sum over S. *)
Part(c, S, k) == IF k \in S THEN c[k] ELSE 0

(* Parts are numbers. *)
LEMMA PartType ==
  ASSUME NEW c \in [Members -> Int], NEW S, NEW k \in Members
  PROVE  Part(c, S, k) \in Int
BY DEF Part

(* A sum is a number, and adds a part for each member. *)
LEMMA SumParts ==
  ASSUME NEW c \in [Members -> Int], NEW S
  PROVE  \E g \in [0..NMembers -> Int] :
           /\ g[0] = 0 /\ Sum(c, S) = g[NMembers] /\ Sum(c, S) \in Int
           /\ \A n \in 0..(NMembers - 1) : n \in Members /\ g[n + 1] = g[n] + Part(c, S, n)
<1>0. NMembers \in Nat
  BY PoolAssumption
<1>1. PICK g : Adds(g, c, S) /\ Sum(c, S) = g[NMembers]
  BY SumAdds
<1>2. g \in [0..NMembers -> Int] /\ g[0] = 0 /\ Sum(c, S) = g[NMembers] /\ Sum(c, S) \in Int
  BY <1>0, <1>1 DEF Adds
<1>3. ASSUME NEW n \in 0..(NMembers - 1) PROVE n \in Members /\ g[n + 1] = g[n] + Part(c, S, n)
  <2>1. n + 1 \in 1..NMembers /\ (n + 1) - 1 = n /\ n \in Members
    BY <1>0 DEF Members
  <2> QED
    BY <1>1, <2>1 DEF Adds, Part
<1> QED
  BY <1>2, <1>3

(* Two inequalities between sums of integers add up. *)
LEMMA InequalitiesAdd ==
  ASSUME NEW x1 \in Int, NEW x2 \in Int, NEW x3 \in Int, NEW x4 \in Int,
         NEW p1 \in Int, NEW p2 \in Int, NEW p3 \in Int, NEW p4 \in Int,
         x1 + x2 <= x3 + x4, p1 + p2 <= p3 + p4
  PROVE  (x1 + p1) + (x2 + p2) <= (x3 + p3) + (x4 + p4)
  OBVIOUS

(* Sums compare as their parts do. *)
LEMMA SumCompares ==
  ASSUME NEW c1 \in [Members -> Int], NEW c2 \in [Members -> Int],
         NEW c3 \in [Members -> Int], NEW c4 \in [Members -> Int], NEW S1, NEW S2, NEW S3, NEW S4,
         \A k \in Members : Part(c1, S1, k) + Part(c2, S2, k) <= Part(c3, S3, k) + Part(c4, S4, k)
  PROVE  Sum(c1, S1) + Sum(c2, S2) <= Sum(c3, S3) + Sum(c4, S4)
<1>0. NMembers \in Nat
  BY PoolAssumption
<1>1. PICK g1 \in [0..NMembers -> Int] :
        /\ g1[0] = 0 /\ Sum(c1, S1) = g1[NMembers]
        /\ \A n \in 0..(NMembers - 1) : n \in Members /\ g1[n + 1] = g1[n] + Part(c1, S1, n)
  BY SumParts
<1>2. PICK g2 \in [0..NMembers -> Int] :
        /\ g2[0] = 0 /\ Sum(c2, S2) = g2[NMembers]
        /\ \A n \in 0..(NMembers - 1) : n \in Members /\ g2[n + 1] = g2[n] + Part(c2, S2, n)
  BY SumParts
<1>3. PICK g3 \in [0..NMembers -> Int] :
        /\ g3[0] = 0 /\ Sum(c3, S3) = g3[NMembers]
        /\ \A n \in 0..(NMembers - 1) : n \in Members /\ g3[n + 1] = g3[n] + Part(c3, S3, n)
  BY SumParts
<1>4. PICK g4 \in [0..NMembers -> Int] :
        /\ g4[0] = 0 /\ Sum(c4, S4) = g4[NMembers]
        /\ \A n \in 0..(NMembers - 1) : n \in Members /\ g4[n + 1] = g4[n] + Part(c4, S4, n)
  BY SumParts
<1> DEFINE G == {n \in 0..NMembers : g1[n] + g2[n] <= g3[n] + g4[n]}
<1>5. 0 \in G
  BY <1>0, <1>1, <1>2, <1>3, <1>4
<1>6. ASSUME NEW n \in 0..(NMembers - 1), n \in G PROVE n + 1 \in G
  <2>1. n \in 0..NMembers /\ n + 1 \in 0..NMembers /\ n \in Members
    BY <1>0, <1>1
  <2>2. /\ Part(c1, S1, n) \in Int /\ Part(c2, S2, n) \in Int
        /\ Part(c3, S3, n) \in Int /\ Part(c4, S4, n) \in Int
    BY <2>1, PartType
  <2>3. Part(c1, S1, n) + Part(c2, S2, n) <= Part(c3, S3, n) + Part(c4, S4, n)
    BY <2>1
  <2>4. /\ g1[n + 1] = g1[n] + Part(c1, S1, n) /\ g2[n + 1] = g2[n] + Part(c2, S2, n)
        /\ g3[n + 1] = g3[n] + Part(c3, S3, n) /\ g4[n + 1] = g4[n] + Part(c4, S4, n)
    BY <1>1, <1>2, <1>3, <1>4
  <2>5. g1[n] \in Int /\ g2[n] \in Int /\ g3[n] \in Int /\ g4[n] \in Int
    BY <2>1
  <2>6. g1[n] + g2[n] <= g3[n] + g4[n]
    BY <1>6
  <2>7. g1[n + 1] + g2[n + 1] <= g3[n + 1] + g4[n + 1]
    <3>2. /\ g1[n + 1] = g1[n] + Part(c1, S1, n) /\ g2[n + 1] = g2[n] + Part(c2, S2, n)
          /\ g3[n + 1] = g3[n] + Part(c3, S3, n) /\ g4[n + 1] = g4[n] + Part(c4, S4, n)
      BY <2>4
    <3>3. (g1[n] + Part(c1, S1, n)) + (g2[n] + Part(c2, S2, n))
            <= (g3[n] + Part(c3, S3, n)) + (g4[n] + Part(c4, S4, n))
      BY <2>2, <2>3, <2>5, <2>6, InequalitiesAdd
    <3> QED
      BY <3>2, <3>3
  <2> QED
    BY <2>1, <2>7
<1>7. \A n \in 0..NMembers : n \in G
  <2> HIDE DEF G
  <2> QED
    BY <1>0, <1>5, <1>6, IntervalInduction
<1>8. NMembers \in G
  BY <1>0, <1>7
<1> QED
  BY <1>1, <1>2, <1>3, <1>4, <1>8

(* The sum over nobody and over one member. *)
LEMMA SumSmall ==
  ASSUME NEW c \in [Members -> Int]
  PROVE  Sum(c, {}) = 0 /\ \A k \in Members : Sum(c, {k}) = c[k]
<1>0. NMembers \in Nat
  BY PoolAssumption
<1>1. Sum(c, {}) = 0
  <2>1. PICK g \in [0..NMembers -> Int] :
          /\ g[0] = 0 /\ Sum(c, {}) = g[NMembers]
          /\ \A n \in 0..(NMembers - 1) : n \in Members /\ g[n + 1] = g[n] + Part(c, {}, n)
    BY SumParts
  <2> DEFINE G == {n \in 0..NMembers : g[n] = 0}
  <2>2. 0 \in G
    BY <1>0, <2>1
  <2>3. ASSUME NEW n \in 0..(NMembers - 1), n \in G PROVE n + 1 \in G
    BY <1>0, <2>1, <2>3 DEF Part
  <2>4. \A n \in 0..NMembers : n \in G
    <3> HIDE DEF G
    <3> QED
      BY <1>0, <2>2, <2>3, IntervalInduction
  <2> QED
    BY <1>0, <2>1, <2>4
<1>2. ASSUME NEW k \in Members PROVE Sum(c, {k}) = c[k]
  <2>1. PICK g \in [0..NMembers -> Int] :
          /\ g[0] = 0 /\ Sum(c, {k}) = g[NMembers]
          /\ \A n \in 0..(NMembers - 1) : n \in Members /\ g[n + 1] = g[n] + Part(c, {k}, n)
    BY SumParts
  <2>2. c[k] \in Int /\ k \in 0..(NMembers - 1)
    BY DEF Members
  <2> DEFINE G == {n \in 0..NMembers : g[n] = IF n > k THEN c[k] ELSE 0}
  <2>3. 0 \in G
    BY <1>0, <2>1, <2>2
  <2>4. ASSUME NEW n \in 0..(NMembers - 1), n \in G PROVE n + 1 \in G
    <3>1. n + 1 \in 0..NMembers /\ g[n + 1] = g[n] + (IF n = k THEN c[k] ELSE 0)
      BY <1>0, <2>1 DEF Part
    <3>2. g[n] = IF n > k THEN c[k] ELSE 0
      BY <2>4
    <3>3. n + 1 > k <=> (n > k \/ n = k)
      BY <2>2
    <3>4. g[n + 1] = IF n + 1 > k THEN c[k] ELSE 0
      BY <2>2, <3>1, <3>2, <3>3
    <3> QED
      BY <3>1, <3>4
  <2>5. \A n \in 0..NMembers : n \in G
    <3> HIDE DEF G
    <3> QED
      BY <1>0, <2>3, <2>4, IntervalInduction
  <2>6. NMembers \in 0..NMembers /\ NMembers > k
    BY <1>0, <2>2
  <2> QED
    BY <2>1, <2>5, <2>6
<1> QED
  BY <1>1, <1>2

(* Sums whose parts are the same are the same. *)
LEMMA SumBalances ==
  ASSUME NEW c1 \in [Members -> Int], NEW c2 \in [Members -> Int],
         NEW c3 \in [Members -> Int], NEW c4 \in [Members -> Int], NEW S1, NEW S2, NEW S3, NEW S4,
         \A k \in Members : Part(c1, S1, k) + Part(c2, S2, k) = Part(c3, S3, k) + Part(c4, S4, k)
  PROVE  Sum(c1, S1) + Sum(c2, S2) = Sum(c3, S3) + Sum(c4, S4)
<1>1. \A k \in Members : /\ Part(c1, S1, k) \in Int /\ Part(c2, S2, k) \in Int
                         /\ Part(c3, S3, k) \in Int /\ Part(c4, S4, k) \in Int
  BY PartType
<1>2. Sum(c1, S1) \in Int /\ Sum(c2, S2) \in Int /\ Sum(c3, S3) \in Int /\ Sum(c4, S4) \in Int
  BY SumParts
<1>3. Sum(c1, S1) + Sum(c2, S2) <= Sum(c3, S3) + Sum(c4, S4)
  <2>1. \A k \in Members : Part(c1, S1, k) + Part(c2, S2, k) <= Part(c3, S3, k) + Part(c4, S4, k)
    BY <1>1
  <2> QED
    BY <2>1, SumCompares
<1>4. Sum(c3, S3) + Sum(c4, S4) <= Sum(c1, S1) + Sum(c2, S2)
  <2>1. \A k \in Members : Part(c3, S3, k) + Part(c4, S4, k) <= Part(c1, S1, k) + Part(c2, S2, k)
    BY <1>1
  <2> QED
    BY <2>1, SumCompares
<1> DEFINE x == Sum(c1, S1) + Sum(c2, S2)
           y == Sum(c3, S3) + Sum(c4, S4)
<1>5. x \in Int /\ y \in Int /\ x <= y /\ y <= x
  BY <1>2, <1>3, <1>4
<1> HIDE DEF x, y
<1>6. x = y
  BY <1>5
<1> QED
  BY <1>6 DEF x, y

(* The sum over two disjoint sets. *)
LEMMA SumUnion ==
  ASSUME NEW c \in [Members -> Int], NEW S, NEW T, S \cap T = {}
  PROVE  Sum(c, S \cup T) = Sum(c, S) + Sum(c, T)
<1>1. \A k \in Members : Part(c, S \cup T, k) + Part(c, {}, k) = Part(c, S, k) + Part(c, T, k)
  <2> TAKE k \in Members
  <2>1. c[k] \in Int
    OBVIOUS
  <2> QED
    BY <2>1 DEF Part
<1>2. Sum(c, S \cup T) + Sum(c, {}) = Sum(c, S) + Sum(c, T)
  <2> DEFINE U == S \cup T
             None == {}
  <2>1. \A k \in Members : Part(c, U, k) + Part(c, None, k) = Part(c, S, k) + Part(c, T, k)
    BY <1>1
  <2> HIDE DEF U, None
  <2>2. Sum(c, U) + Sum(c, None) = Sum(c, S) + Sum(c, T)
    BY <2>1, SumBalances
  <2> QED
    BY <2>2 DEF U, None
<1>3. Sum(c, {}) = 0 /\ Sum(c, S \cup T) \in Int
  BY SumSmall, SumParts
<1> QED
  BY <1>2, <1>3

(* One more member adds its own part. *)
LEMMA SumInsert ==
  ASSUME NEW c \in [Members -> Int], NEW S, NEW k \in Members \ S
  PROVE  Sum(c, S \cup {k}) = Sum(c, S) + c[k]
<1>1. S \cap {k} = {}
  OBVIOUS
<1>2. Sum(c, S \cup {k}) = Sum(c, S) + Sum(c, {k})
  BY <1>1, SumUnion
<1>3. Sum(c, {k}) = c[k]
  BY SumSmall
<1> QED
  BY <1>2, <1>3

(* Functions that agree on a set have the same sum over it. *)
LEMMA SumAgrees ==
  ASSUME NEW c \in [Members -> Int], NEW e \in [Members -> Int], NEW S,
         \A k \in S \cap Members : c[k] = e[k]
  PROVE  Sum(c, S) = Sum(e, S)
<1>1. \A k \in Members : Part(c, S, k) + Part(c, {}, k) = Part(e, S, k) + Part(c, {}, k)
  <2> TAKE k \in Members
  <2>1. c[k] \in Int /\ e[k] \in Int
    OBVIOUS
  <2> QED
    BY <2>1 DEF Part
<1>2. Sum(c, S) + Sum(c, {}) = Sum(e, S) + Sum(c, {})
  BY <1>1, SumBalances
<1>3. Sum(c, {}) = 0 /\ Sum(c, S) \in Int /\ Sum(e, S) \in Int
  BY SumSmall, SumParts
<1> QED
  BY <1>2, <1>3

(* The weights of some members are at most those of more members.          *)
LEMMA TotalMonotone ==
  ASSUME NEW S, NEW T, S \subseteq T
  PROVE  Total(S) \in Nat /\ Total(S) <= Total(T) /\ Total(S) = Sum(Weight, S)
<1>0. Weight \in [Members -> Int] /\ \A k \in Members : Weight[k] \in Nat
  BY PoolAssumption
<1>1. \A X : Total(X) = Sum(Weight, X)
  BY DEF Total, Sum
<1>2. Sum(Weight, S) \in Int /\ Sum(Weight, T) \in Int /\ Sum(Weight, {}) = 0
  BY <1>0, SumSmall, SumParts
<1>3. Sum(Weight, S) + Sum(Weight, {}) <= Sum(Weight, T) + Sum(Weight, {})
  <2>1. \A k \in Members : Part(Weight, S, k) + Part(Weight, {}, k) <= Part(Weight, T, k) + Part(Weight, {}, k)
    BY <1>0 DEF Part
  <2> QED
    BY <1>0, <2>1, SumCompares
<1>4. Sum(Weight, {}) + Sum(Weight, {}) <= Sum(Weight, S) + Sum(Weight, {})
  <2>1. \A k \in Members : Part(Weight, {}, k) + Part(Weight, {}, k) <= Part(Weight, S, k) + Part(Weight, {}, k)
    BY <1>0 DEF Part
  <2> QED
    BY <1>0, <2>1, SumCompares
<1> QED
  BY <1>1, <1>2, <1>3, <1>4

-----------------------------------------------------------------------------
(* How much credit a set of members may hold.                              *)

(* What a set of j members may hold more when it grows by one, and what j  *)
(* members may hold.                                                       *)
Step(j) == (NMembers - 1 - j) * Total(Members)
Steps == [k \in Members |-> Step(k)]
Cap(j) == Sum(Steps, 0..(j - 1))

(* Steps fall by one round's price each, and never below nothing. *)
LEMMA StepFacts ==
  /\ \A j \in 0..(NMembers - 1) : Step(j) \in Nat
  /\ \A j \in 0..(NMembers - 2) : Step(j) = Step(j + 1) + Total(Members)
  /\ \A i, j \in 0..(NMembers - 1) : i <= j => Step(j) <= Step(i)
<1>0. NMembers \in Nat \ {0} /\ Total(Members) \in Nat
  BY PoolAssumption, TotalMonotone
<1> DEFINE W == Total(Members)
<1> HIDE DEF W
<1>1. \A j : Step(j) = (NMembers - 1 - j) * W
  BY DEF Step, W
<1>2. \A n \in Nat : n * W \in Nat /\ (n + 1) * W = n * W + W
  BY <1>0 DEF W
<1>3. ASSUME NEW j \in 0..(NMembers - 1) PROVE Step(j) \in Nat
  <2>1. NMembers - 1 - j \in Nat
    BY <1>0
  <2> QED
    BY <1>1, <1>2, <2>1
<1>4. ASSUME NEW j \in 0..(NMembers - 2) PROVE Step(j) = Step(j + 1) + W
  <2>1. NMembers - 1 - (j + 1) \in Nat /\ (NMembers - 1 - (j + 1)) + 1 = NMembers - 1 - j
    BY <1>0
  <2> QED
    BY <1>1, <1>2, <2>1
<1>5. ASSUME NEW i \in 0..(NMembers - 1) PROVE \A j \in 0..(NMembers - 1) : i <= j => Step(j) <= Step(i)
  <2> DEFINE G == {d \in 0..(NMembers - 1) : i + d <= NMembers - 1 => Step(i + d) <= Step(i)}
  <2>1. 0 \in G
    BY <1>0, <1>3
  <2>2. ASSUME NEW d \in 0..((NMembers - 1) - 1), d \in G PROVE d + 1 \in G
    <3>1. d + 1 \in 0..(NMembers - 1)
      BY <1>0
    <3>2. CASE i + (d + 1) <= NMembers - 1
      <4>1. i + d \in 0..(NMembers - 2) /\ (i + d) + 1 = i + (d + 1) /\ i + d <= NMembers - 1
        BY <1>0, <3>2
      <4>2. Step(i + d) = Step(i + (d + 1)) + W
        BY <1>4, <4>1
      <4>3. Step(i + d) <= Step(i)
        BY <2>2, <4>1
      <4>4. i + (d + 1) \in 0..(NMembers - 1) /\ i + d \in 0..(NMembers - 1)
        BY <1>0, <3>2
      <4>5. Step(i + (d + 1)) \in Nat /\ Step(i + d) \in Nat /\ Step(i) \in Nat /\ W \in Nat
        BY <1>0, <1>3, <4>4 DEF W
      <4>6. Step(i + (d + 1)) <= Step(i)
        BY <4>2, <4>3, <4>5
      <4> QED
        BY <3>1, <4>6
    <3>3. CASE ~(i + (d + 1) <= NMembers - 1)
      BY <3>1, <3>3
    <3> QED
      BY <3>2, <3>3
  <2>3. \A d \in 0..(NMembers - 1) : d \in G
    <3>1. NMembers - 1 \in Nat
      BY <1>0
    <3> HIDE DEF G
    <3> QED
      BY <3>1, <2>1, <2>2, IntervalInduction
  <2>4. ASSUME NEW j \in 0..(NMembers - 1), i <= j PROVE Step(j) <= Step(i)
    <3>1. j - i \in 0..(NMembers - 1) /\ i + (j - i) = j /\ i + (j - i) <= NMembers - 1
      BY <1>0, <2>4
    <3>2. j - i \in G
      BY <2>3, <3>1
    <3> QED
      BY <3>1, <3>2
  <2> QED
    BY <2>4
<1> QED
  BY <1>3, <1>4, <1>5 DEF W

(* A cap is the one below and a step; caps grow. *)
LEMMA CapFacts ==
  /\ Cap(0) = 0
  /\ \A j \in 0..NMembers : Cap(j) \in Int
  /\ \A j \in 0..(NMembers - 1) : Cap(j + 1) = Cap(j) + Step(j)
  /\ \A i, j \in 0..NMembers : i <= j => Cap(i) <= Cap(j)
<1>0. NMembers \in Nat \ {0}
  BY PoolAssumption
<1>1. Steps \in [Members -> Int] /\ \A k \in Members : Steps[k] = Step(k) /\ Step(k) \in Nat
  BY StepFacts DEF Steps, Members
<1> HIDE DEF Steps
<1>2. Cap(0) = 0
  <2>1. 0..(0 - 1) = {}
    OBVIOUS
  <2> QED
    BY <1>1, <2>1, SumSmall DEF Cap
<1>3. \A j : Cap(j) \in Int
  BY <1>1, SumParts DEF Cap
<1>4. ASSUME NEW j \in 0..(NMembers - 1) PROVE Cap(j + 1) = Cap(j) + Step(j)
  <2> DEFINE B == 0..(j - 1)
  <2>1. j \in Members \ B /\ 0..((j + 1) - 1) = B \cup {j}
    BY <1>0 DEF Members
  <2>2. Cap(j) = Sum(Steps, B) /\ Cap(j + 1) = Sum(Steps, B \cup {j})
    BY <2>1 DEF Cap
  <2> HIDE DEF B
  <2>3. Sum(Steps, B \cup {j}) = Sum(Steps, B) + Steps[j]
    BY <1>1, <2>1, SumInsert
  <2> QED
    BY <1>1, <2>1, <2>2, <2>3
<1>5. ASSUME NEW i \in 0..NMembers, NEW j \in 0..NMembers, i <= j PROVE Cap(i) <= Cap(j)
  <2> DEFINE A == 0..(i - 1)
             B == 0..(j - 1)
             None == {}
  <2>1. A \subseteq B
    BY <1>5
  <2>2. Cap(i) = Sum(Steps, A) /\ Cap(j) = Sum(Steps, B) /\ Sum(Steps, None) = 0
    BY <1>1, SumSmall DEF Cap
  <2>3. \A k \in None : FALSE
    OBVIOUS
  <2> HIDE DEF A, B, None
  <2>4. \A k \in Members : Part(Steps, A, k) + Part(Steps, None, k) <= Part(Steps, B, k) + Part(Steps, None, k)
    BY <1>1, <2>1, <2>3 DEF Part
  <2>5. Sum(Steps, A) + Sum(Steps, None) <= Sum(Steps, B) + Sum(Steps, None)
    BY <1>1, <2>4, SumCompares
  <2> QED
    BY <1>3, <2>2, <2>5
<1> QED
  BY <1>2, <1>3, <1>4, <1>5

(* Sets of members and their sizes. *)
LEMMA MemberSets ==
  ASSUME NEW S \in SUBSET Members
  PROVE  /\ IsFiniteSet(S) /\ Cardinality(S) \in 0..NMembers
         /\ \A T \in SUBSET S : Cardinality(T) <= Cardinality(S)
         /\ \A k \in Members \ S : /\ Cardinality(S \cup {k}) = Cardinality(S) + 1
                                   /\ Cardinality(S) \in 0..(NMembers - 1)
<1>0. NMembers \in Nat \ {0}
  BY PoolAssumption
<1>1. IsFiniteSet(Members) /\ Cardinality(Members) = NMembers
  BY <1>0, FS_Interval DEF Members
<1>2. \A T \in SUBSET Members : IsFiniteSet(T) /\ Cardinality(T) \in Nat /\ Cardinality(T) <= NMembers
  BY <1>1, FS_Subset, FS_CardinalityType
<1>3. \A T \in SUBSET S : Cardinality(T) <= Cardinality(S)
  BY <1>2, FS_Subset
<1>4. ASSUME NEW k \in Members \ S
      PROVE  Cardinality(S \cup {k}) = Cardinality(S) + 1 /\ Cardinality(S) \in 0..(NMembers - 1)
  <2>1. Cardinality(S \cup {k}) = Cardinality(S) + 1
    BY <1>2, FS_AddElement
  <2>2. S \cup {k} \in SUBSET Members
    OBVIOUS
  <2> QED
    BY <1>0, <1>2, <2>1, <2>2
<1> QED
  BY <1>0, <1>2, <1>3, <1>4

(* Members that hold at most the last step fit under the cap. *)
LEMMA FitsUnderCap ==
  ASSUME NEW c \in [Members -> Int], NEW S \in SUBSET Members, NEW G \in SUBSET S,
         Sum(c, S \ G) <= Cap(Cardinality(S \ G)),
         \A k \in G : c[k] <= Step(Cardinality(S) - 1)
  PROVE  Sum(c, S) <= Cap(Cardinality(S))
<1> DEFINE Q(T) == (S \ G) \cup T
           Fits == {T \in SUBSET G : Sum(c, Q(T)) <= Cap(Cardinality(Q(T)))}
<1>1. IsFiniteSet(G)
  BY MemberSets
<1>2. {} \in Fits
  <2>1. Q({}) = S \ G
    OBVIOUS
  <2> HIDE DEF Q
  <2> QED
    BY <2>1
<1>3. ASSUME NEW T \in SUBSET G, NEW x \in G \ T, T \in Fits PROVE T \cup {x} \in Fits
  <2> DEFINE P == Q(T)
             n == Cardinality(P)
             s == Cardinality(S)
  <2>1. P \in SUBSET Members /\ x \in Members \ P /\ Q(T \cup {x}) = P \cup {x} /\ P \cup {x} \in SUBSET S
    OBVIOUS
  <2>2. Sum(c, P) <= Cap(n)
    BY <1>3
  <2> HIDE DEF P, Q
  <2>3. n \in 0..(NMembers - 1) /\ Cardinality(P \cup {x}) = n + 1 /\ n + 1 <= s /\ s \in 0..NMembers
    BY <2>1, MemberSets
  <2>4. Sum(c, P \cup {x}) = Sum(c, P) + c[x] /\ Sum(c, P) \in Int /\ c[x] \in Int
    BY <2>1, SumInsert, SumParts
  <2> HIDE DEF n, s
  <2>5. NMembers \in Nat /\ s - 1 \in 0..(NMembers - 1) /\ n <= s - 1 /\ n \in 0..NMembers
    BY <2>3, PoolAssumption
  <2>6. c[x] <= Step(s - 1)
    BY DEF s
  <2>7. Step(s - 1) <= Step(n) /\ Step(s - 1) \in Nat /\ Step(n) \in Nat
    BY <2>3, <2>5, StepFacts
  <2>8. Cap(n + 1) = Cap(n) + Step(n) /\ Cap(n) \in Int
    BY <2>3, <2>5, CapFacts
  <2>9. Sum(c, P \cup {x}) <= Cap(n + 1)
    BY <2>2, <2>4, <2>6, <2>7, <2>8
  <2>10. T \cup {x} \in SUBSET G
    OBVIOUS
  <2>11. Cardinality(P \cup {x}) = n + 1
    BY <2>3
  <2> QED
    BY <2>1, <2>9, <2>10, <2>11
<1>4. G \in Fits
  <2> HIDE DEF Fits
  <2> QED
    BY <1>1, <1>2, <1>3, SetInduction
<1>5. Q(G) = S
  OBVIOUS
<1> HIDE DEF Q
<1> QED
  BY <1>4, <1>5

(* Members that owe at least the next step leave the others above the      *)
(* floor.                                                                  *)
LEMMA StaysAboveFloor ==
  ASSUME NEW c \in [Members -> Int], NEW S \in SUBSET Members, NEW H \in SUBSET Members,
         S \cap H = {},
         0 <= Sum(c, S \cup H) + Cap(Cardinality(S \cup H)),
         \A k \in H : c[k] + Step(Cardinality(S)) <= 0
  PROVE  0 <= Sum(c, S) + Cap(Cardinality(S))
<1> DEFINE Q(T) == S \cup (H \ T)
           Above == {T \in SUBSET H : 0 <= Sum(c, Q(T)) + Cap(Cardinality(Q(T)))}
<1>1. IsFiniteSet(H)
  BY MemberSets
<1>2. {} \in Above
  <2>1. Q({}) = S \cup H
    OBVIOUS
  <2> HIDE DEF Q
  <2> QED
    BY <2>1
<1>3. ASSUME NEW T \in SUBSET H, NEW x \in H \ T, T \in Above PROVE T \cup {x} \in Above
  <2> DEFINE P == Q(T \cup {x})
             n == Cardinality(P)
             s == Cardinality(S)
  <2>1. P \in SUBSET Members /\ x \in Members \ P /\ Q(T) = P \cup {x} /\ S \in SUBSET P
    OBVIOUS
  <2>2. 0 <= Sum(c, Q(T)) + Cap(Cardinality(Q(T)))
    BY <1>3
  <2> HIDE DEF P, Q
  <2>3. n \in 0..(NMembers - 1) /\ Cardinality(P \cup {x}) = n + 1 /\ s <= n /\ s \in 0..NMembers
    BY <2>1, MemberSets
  <2>4. Sum(c, P \cup {x}) = Sum(c, P) + c[x] /\ Sum(c, P) \in Int /\ c[x] \in Int
    BY <2>1, SumInsert, SumParts
  <2> HIDE DEF n, s
  <2>5. NMembers \in Nat /\ s \in 0..(NMembers - 1) /\ n \in 0..NMembers
    BY <2>3, PoolAssumption
  <2>6. c[x] + Step(s) <= 0
    BY DEF s
  <2>7. Step(n) <= Step(s) /\ Step(s) \in Nat /\ Step(n) \in Nat
    BY <2>3, <2>5, StepFacts
  <2>8. Cap(n + 1) = Cap(n) + Step(n) /\ Cap(n) \in Int
    BY <2>3, <2>5, CapFacts
  <2>9. 0 <= Sum(c, P \cup {x}) + Cap(n + 1)
    BY <2>1, <2>2, <2>3
  <2>10. 0 <= Sum(c, P) + Cap(n)
    BY <2>4, <2>6, <2>7, <2>8, <2>9
  <2>11. T \cup {x} \in SUBSET H
    OBVIOUS
  <2> QED
    BY <2>10, <2>11 DEF P, n
<1>4. H \in Above
  <2> HIDE DEF Above
  <2> QED
    BY <1>1, <1>2, <1>3, SetInduction
<1>5. Q(H) = S
  OBVIOUS
<1> HIDE DEF Q
<1> QED
  BY <1>4, <1>5

-----------------------------------------------------------------------------
(* The credit of one state.                                                *)

(* No set of members holds or owes more than its cap. *)
Balanced(c) ==
  /\ c \in [Members -> Int]
  /\ \A S \in SUBSET Members :
       Sum(c, S) <= Cap(Cardinality(S)) /\ 0 <= Sum(c, S) + Cap(Cardinality(S))

(* Members that lose their balance leave the rest balanced. *)
LEMMA ResetBalanced ==
  ASSUME NEW c, Balanced(c), NEW A, NEW e, e = [k \in Members |-> IF k \in A THEN c[k] ELSE 0]
  PROVE  Balanced(e)
<1>0. c \in [Members -> Int] /\ e \in [Members -> Int]
  BY DEF Balanced
<1>1. ASSUME NEW S \in SUBSET Members
      PROVE  Sum(e, S) <= Cap(Cardinality(S)) /\ 0 <= Sum(e, S) + Cap(Cardinality(S))
  <2> DEFINE T == S \cap A
             None == {}
  <2>1. T \in SUBSET S /\ T \in SUBSET Members
    OBVIOUS
  <2>2. \A k \in Members : Part(e, S, k) + Part(e, None, k) = Part(c, T, k) + Part(e, None, k)
    <3> TAKE k \in Members
    <3>1. c[k] \in Int /\ e[k] = (IF k \in A THEN c[k] ELSE 0)
      BY <1>0
    <3> QED
      BY <3>1 DEF Part
  <2> HIDE DEF T, None
  <2>3. Sum(e, S) + Sum(e, None) = Sum(c, T) + Sum(e, None)
    BY <1>0, <2>2, SumBalances
  <2>4. Sum(e, None) = 0 /\ Sum(e, S) \in Int /\ Sum(c, T) \in Int
    BY <1>0, SumSmall, SumParts DEF None
  <2>5. Sum(e, S) = Sum(c, T)
    BY <2>3, <2>4
  <2>6. Sum(c, T) <= Cap(Cardinality(T)) /\ 0 <= Sum(c, T) + Cap(Cardinality(T))
    BY <2>1 DEF Balanced
  <2> DEFINE t == Cardinality(T)
             s == Cardinality(S)
  <2>7. t \in 0..NMembers /\ s \in 0..NMembers /\ t <= s
    BY <2>1, MemberSets
  <2> HIDE DEF t, s
  <2>8. Cap(t) <= Cap(s) /\ Cap(t) \in Int /\ Cap(s) \in Int
    BY <2>7, CapFacts
  <2> QED
    BY <2>4, <2>5, <2>6, <2>8 DEF t, s
<1> QED
  BY <1>0, <1>1 DEF Balanced

(* The accounts after a round: everybody in it gains the weight, and the   *)
(* winner pays the total.                                                  *)
AfterRound(c, m, R) ==
  [k \in Members |-> IF k = m THEN (c[m] + Weight[m]) - Total(R)
                     ELSE IF k \in R THEN c[k] + Weight[k] ELSE c[k]]

(* The winner has the most credit in the round. *)
Leads(c, m, R) == \A k \in R : c[k] + Weight[k] <= c[m] + Weight[m]

(* What a round does to a sum. *)
LEMMA RoundSums ==
  ASSUME NEW c \in [Members -> Int], NEW R \in SUBSET Members, NEW m \in R,
         NEW S \in SUBSET Members, NEW G, G = S \cap R,
         NEW e, e = AfterRound(c, m, R)
  PROVE  /\ e \in [Members -> Int]
         /\ m \notin S => Sum(e, S) = Sum(c, S) + Total(G)
         /\ m \in S => Sum(e, S) + Total(R) = Sum(c, S) + Total(G)
<1> DEFINE pays == [k \in Members |-> Total(R)]
<1>0. Weight \in [Members -> Int] /\ Total(R) \in Nat /\ Total(G) \in Nat /\ Total(G) = Sum(Weight, G)
  BY PoolAssumption, TotalMonotone
<1>1. e \in [Members -> Int] /\ pays \in [Members -> Int] /\ m \in Members
  BY <1>0 DEF AfterRound
<1>2. \A k \in Members : e[k] = IF k = m THEN (c[m] + Weight[m]) - Total(R)
                                ELSE IF k \in R THEN c[k] + Weight[k] ELSE c[k]
  BY DEF AfterRound
<1>3. \A k \in Members : pays[k] = Total(R)
  OBVIOUS
<1>4. \A k \in Members : c[k] \in Int /\ Weight[k] \in Int
  BY <1>0
<1> HIDE DEF pays
<1>5. Sum(e, S) \in Int /\ Sum(c, S) \in Int
  BY <1>1, SumParts
<1>6. ASSUME m \notin S PROVE Sum(e, S) = Sum(c, S) + Total(G)
  <2> DEFINE None == {}
  <2>1. \A k \in Members : Part(e, S, k) + Part(e, None, k) = Part(c, S, k) + Part(Weight, G, k)
    BY <1>2, <1>4, <1>6 DEF Part
  <2>2. Sum(e, None) = 0
    BY <1>1, SumSmall
  <2> DEFINE f == e
             K == G
  <2>3. Sum(e, S) + Sum(e, None) = Sum(c, S) + Sum(Weight, G)
    <3>1. f \in [Members -> Int] /\ \A k \in Members : Part(f, S, k) + Part(f, None, k) = Part(c, S, k) + Part(Weight, K, k)
      BY <1>1, <2>1
    <3> HIDE DEF None, f, K
    <3>2. Sum(f, S) + Sum(f, None) = Sum(c, S) + Sum(Weight, K)
      BY <1>0, <1>1, <3>1, SumBalances
    <3> QED
      BY <3>2 DEF f, K
  <2> QED
    BY <1>0, <1>5, <2>2, <2>3
<1>7. ASSUME m \in S PROVE Sum(e, S) + Total(R) = Sum(c, S) + Total(G)
  <2> DEFINE one == {m}
  <2>1. ASSUME NEW k \in Members PROVE Part(e, S, k) + Part(pays, one, k) = Part(c, S, k) + Part(Weight, G, k)
    <3>1. CASE k = m
      BY <1>0, <1>2, <1>3, <1>4, <1>7, <3>1 DEF Part
    <3>2. CASE k # m
      BY <1>2, <1>4, <3>2 DEF Part
    <3> QED
      BY <3>1, <3>2
  <2>2. Sum(pays, one) = Total(R)
    BY <1>1, <1>3, SumSmall
  <2> DEFINE f == e
             K == G
  <2>3. Sum(e, S) + Sum(pays, one) = Sum(c, S) + Sum(Weight, G)
    <3>1. f \in [Members -> Int] /\ \A k \in Members : Part(f, S, k) + Part(pays, one, k) = Part(c, S, k) + Part(Weight, K, k)
      BY <1>1, <2>1
    <3> HIDE DEF one, f, K
    <3>2. Sum(f, S) + Sum(pays, one) = Sum(c, S) + Sum(Weight, K)
      BY <1>0, <1>1, <3>1, SumBalances
    <3> QED
      BY <3>2 DEF f, K
  <2> QED
    BY <1>0, <2>2, <2>3
<1> QED
  BY <1>1, <1>6, <1>7

(* A round whose winner has the most keeps every set under its cap: a set  *)
(* without the winner gains only when the winner had a lot, which the set  *)
(* did not, or when its own members still have little.                     *)
LEMMA RoundUnderCap ==
  ASSUME NEW c, Balanced(c), NEW R \in SUBSET Members, NEW m \in R,
         Leads(c, m, R), NEW S \in SUBSET Members
  PROVE  Sum(AfterRound(c, m, R), S) <= Cap(Cardinality(S))
<1> DEFINE e == AfterRound(c, m, R)
           G == S \cap R
           n == Cardinality(S)
           W == Total(Members)
<1> SUFFICES Sum(e, S) <= Cap(n)
  OBVIOUS
<1>0. c \in [Members -> Int] /\ m \in Members /\ Sum(c, S) <= Cap(n) /\ Weight \in [Members -> Nat]
  BY PoolAssumption DEF Balanced
<1>1. /\ e \in [Members -> Int]
      /\ m \notin S => Sum(e, S) = Sum(c, S) + Total(G)
      /\ m \in S => Sum(e, S) + Total(R) = Sum(c, S) + Total(G)
  <2>1. c \in [Members -> Int] /\ e = AfterRound(c, m, R) /\ G = S \cap R
    BY <1>0
  <2> HIDE DEF e, G
  <2> QED
    BY <2>1, RoundSums
<1>2. Total(G) \in Nat /\ Total(R) \in Nat /\ Total(G) <= Total(R) /\ W \in Nat
  BY TotalMonotone
<1>3. \A k \in Members : e[k] = IF k = m THEN (c[m] + Weight[m]) - Total(R)
                                ELSE IF k \in R THEN c[k] + Weight[k] ELSE c[k]
  BY DEF AfterRound
<1> HIDE DEF e
<1>4. n \in 0..NMembers /\ Cap(n) \in Int /\ Sum(c, S) \in Int /\ Sum(e, S) \in Int /\ NMembers \in Nat
  BY <1>0, <1>1, MemberSets, CapFacts, SumParts, PoolAssumption
<1>5. CASE m \in S
  <2> HIDE DEF G, n
  <2> QED
    BY <1>0, <1>1, <1>2, <1>4, <1>5
<1>6. CASE m \notin S
  <2>1. n \in 0..(NMembers - 1) /\ Cardinality(S \cup {m}) = n + 1
    BY <1>0, <1>6, MemberSets
  <2>2. Sum(c, S \cup {m}) = Sum(c, S) + c[m] /\ c[m] \in Int
    BY <1>0, <1>6, SumInsert
  <2>3. Sum(c, S \cup {m}) <= Cap(n + 1)
    BY <1>0, <2>1 DEF Balanced
  <2>4. Cap(n + 1) = Cap(n) + Step(n) /\ Step(n) \in Nat
    BY <2>1, CapFacts, StepFacts
  <2>5. CASE Step(n) + Total(G) <= c[m]
    <3> HIDE DEF G, n
    <3> QED
      BY <1>1, <1>2, <1>4, <1>6, <2>2, <2>3, <2>4, <2>5
  <2>6. CASE ~(Step(n) + Total(G) <= c[m])
    <3>1. G \in SUBSET S /\ S \ G \in SUBSET Members
      OBVIOUS
    <3>2. Sum(e, S \ G) <= Cap(Cardinality(S \ G))
      <4>1. \A k \in (S \ G) \cap Members : e[k] = c[k]
        BY <1>3, <1>6
      <4> HIDE DEF G
      <4>2. Sum(e, S \ G) = Sum(c, S \ G)
        BY <1>0, <1>1, <4>1, SumAgrees
      <4> QED
        BY <3>1, <4>2 DEF Balanced
    <3>3. ASSUME NEW k \in G PROVE e[k] <= Step(n - 1)
      <4>1. k \in S /\ k \in R /\ k # m /\ k \in Members /\ e[k] = c[k] + Weight[k]
        BY <1>3, <1>6
      <4>2. e[k] <= c[m] + Weight[m] /\ e[k] \in Int /\ Weight[m] \in Nat
        BY <1>0, <1>1, <4>1 DEF Leads
      <4>3. Total(G) + Weight[m] <= W
        <5>1. m \in Members \ G
          BY <1>0, <1>6
        <5>2. Weight \in [Members -> Int]
          BY <1>0
        <5> HIDE DEF G
        <5>3. Sum(Weight, G \cup {m}) = Sum(Weight, G) + Weight[m]
          BY <5>1, <5>2, SumInsert
        <5>4. G \cup {m} \subseteq Members
          BY <1>0, <3>1
        <5>5. Total(G \cup {m}) <= W /\ Total(G \cup {m}) = Sum(Weight, G \cup {m}) /\ Total(G) = Sum(Weight, G)
          BY <5>4, TotalMonotone
        <5> QED
          BY <5>3, <5>5
      <4>4. n # 0
        <5>1. IsFiniteSet(S) /\ S # {}
          BY <4>1, MemberSets
        <5> QED
          BY <5>1, FS_EmptySet
      <4> HIDE DEF G, n, W
      <4>5. n - 1 \in 0..(NMembers - 2) /\ (n - 1) + 1 = n
        BY <1>4, <2>1, <4>4
      <4>6. Step(n - 1) = Step(n) + W
        BY <4>5, StepFacts DEF W
      <4> QED
        BY <1>2, <2>2, <2>4, <2>6, <4>2, <4>3, <4>6
    <3> HIDE DEF G
    <3> QED
      BY <1>1, <3>1, <3>2, <3>3, FitsUnderCap
  <2> QED
    BY <2>5, <2>6
<1> QED
  BY <1>5, <1>6

(* And above its floor: a set with the winner loses only when the winner   *)
(* had little left to lose of what the others in the round have less of.   *)
LEMMA RoundAboveFloor ==
  ASSUME NEW c, Balanced(c), NEW R \in SUBSET Members, NEW m \in R,
         Leads(c, m, R), NEW S \in SUBSET Members
  PROVE  0 <= Sum(AfterRound(c, m, R), S) + Cap(Cardinality(S))
<1> DEFINE e == AfterRound(c, m, R)
           G == S \cap R
           H == R \ S
           n == Cardinality(S)
           W == Total(Members)
<1> SUFFICES 0 <= Sum(e, S) + Cap(n)
  OBVIOUS
<1>0. /\ c \in [Members -> Int] /\ m \in Members /\ 0 <= Sum(c, S) + Cap(n)
      /\ Weight \in [Members -> Nat] /\ Weight \in [Members -> Int]
  BY PoolAssumption DEF Balanced
<1>1. /\ e \in [Members -> Int]
      /\ m \notin S => Sum(e, S) = Sum(c, S) + Total(G)
      /\ m \in S => Sum(e, S) + Total(R) = Sum(c, S) + Total(G)
  <2>1. c \in [Members -> Int] /\ e = AfterRound(c, m, R) /\ G = S \cap R
    BY <1>0
  <2> HIDE DEF e, G
  <2> QED
    BY <2>1, RoundSums
<1>2. Total(G) \in Nat /\ Total(H) \in Nat /\ W \in Nat /\ Total(R) = Total(G) + Total(H)
  <2>1. Total(G) \in Nat /\ Total(H) \in Nat /\ W \in Nat
    BY TotalMonotone
  <2>2. G \cap H = {} /\ G \cup H = R
    OBVIOUS
  <2> HIDE DEF G, H
  <2>3. Sum(Weight, G \cup H) = Sum(Weight, G) + Sum(Weight, H)
    BY <1>0, <2>2, SumUnion
  <2>4. Total(G) = Sum(Weight, G) /\ Total(H) = Sum(Weight, H) /\ Total(R) = Sum(Weight, R)
    BY TotalMonotone
  <2> QED
    BY <2>1, <2>2, <2>3, <2>4
<1>3. \A k \in Members : e[k] = IF k = m THEN (c[m] + Weight[m]) - Total(R)
                                ELSE IF k \in R THEN c[k] + Weight[k] ELSE c[k]
  BY DEF AfterRound
<1> HIDE DEF e
<1>4. n \in 0..NMembers /\ Cap(n) \in Int /\ Sum(c, S) \in Int /\ Sum(e, S) \in Int /\ NMembers \in Nat
  BY <1>0, <1>1, MemberSets, CapFacts, SumParts, PoolAssumption
<1>5. CASE m \notin S
  <2> HIDE DEF G, H, n
  <2> QED
    BY <1>0, <1>1, <1>2, <1>4, <1>5
<1>6. CASE m \in S
  <2> DEFINE Q == S \ {m}
             q == Cardinality(Q)
  <2>1. Q \in SUBSET Members /\ m \in Members \ Q /\ Q \cup {m} = S
    BY <1>0, <1>6
  <2> HIDE DEF Q
  <2>2. q \in 0..(NMembers - 1) /\ n = q + 1
    BY <2>1, MemberSets
  <2>3. Sum(c, S) = Sum(c, Q) + c[m] /\ c[m] \in Int /\ Sum(c, Q) \in Int
    BY <1>0, <2>1, SumInsert, SumParts
  <2>4. 0 <= Sum(c, Q) + Cap(q)
    BY <2>1 DEF Balanced
  <2> HIDE DEF q
  <2>5. Cap(n) = Cap(q) + Step(q) /\ Step(q) \in Nat /\ Cap(q) \in Int
    BY <1>4, <2>2, CapFacts, StepFacts
  <2>6. Sum(e, S) + Total(H) = Sum(c, S)
    <3> HIDE DEF G, H
    <3> QED
      BY <1>1, <1>2, <1>4, <1>6
  <2>7. CASE Total(H) <= c[m] + Step(q)
    <3> HIDE DEF H, n
    <3> QED
      BY <1>2, <1>4, <2>3, <2>4, <2>5, <2>6, <2>7
  <2>8. CASE ~(Total(H) <= c[m] + Step(q)) /\ H # {}
    <3>1. H \in SUBSET Members /\ S \cap H = {} /\ R \subseteq S \cup H /\ S \cup H \in SUBSET Members
          /\ (S \cup H) \cap R = R /\ m \in S \cup H
      BY <1>6
    <3>2. 0 <= Sum(e, S \cup H) + Cap(Cardinality(S \cup H))
      <4> DEFINE U == S \cup H
      <4>1. U \in SUBSET Members /\ U \cap R = R /\ m \in U
        BY <3>1
      <4> HIDE DEF U
      <4>2. Sum(e, U) + Total(R) = Sum(c, U) + Total(R)
        <5>1. R = U \cap R /\ e = AfterRound(c, m, R)
          BY <4>1 DEF e
        <5> QED
          BY <1>0, <4>1, <5>1, RoundSums
      <4>3. Sum(e, U) \in Int /\ Sum(c, U) \in Int /\ Total(R) \in Nat
        BY <1>0, <1>1, SumParts, TotalMonotone
      <4>4. Sum(e, U) = Sum(c, U)
        BY <4>2, <4>3
      <4>5. 0 <= Sum(e, U) + Cap(Cardinality(U))
        BY <4>1, <4>4 DEF Balanced
      <4> QED
        BY <4>5 DEF U
    <3>3. ASSUME NEW k \in H PROVE e[k] + Step(n) <= 0
      <4>1. k \notin S /\ k \in R /\ k # m /\ k \in Members /\ e[k] = c[k] + Weight[k]
        BY <1>3, <1>6
      <4>2. e[k] <= c[m] + Weight[m] /\ e[k] \in Int /\ Weight[m] \in Nat
        BY <1>0, <1>1, <4>1 DEF Leads
      <4>3. Total(H) + Weight[m] <= W
        <5>1. m \in Members \ H
          BY <1>0, <1>6
        <5> HIDE DEF H
        <5>2. Sum(Weight, H \cup {m}) = Sum(Weight, H) + Weight[m]
          BY <1>0, <5>1, SumInsert
        <5>3. H \cup {m} \subseteq Members
          BY <1>0, <3>1
        <5>4. Total(H \cup {m}) <= W /\ Total(H \cup {m}) = Sum(Weight, H \cup {m}) /\ Total(H) = Sum(Weight, H)
          BY <5>3, TotalMonotone
        <5> QED
          BY <5>2, <5>4
      <4>4. n \in 0..(NMembers - 1)
        BY <4>1, MemberSets
      <4> HIDE DEF H, n, W
      <4>5. q \in 0..(NMembers - 2)
        BY <1>4, <2>2, <4>4
      <4>6. Step(q) = Step(n) + W /\ Step(n) \in Nat
        BY <2>2, <4>4, <4>5, StepFacts DEF W
      <4> QED
        BY <1>2, <2>3, <2>5, <2>8, <4>2, <4>3, <4>6
    <3> HIDE DEF H
    <3> QED
      BY <1>1, <3>1, <3>2, <3>3, StaysAboveFloor
  <2>9. CASE H = {}
    <3>1. Total(H) = 0
      BY <1>0, <2>9, SumSmall, TotalMonotone
    <3> HIDE DEF H, n
    <3> QED
      BY <1>0, <1>4, <2>6, <3>1
  <2> QED
    BY <2>7, <2>8, <2>9
<1> QED
  BY <1>5, <1>6

(* A round keeps the accounts balanced. *)
LEMMA RoundBalanced ==
  ASSUME NEW c, Balanced(c), NEW R \in SUBSET Members, NEW m \in R, Leads(c, m, R)
  PROVE  Balanced(AfterRound(c, m, R))
<1> DEFINE e == AfterRound(c, m, R)
<1>1. e \in [Members -> Int]
  <2>1. c \in [Members -> Int]
    BY DEF Balanced
  <2>2. Weight \in [Members -> Nat] /\ Total(R) \in Nat
    BY PoolAssumption, TotalMonotone
  <2> QED
    BY <2>1, <2>2 DEF AfterRound
<1>2. \A S \in SUBSET Members : Sum(e, S) <= Cap(Cardinality(S)) /\ 0 <= Sum(e, S) + Cap(Cardinality(S))
  BY RoundUnderCap, RoundAboveFloor
<1> HIDE DEF e
<1>3. Balanced(e)
  BY <1>1, <1>2 DEF Balanced
<1> QED
  BY <1>3 DEF e

(* Nobody holds or owes anything at first. *)
LEMMA ZeroBalanced == Balanced([k \in Members |-> 0])
<1> DEFINE z == [k \in Members |-> 0]
           None == {}
<1>1. z \in [Members -> Int] /\ \A k \in Members : z[k] = 0
  OBVIOUS
<1>2. Sum(z, None) = 0 /\ Cardinality({}) = 0
  BY <1>1, SumSmall, FS_EmptySet
<1> HIDE DEF z, None
<1>3. ASSUME NEW S \in SUBSET Members
      PROVE  Sum(z, S) <= Cap(Cardinality(S)) /\ 0 <= Sum(z, S) + Cap(Cardinality(S))
  <2>1. \A k \in Members : Part(z, S, k) + Part(z, None, k) = Part(z, None, k) + Part(z, None, k)
    BY <1>1 DEF Part
  <2>2. Sum(z, S) + Sum(z, None) = Sum(z, None) + Sum(z, None)
    BY <1>1, <2>1, SumBalances
  <2>3. Sum(z, S) = 0
    <3>1. Sum(z, S) \in Int
      BY <1>1, SumParts
    <3> QED
      BY <1>2, <2>2, <3>1
  <2>4. Cardinality(S) \in 0..NMembers /\ 0 \in 0..NMembers
    BY MemberSets, PoolAssumption
  <2>5. Cap(Cardinality(S)) \in Int /\ 0 <= Cap(Cardinality(S))
    BY <2>4, CapFacts
  <2> QED
    BY <2>3, <2>5
<1> QED
  BY <1>1, <1>3 DEF Balanced, z

(* Every state's accounts are balanced. *)
CreditInv == cw \in [Instances -> [Members -> Int]] /\ \A s \in Instances : Balanced(cw[s])

(* One state's accounts replaced by balanced ones. *)
LEMMA CreditUpdate ==
  ASSUME CreditInv, NEW s \in Instances, NEW c, Balanced(c), cw' = [cw EXCEPT ![s] = c]
  PROVE  CreditInv'
<1>1. c \in [Members -> Int] /\ cw \in [Instances -> [Members -> Int]]
  BY DEF Balanced, CreditInv
<1>2. cw' \in [Instances -> [Members -> Int]] /\ cw'[s] = c /\ \A t \in Instances \ {s} : cw'[t] = cw[t]
  BY <1>1
<1>3. \A t \in Instances : Balanced(cw'[t])
  BY <1>2 DEF CreditInv
<1> QED
  BY <1>2, <1>3 DEF CreditInv

(* The weighted pick is a round of the candidates it leads, after the      *)
(* others lost their credit.                                               *)
LEMMA WeightedBalanced ==
  ASSUME TypeOK, CreditInv, NEW r \in Requests, inst[r] \in Instances, NEW m \in Members, SelectWeighted(r, m)
  PROVE  CreditInv'
<1> DEFINE s == inst[r]
           candidates == {k \in eligible[r] : Usable(s, k)}
           round == {k \in candidates : k = m \/ Outranks(s, m, k)}
           c == cw[s]
           kept == [k \in Members |-> IF k \in candidates THEN c[k] ELSE 0]
           new == [k \in Members |-> IF k \notin candidates THEN 0
                                     ELSE IF k = m THEN Credit(s, m) - Total(round)
                                     ELSE IF k \in round THEN Credit(s, k)
                                     ELSE cw[s][k]]
<1>1. cw' = [cw EXCEPT ![s] = new] /\ Takeable(r, m)
  BY DEF SelectWeighted
<1>2. m \in candidates /\ m \in round /\ candidates \in SUBSET Members /\ round \in SUBSET candidates
  BY <1>1 DEF Takeable, TypeOK
<1>3. Balanced(c) /\ c \in [Members -> Int] /\ Weight \in [Members -> Int]
  BY PoolAssumption DEF CreditInv
<1>4. \A k \in round : c[k] + Weight[k] <= c[m] + Weight[m]
  <2> TAKE k \in round
  <2>1. c[k] \in Int /\ c[m] \in Int /\ Weight[k] \in Int /\ Weight[m] \in Int
    BY <1>2, <1>3
  <2>2. k = m \/ Outranks(s, m, k)
    OBVIOUS
  <2> QED
    BY <2>1, <2>2 DEF Outranks, Credit
<1>5. \A k \in Members : Credit(s, k) = c[k] + Weight[k]
  BY DEF Credit
<1> HIDE DEF candidates, round, c
<1>6. Balanced(kept)
  BY <1>3, ResetBalanced
<1>7. \A k \in round : kept[k] = c[k] /\ k \in Members
  BY <1>2
<1>8. Leads(kept, m, round)
  BY <1>2, <1>4, <1>7 DEF Leads
<1>9. new = AfterRound(kept, m, round)
  <2>1. \A k \in Members : new[k] = AfterRound(kept, m, round)[k]
    <3> TAKE k \in Members
    <3>1. AfterRound(kept, m, round)[k] = IF k = m THEN (kept[m] + Weight[m]) - Total(round)
                                          ELSE IF k \in round THEN kept[k] + Weight[k] ELSE kept[k]
      BY DEF AfterRound
    <3>2. new[k] = IF k \notin candidates THEN 0
                   ELSE IF k = m THEN Credit(s, m) - Total(round)
                   ELSE IF k \in round THEN Credit(s, k)
                   ELSE c[k]
      BY DEF c
    <3>3. kept[k] = IF k \in candidates THEN c[k] ELSE 0
      OBVIOUS
    <3> HIDE DEF new, kept
    <3>4. CASE k \notin candidates
      <4>1. k # m /\ k \notin round
        BY <1>2, <3>4
      <4> QED
        BY <3>1, <3>2, <3>3, <3>4, <4>1
    <3>5. CASE k = m
      <4>1. Credit(s, m) = c[m] + Weight[m] /\ kept[m] = c[m] /\ m \in candidates
        BY <1>2, <1>5, <1>7
      <4>2. new[k] = Credit(s, m) - Total(round)
        BY <3>2, <3>5, <4>1
      <4>3. AfterRound(kept, m, round)[k] = (kept[m] + Weight[m]) - Total(round)
        BY <3>1, <3>5
      <4> DEFINE x == Credit(s, m)
      <4>4. kept[m] + Weight[m] = x
        BY <4>1
      <4> HIDE DEF x
      <4>5. AfterRound(kept, m, round)[k] = x - Total(round)
        BY <4>3, <4>4
      <4>6. new[k] = x - Total(round)
        BY <4>2 DEF x
      <4> QED
        BY <4>5, <4>6
    <3>6. CASE k \in round /\ k # m
      BY <1>2, <1>5, <1>7, <3>1, <3>2, <3>6
    <3>7. CASE k \in candidates /\ k \notin round /\ k # m
      BY <3>1, <3>2, <3>3, <3>7
    <3> QED
      BY <3>4, <3>5, <3>6, <3>7
  <2>2. new = [k \in Members |-> new[k]]
    OBVIOUS
  <2>3. AfterRound(kept, m, round) = [k \in Members |-> AfterRound(kept, m, round)[k]]
    BY DEF AfterRound
  <2> HIDE DEF new, kept
  <2> QED
    BY <2>1, <2>2, <2>3
<1> HIDE DEF kept, new
<1>10. Balanced(new)
  <2>1. round \in SUBSET Members
    BY <1>2
  <2> QED
    BY <1>2, <1>6, <1>8, <1>9, <2>1, RoundBalanced
<1> QED
  BY <1>1, <1>10, CreditUpdate

(* A pick that finds nobody only takes credit away. *)
LEMMA NoneBalanced ==
  ASSUME CreditInv, NEW r \in Requests, inst[r] \in Instances, SelectNone(r)
  PROVE  CreditInv'
<1> DEFINE s == inst[r]
           A == {k \in Members : k \in eligible[r] /\ Usable(inst[r], k)}
           kept == [k \in Members |-> IF k \in A THEN cw[s][k] ELSE 0]
<1>1. CASE ~weighted
  BY <1>1 DEF SelectNone, CreditInv
<1>2. CASE weighted
  <2>1. cw' = [cw EXCEPT ![s] = [k \in Members |->
                 IF k \in eligible[r] /\ Usable(inst[r], k) THEN cw[s][k] ELSE 0]]
    BY <1>2 DEF SelectNone, CreditInv
  <2>2. kept = [k \in Members |-> IF k \in eligible[r] /\ Usable(inst[r], k) THEN cw[s][k] ELSE 0]
    OBVIOUS
  <2>3. cw' = [cw EXCEPT ![s] = kept]
    BY <2>1, <2>2
  <2>4. Balanced(cw[s])
    BY DEF CreditInv
  <2> HIDE DEF A
  <2>5. Balanced(kept)
    BY <2>4, ResetBalanced
  <2> HIDE DEF kept
  <2> QED
    BY <2>3, <2>5, CreditUpdate
<1> QED
  BY <1>1, <1>2

(* Only selection touches the credit. *)
LEMMA CreditStep == PoolInv /\ CreditInv /\ [Next]_vars => CreditInv'
<1> SUFFICES ASSUME PoolInv, CreditInv, [Next]_vars PROVE CreditInv'
  OBVIOUS
<1>1. ASSUME NEW r \in Requests, pc[r] = "select" PROVE inst[r] \in Instances
  BY <1>1 DEF PoolInv, PlaceInv, TypeOK
<1>2. ASSUME cw' = cw PROVE CreditInv'
  BY <1>2 DEF CreditInv
<1>3. ASSUME NEW r \in Requests, SelectInitial(r) PROVE CreditInv'
  <2>1. PICK m \in Members : SelectWeighted(r, m) \/ SelectRoundRobin(r, m)
    BY <1>3 DEF SelectInitial
  <2>2. inst[r] \in Instances
    BY <1>1, <1>3 DEF SelectInitial
  <2>3. CASE SelectWeighted(r, m)
    BY <2>2, <2>3, WeightedBalanced DEF PoolInv
  <2>4. CASE SelectRoundRobin(r, m)
    BY <1>2, <2>4 DEF SelectRoundRobin
  <2> QED
    BY <2>1, <2>3, <2>4
<1>4. ASSUME NEW r \in Requests, SelectNone(r) PROVE CreditInv'
  <2>1. inst[r] \in Instances
    BY <1>1, <1>4 DEF SelectNone
  <2> QED
    BY <1>4, <2>1, NoneBalanced
<1>5. ASSUME NEW r \in Requests, Accept(r) \/ RequestStep(r) PROVE CreditInv'
  <2>1. CASE Accept(r) \/ Doer(r) \/ Begin(r) \/ Claim(r) \/ ClaimRefused(r)
             \/ Answered(r) \/ Stopped(r) \/ NotSent(r)
    BY <1>2, <2>1 DEF Accept, Doer, Begin, Claim, ClaimRefused, Answered, Stopped, NotSent, sched
  <2>2. CASE Strike(r) \/ FallbackChecks(r) \/ FallbackTakes(r) \/ FallbackEnds(r)
             \/ CloseBody(r) \/ End(r) \/ RetirePool(r)
    BY <1>2, <2>2 DEF Strike, FallbackChecks, FallbackTakes, FallbackEnds, CloseBody, End, RetirePool, sched
  <2> QED
    BY <1>3, <1>4, <1>5, <2>1, <2>2 DEF RequestStep
<1>6. CASE PublishDrops \/ PublishKeeps \/ Tick
  BY <1>2, <1>6 DEF PublishDrops, PublishKeeps, Tick, sched
<1>7. CASE UNCHANGED vars
  BY <1>2, <1>7 DEF vars
<1> QED
  BY <1>5, <1>6, <1>7 DEF Next

-----------------------------------------------------------------------------
(* The theorems. *)

(* Types, with counts that never go negative: the cursor is an index of    *)
(* the member list (selectInitial) and a publish makes room for at most    *)
(* one more state (Registry.Doer, Retain).                                 *)
THEOREM EgressTypeCorrect == Spec => []TypeOK
BY PoolInvariant, PTL DEF PoolInv

(* Leases are conserved (begin and end): the count is exactly the requests *)
(* executing on the state or holding one of its bodies.                    *)
THEOREM EgressLeasesConserved == Spec => []LeasesConserved
BY PoolInvariant, PTL DEF PoolInv

(* A request is sent at most once and dialed within its fallback budget    *)
(* (Execute).                                                              *)
THEOREM EgressSentAtMostOnce == Spec => []SentAtMostOnce
<1>1. PoolInv => SentAtMostOnce
  BY DEF PoolInv, SendInv, SentAtMostOnce
<1> QED
  BY <1>1, PoolInvariant, PTL

(* The registry owns live states only (finishRetireLocked).                *)
THEOREM EgressRegistryOwnsLive == Spec => []RegistryOwnsLive
<1>1. PoolInv => RegistryOwnsLive
  BY DEF PoolInv, RegistryInv
<1> QED
  BY <1>1, PoolInvariant, PTL

(* Permits are conserved on every path of Execute and the body (limiter).  *)
THEOREM EgressPermitsConserved == Spec => []PermitsConserved
<1>1. Init => PermitsConserved
  <2> SUFFICES ASSUME Init PROVE PermitsConserved
    OBVIOUS
  <2>1. \A s \in Instances, m \in Members : HasPermit(s, m) = {} /\ cur[s][m] = 0
    BY DEF Init, HasPermit
  <2>2. \A m \in Members : MaxConcurrency[m] \in Nat
    BY PoolAssumption
  <2> QED
    BY <2>1, <2>2, FS_EmptySet DEF PermitsConserved
<1>2. PoolInv /\ PermitsConserved /\ [Next]_vars => PermitsConserved'
  BY PermitStep
<1> QED
  BY <1>1, <1>2, PoolInvariant, PTL DEF Spec

(* A state outlives the requests that took their lease before it was       *)
(* dropped (retirePoolLocked, end).                                        *)
THEOREM EgressTeardownDeferred == Spec => []TeardownDeferred
<1>1. Init => TeardownInv
  BY DEF Init, TeardownInv
<1>2. PoolInv /\ TeardownInv /\ [Next]_vars => TeardownInv'
  BY TeardownStep
<1>3. TeardownInv => TeardownDeferred
  BY DEF TeardownInv, TeardownDeferred, HasLease, LeasePCs
<1> QED
  BY <1>1, <1>2, <1>3, PoolInvariant, PTL DEF Spec

(* Credit stays bounded (selectWeightedLocked) however members come, go    *)
(* and saturate, for every number of members and all weights: no credit    *)
(* and no debt grows past the price of one round per other member.         *)
THEOREM EgressCreditBounded == Spec => []CreditBounded
<1>1. Init => CreditInv
  <2> SUFFICES ASSUME Init PROVE CreditInv
    OBVIOUS
  <2>1. cw = [s \in Instances |-> [m \in Members |-> 0]]
    BY DEF Init
  <2> QED
    BY <2>1, ZeroBalanced DEF CreditInv
<1>2. PoolInv /\ CreditInv /\ [Next]_vars => CreditInv'
  BY CreditStep
<1>3. CreditInv => CreditBounded
  <2> SUFFICES ASSUME CreditInv PROVE CreditBounded
    OBVIOUS
  <2> DEFINE round == (NMembers - 1) * Total(Members)
  <2>0. NMembers \in Nat \ {0}
    BY PoolAssumption
  <2>1. Cap(1) = round /\ round \in Int
    <3>1. 0 \in 0..(NMembers - 1) /\ 1 = 0 + 1
      BY <2>0
    <3>2. Cap(0 + 1) = Cap(0) + Step(0) /\ Cap(0) = 0 /\ Step(0) \in Nat
      BY <3>1, CapFacts, StepFacts
    <3>3. Step(0) = round
      <4>1. NMembers - 1 - 0 = NMembers - 1
        BY <2>0
      <4> QED
        BY <4>1 DEF Step
    <3> HIDE DEF round
    <3> QED
      BY <3>1, <3>2, <3>3
  <2> HIDE DEF round
  <2>2. ASSUME NEW s \in Instances, NEW m \in Members PROVE cw[s][m] \in (-round)..round
    <3>1. Balanced(cw[s]) /\ cw[s] \in [Members -> Int]
      BY DEF CreditInv, Balanced
    <3>2. {m} \in SUBSET Members /\ Cardinality({m}) = 1 /\ Sum(cw[s], {m}) = cw[s][m]
      BY <3>1, SumSmall, FS_Singleton
    <3>3. Sum(cw[s], {m}) <= Cap(1) /\ 0 <= Sum(cw[s], {m}) + Cap(1)
      BY <3>1, <3>2 DEF Balanced
    <3>4. cw[s][m] <= round /\ 0 <= cw[s][m] + round /\ cw[s][m] \in Int
      BY <2>1, <3>1, <3>2, <3>3
    <3> QED
      BY <2>1, <3>4
  <2>3. cw \in [Instances -> [Members -> (-round)..round]]
    <3>1. cw \in [Instances -> [Members -> Int]]
      BY DEF CreditInv
    <3> QED
      BY <2>2, <3>1
  <2> QED
    BY <2>3 DEF CreditBounded, round
<1> QED
  BY <1>1, <1>2, <1>3, PoolInvariant, PTL DEF Spec
=============================================================================
