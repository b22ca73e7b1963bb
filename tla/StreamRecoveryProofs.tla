------------------------- MODULE StreamRecoveryProofs -------------------------
(***************************************************************************)
(* Proofs about StreamRecovery: its type invariant, the two properties of  *)
(* the idle window, whose cut is reported, the refinement of LogicalStream *)
(* and the text a continuation asks for.                                   *)
(***************************************************************************)
EXTENDS StreamRecovery, FiniteSetTheorems, SequenceTheorems, TLAPS

-----------------------------------------------------------------------------
(* Facts about guards, leases and trips.                                   *)

\* A lease or a trip names its pass, and is none of the other kinds.
LEMMA Names ==
    ASSUME NEW k \in 0..MaxRecoveries
    PROVE  /\ RelayLease(k) \in Leases /\ HopLease(k) \in Leases
           /\ CloseBody(k) \in Trips /\ CancelDial(k) \in Trips
           /\ RelayLease(k) # NoGuard.lease /\ HopLease(k) # NoGuard.lease
           /\ CloseBody(k)[2] = k /\ CancelDial(k)[2] = k
BY DEF RelayLease, HopLease, CloseBody, CancelDial, Leases, Trips, NoGuard

\* What armLocked leaves behind.
LEMMA Armed ==
    ASSUME NEW lease, NEW trip, NEW stopped, lease # NoGuard.lease,
           arm(lease, trip, stopped)
    PROVE  /\ guard' # NoGuard /\ guard'.lease = lease /\ guard'.trip = trip
           /\ guard'.id \in timers'
BY DEF arm, NoGuard

\* The guard is well typed.
GuardsOK == guard # NoGuard => guard.lease \in Leases /\ guard.trip \in Trips

\* A guard that is armed for a lease and a trip is well formed.
LEMMA ArmedOK ==
    ASSUME NEW lease \in Leases, NEW trip \in Trips, NEW stopped, lease # NoGuard.lease,
           arm(lease, trip, stopped)
    PROVE  GuardsOK'
<1>1. guard'.lease = lease /\ guard'.trip = trip
  BY Armed
<1> QED
  BY <1>1 DEF GuardsOK

\* The window's variables of the type invariant.
WindowTypeOK ==
    /\ left \in 0..Idle /\ quiet \in 0..Idle /\ closed \in BOOLEAN
    /\ GuardsOK /\ trips \subseteq Trips /\ tripped \subseteq Trips

\* expireLocked keeps the window's types.
LEMMA ExpireType ==
    ASSUME WindowTypeOK, NEW otherwise \in SUBSET Trips, expire(otherwise)
    PROVE  WindowTypeOK'
<1>1. GuardsOK'
  BY DEF WindowTypeOK, GuardsOK, expire
<1>2. tripped' \subseteq Trips
  BY DEF WindowTypeOK, GuardsOK, expire
<1> QED
  BY <1>1, <1>2 DEF WindowTypeOK, expire

\* disarm keeps the window's types.
LEMMA DisarmType ==
    ASSUME WindowTypeOK, NEW lease, disarm(lease)
    PROVE  WindowTypeOK'
<1>1. GuardsOK'
  BY DEF WindowTypeOK, GuardsOK, disarm
<1> QED
  BY <1>1 DEF WindowTypeOK, disarm

\* progress keeps the window's types, armed, shut or late.
LEMMA ProgressType ==
    ASSUME WindowTypeOK, progress
    PROVE  WindowTypeOK'
<1>1. GuardsOK'
  <2>1. CASE guard = NoGuard
    BY <2>1 DEF progress, WindowTypeOK, GuardsOK
  <2>2. CASE guard # NoGuard
    <3>1. guard.lease \in Leases /\ guard.trip \in Trips
      BY <2>2 DEF WindowTypeOK, GuardsOK
    <3>2. guard.lease # NoGuard.lease
      BY <3>1 DEF Leases, RelayLease, HopLease, NoGuard
    <3> QED
      BY <2>2, <3>1, <3>2, ArmedOK DEF progress, WindowTypeOK
  <2> QED
    BY <2>1, <2>2
<1> QED
  BY <1>1, RecoveryAssumption DEF WindowTypeOK, progress

\* armLocked keeps the window's types.
LEMMA ArmType ==
    ASSUME WindowTypeOK, NEW lease \in Leases, NEW trip \in Trips, NEW stopped,
           lease # NoGuard.lease, arm(lease, trip, stopped),
           left' \in 0..Idle, quiet' \in 0..Idle, UNCHANGED <<closed, runnable, trips, tripped>>
    PROVE  WindowTypeOK'
<1>1. GuardsOK'
  BY ArmedOK DEF WindowTypeOK
<1> QED
  BY <1>1 DEF WindowTypeOK

-----------------------------------------------------------------------------
(* Type correctness.                                                       *)

\* The handler's variables of the type invariant.
HandlerTypeOK ==
    /\ body \in Bodies /\ pc \in PCs
    /\ chunks \in Nat /\ marker \in BOOLEAN /\ err \in Errors
    /\ recoveries \in 0..MaxRecoveries /\ funds \in 0..MaxFunds
    /\ marked \subseteq Keys
    /\ clientGone \in BOOLEAN /\ windowShut \in BOOLEAN /\ ctxDone \in BOOLEAN
    /\ outcome \in LS!Outcomes \cup {"open"}

\* The type invariant is the handler's and the window's.
LEMMA TypeSplit == TypeOK <=> HandlerTypeOK /\ WindowTypeOK
BY DEF TypeOK, HandlerTypeOK, WindowTypeOK, GuardsOK

\* The same of the next state.
LEMMA TypeSplitPrime == TypeOK' <=> HandlerTypeOK' /\ WindowTypeOK'
BY DEF TypeOK, HandlerTypeOK, WindowTypeOK, GuardsOK

\* The initial states are typed.
LEMMA InitType == Init => TypeOK
<1> SUFFICES ASSUME Init PROVE HandlerTypeOK /\ WindowTypeOK
  BY TypeSplit
<1>a. /\ marker \in BOOLEAN /\ clientGone \in BOOLEAN /\ windowShut \in BOOLEAN
      /\ ctxDone \in BOOLEAN /\ closed \in BOOLEAN
  BY DEF Init
<1>b. /\ chunks = 0 /\ recoveries = 0 /\ funds = MaxFunds /\ left = Idle /\ quiet = 0
  BY DEF Init
<1>c. body \in Bodies /\ pc \in PCs /\ err \in Errors /\ marked = {} /\ outcome = "open"
  BY DEF Init, PCs, Errors, Causes
<1>d. timers = {} /\ runnable = {} /\ trips = {} /\ tripped = {} /\ guard = NoGuard
  BY DEF Init
<1>1. HandlerTypeOK
  BY <1>a, <1>b, <1>c, RecoveryAssumption DEF HandlerTypeOK
<1>2. WindowTypeOK
  BY <1>a, <1>b, <1>d, RecoveryAssumption DEF WindowTypeOK, GuardsOK
<1> QED
  BY <1>1, <1>2

\* The steps of the timers and of the environment.
LEMMA OutsideType ==
    ASSUME TypeOK,
           \/ \E g \in timers : Wake(g)
           \/ \E g \in runnable : fire(g)
           \/ \E t \in trips : RunTrip(t)
           \/ Tick \/ ClientLeaves \/ EnvelopeLapses \/ Done
    PROVE  TypeOK'
<1> SUFFICES HandlerTypeOK' /\ WindowTypeOK'
  BY TypeSplitPrime
<1> HandlerTypeOK /\ WindowTypeOK
  BY TypeSplit
<1> USE DEF request, loop, stream, record, window
<1>1. CASE \E g \in timers : Wake(g)
  <2> PICK g \in timers : Wake(g)
    BY <1>1
  <2>1. HandlerTypeOK'
    BY DEF Wake, HandlerTypeOK
  <2>2. GuardsOK'
    BY DEF Wake, WindowTypeOK, GuardsOK
  <2> QED
    BY <2>1, <2>2 DEF Wake, WindowTypeOK
<1>2. CASE \E g \in runnable : fire(g)
  <2> PICK g \in runnable : fire(g)
    BY <1>2
  <2>1. HandlerTypeOK'
    BY DEF fire, HandlerTypeOK
  <2>2. guard # NoGuard => guard.lease \in Leases /\ guard.trip \in Trips
    BY DEF WindowTypeOK, GuardsOK
  <2>3. guard # NoGuard => guard.lease # NoGuard.lease
    BY <2>2 DEF Leases, RelayLease, HopLease, NoGuard
  <2>4. GuardsOK'
    <3>1. CASE guard # NoGuard /\ guard.id = g /\ ~closed /\ left > 0
      <4>1. arm(guard.lease, guard.trip, {})
        BY <3>1 DEF fire
      <4> QED
        BY <3>1, <4>1, <2>2, <2>3, ArmedOK
    <3>2. CASE ~(guard # NoGuard /\ guard.id = g /\ ~closed /\ left > 0)
      BY <3>2 DEF fire, WindowTypeOK, GuardsOK
    <3> QED
      BY <3>1, <3>2
  <2>5. trips' \subseteq Trips /\ closed' \in BOOLEAN
    BY <2>2 DEF fire, WindowTypeOK
  <2> QED
    BY <2>1, <2>4, <2>5 DEF fire, WindowTypeOK
<1>3. CASE \E t \in trips : RunTrip(t)
  <2> PICK t \in trips : RunTrip(t)
    BY <1>3
  <2>1. HandlerTypeOK'
    BY DEF RunTrip, HandlerTypeOK
  <2>2. GuardsOK'
    BY DEF RunTrip, WindowTypeOK, GuardsOK
  <2> QED
    BY <2>1, <2>2 DEF RunTrip, WindowTypeOK
<1>4. CASE Tick
  <2>1. HandlerTypeOK'
    BY <1>4 DEF Tick, HandlerTypeOK
  <2>2. GuardsOK'
    BY <1>4 DEF Tick, WindowTypeOK, GuardsOK
  <2>3. left' \in 0..Idle /\ quiet' \in 0..Idle
    BY <1>4, RecoveryAssumption DEF Tick, WindowTypeOK
  <2> QED
    BY <1>4, <2>1, <2>2, <2>3 DEF Tick, WindowTypeOK
<1>5. CASE ClientLeaves \/ EnvelopeLapses \/ Done
  <2>1. funds' \in 0..MaxFunds
    BY <1>5, RecoveryAssumption DEF ClientLeaves, EnvelopeLapses, Done, vars, HandlerTypeOK
  <2>2. ctxDone' \in BOOLEAN
    BY <1>5 DEF ClientLeaves, EnvelopeLapses, Done, vars, HandlerTypeOK
  <2>3. HandlerTypeOK'
    BY <1>5, <2>1, <2>2 DEF ClientLeaves, EnvelopeLapses, Done, vars, HandlerTypeOK
  <2> QED
    BY <1>5, <2>3 DEF ClientLeaves, EnvelopeLapses, Done, vars, WindowTypeOK, GuardsOK
<1> QED
  BY <1>1, <1>2, <1>3, <1>4, <1>5

\* The steps of the handler that do not touch the window.
LEMMA LoopType ==
    ASSUME TypeOK,
           StopAtGate \/ StopAtBudget \/ Continue \/ ClaimExchange \/ AcceptAnswer \/ Finish
    PROVE  TypeOK'
<1> SUFFICES HandlerTypeOK' /\ WindowTypeOK'
  BY TypeSplitPrime
<1> HandlerTypeOK /\ WindowTypeOK
  BY TypeSplit
<1> USE RecoveryAssumption DEF request, loop, stream, record, window
<1>1. WindowTypeOK'
  BY DEF StopAtGate, StopAtBudget, Continue, ClaimExchange, AcceptAnswer, Finish,
         WindowTypeOK, GuardsOK
<1>2. CASE StopAtGate \/ StopAtBudget \/ AcceptAnswer
  BY <1>1, <1>2 DEF StopAtGate, StopAtBudget, AcceptAnswer, LeaveLoop, HandlerTypeOK, PCs
<1>3. CASE Continue
  <2>1. recoveries < MaxRecoveries
    BY <1>3 DEF Continue, Gate, HandlerTypeOK
  <2> QED
    BY <1>1, <1>3, <2>1 DEF Continue, HandlerTypeOK, PCs
<1>4. CASE ClaimExchange
  BY <1>1, <1>4 DEF ClaimExchange, HandlerTypeOK, PCs, BudgetSpent
<1>5. CASE Finish
  BY <1>1, <1>5 DEF Finish, HandlerTypeOK, PCs, LS!Outcomes
<1> QED
  BY <1>2, <1>3, <1>4, <1>5

\* A pass that ends keeps the handler's types.
LEMMA PassType ==
    ASSUME TypeOK, WindowTypeOK', NEW how \in Errors, NEW tail, EndPass(how, tail)
    PROVE  HandlerTypeOK'
<1> HandlerTypeOK /\ WindowTypeOK
  BY TypeSplit
<1> USE DEF request, record
<1>1. UNCHANGED <<body, ctxDone, chunks, recoveries, funds, marked, clientGone, outcome>> /\ err' = how
  BY DEF EndPass
<1>2. pc' \in {"finish", "gates"}
  BY DEF EndPass, LeaveLoop
<1>3. windowShut' \in BOOLEAN
  BY DEF EndPass, HandlerTypeOK, WindowTypeOK
<1>4. marker' \in BOOLEAN
  <2>1. marker' = (Marked(tail) \/ (how = "none" /\ OwesMarker(ShowTail(shown, tail))))
    BY DEF EndPass
  <2> QED
    BY <2>1
<1> QED
  BY <1>1, <1>2, <1>3, <1>4 DEF HandlerTypeOK, PCs

\* The steps of the handler through the window.
LEMMA WindowStepType ==
    ASSUME TypeOK,
           \/ StartPass \/ (\E ev \in Lines : ReadChunk(ev))
           \/ (\E tail \in Tails : ReadLate(tail)) \/ (\E how \in Causes, tail \in Tails : ReadEnds(how, tail)) \/ StopAtClock
           \/ BindHop \/ RefuseHop \/ (\E how \in {"peer", "cancelled", "client"} : DialFails(how))
           \/ DialAnswers \/ RefuseAnswer
    PROVE  TypeOK'
<1> SUFFICES HandlerTypeOK' /\ WindowTypeOK'
  BY TypeSplitPrime
<1> HandlerTypeOK /\ WindowTypeOK
  BY TypeSplit
<1> USE RecoveryAssumption DEF request, loop, stream, record
<1>0. /\ RelayLease(recoveries) \in Leases /\ HopLease(recoveries) \in Leases
      /\ CloseBody(recoveries) \in Trips /\ CancelDial(recoveries) \in Trips
      /\ RelayLease(recoveries) # NoGuard.lease /\ HopLease(recoveries) # NoGuard.lease
  BY Names DEF HandlerTypeOK
<1>1. CASE StartPass
  <2>1. WindowTypeOK'
    <3>1. CASE Spent
      BY <3>1, <1>1, <1>0, ExpireType DEF StartPass, armBody
    <3>2. CASE ~Spent
      BY <3>2, <1>1, <1>0, ArmType DEF StartPass, armBody, WindowTypeOK
    <3> QED
      BY <3>1, <3>2
  <2> QED
    BY <1>1, <2>1 DEF StartPass, HandlerTypeOK, PCs
<1>2. CASE \E ev \in Lines : ReadChunk(ev)
  BY <1>2, ProgressType DEF ReadChunk, Marked, HandlerTypeOK, PCs
<1>3. CASE \E tail \in Tails : ReadLate(tail)
  BY <1>3, ExpireType, PassType DEF ReadLate, Errors
<1>4. CASE \E how \in Causes, tail \in Tails : ReadEnds(how, tail)
  BY <1>4, DisarmType, PassType DEF ReadEnds, Errors
<1>5. CASE StopAtClock
  BY <1>5, ExpireType DEF StopAtClock, LeaveLoop, HandlerTypeOK, PCs
<1>6. CASE BindHop
  <2>1. WindowTypeOK'
    <3>1. CASE Spent
      BY <3>1, <1>6, ExpireType DEF BindHop
    <3>2. CASE ~Spent
      BY <3>2, <1>6, <1>0, ArmType DEF BindHop, bind, WindowTypeOK
    <3> QED
      BY <3>1, <3>2
  <2> QED
    BY <1>6, <2>1 DEF BindHop, LeaveLoop, HandlerTypeOK, PCs
<1>7. CASE RefuseHop
  BY <1>7, DisarmType DEF RefuseHop, LeaveLoop, HandlerTypeOK, PCs
<1>8. CASE \E how \in {"peer", "cancelled", "client"} : DialFails(how)
  <2>1. WindowTypeOK'
    BY <1>8, DisarmType DEF DialFails
  <2> QED
    BY <1>8, <2>1 DEF DialFails, LeaveLoop, HandlerTypeOK, PCs, WindowTypeOK
<1>9. CASE DialAnswers
  <2>1. WindowTypeOK'
    <3>1. CASE promotable(recoveries)
      BY <3>1, <1>9, <1>0, ArmType DEF DialAnswers, promote, WindowTypeOK
    <3>2. CASE ~promotable(recoveries)
      BY <3>2, <1>9, ExpireType, DisarmType DEF DialAnswers
    <3> QED
      BY <3>1, <3>2
  <2> QED
    BY <1>9, <2>1 DEF DialAnswers, LeaveLoop, HandlerTypeOK, PCs
<1>10. CASE RefuseAnswer
  BY <1>10, DisarmType DEF RefuseAnswer, LeaveLoop, HandlerTypeOK, PCs
<1> QED
  BY <1>1, <1>2, <1>3, <1>4, <1>5, <1>6, <1>7, <1>8, <1>9, <1>10

\* Every step keeps the types.
LEMMA NextType == TypeOK /\ [Next]_vars => TypeOK'
<1> SUFFICES ASSUME TypeOK, [Next]_vars PROVE TypeOK'
  OBVIOUS
<1>1. CASE Handler
  BY <1>1, LoopType, WindowStepType DEF Handler
<1>2. CASE UNCHANGED vars
  BY <1>2 DEF vars, TypeOK
<1> QED
  BY <1>1, <1>2, OutsideType DEF Next

\* The type invariant holds, for every window, reach, body and upstream.
THEOREM TypeCorrect == Spec => []TypeOK
BY InitType, NextType, PTL DEF Spec

-----------------------------------------------------------------------------
(* The window.                                                             *)

\* What is true of the window whatever the handler waits for: CutsOnlySilence,
\* a shut window guards nothing, and a guard is of the pass under way.
WindowCore ==
    /\ left = Idle - quiet
    /\ closed => quiet = Idle
    /\ \A t \in trips \cup tripped : closed /\ t[2] = recoveries
    /\ closed => guard = NoGuard
    /\ guard # NoGuard => guard.trip[2] = recoveries

\* Whose guard it is.
GuardBelongs ==
    guard # NoGuard =>
        \/ pc = "relay" /\ guard.lease = RelayLease(recoveries) /\ guard.trip = CloseBody(recoveries)
        \/ pc \in {"claim", "dial"} /\ guard.lease = HopLease(recoveries) /\ guard.trip = CancelDial(recoveries)
        \/ pc \in {"answer", "start"} /\ guard.lease = HopLease(recoveries) /\ guard.trip = CloseBody(recoveries)

\* What is shown of the window, action by action.
WindowInv == WindowCore /\ GuardBelongs /\ NoUnguardedWait

\* expireLocked keeps the window's core invariant when a whole interval was quiet.
LEMMA ExpireCore ==
    ASSUME TypeOK, WindowCore, recoveries' = recoveries,
           NEW otherwise, \A t \in otherwise : t[2] = recoveries, Spent, expire(otherwise)
    PROVE  WindowCore' /\ guard' = NoGuard /\ closed'
<1>1. closed' /\ guard' = NoGuard /\ left' = left /\ quiet' = quiet /\ trips' = trips
  BY DEF expire, WindowCore
<1>2. left = 0 => quiet = Idle
  BY RecoveryAssumption DEF WindowCore, TypeOK
<1>3. quiet = Idle
  BY <1>2 DEF Spent, WindowCore
<1>4. \A t \in trips' \cup tripped' : t[2] = recoveries
  BY <1>1 DEF expire, WindowCore
<1> QED
  BY <1>1, <1>3, <1>4 DEF WindowCore

\* disarm keeps the window's core invariant.
LEMMA DisarmCore ==
    ASSUME WindowCore, recoveries' = recoveries, NEW lease, disarm(lease)
    PROVE  WindowCore'
<1>1. UNCHANGED <<left, quiet, closed, trips, tripped>> /\ guard' \in {guard, NoGuard}
  BY DEF disarm
<1> QED
  BY <1>1 DEF WindowCore

\* Arming, with or without upstream activity.
LEMMA ArmCore ==
    ASSUME TypeOK, WindowCore, recoveries' = recoveries, ~closed,
           NEW lease, NEW trip, NEW stopped, lease # NoGuard.lease, trip[2] = recoveries,
           arm(lease, trip, stopped),
           UNCHANGED <<left, quiet>> \/ (left' = Idle /\ quiet' = 0),
           UNCHANGED <<closed, trips, tripped>>
    PROVE  WindowCore'
<1>1. guard'.trip = trip
  BY Armed
<1>2. left' = Idle - quiet'
  BY RecoveryAssumption DEF WindowCore, TypeOK
<1>3. ~closed' /\ trips' \cup tripped' = {}
  BY DEF WindowCore
<1> QED
  BY <1>1, <1>2, <1>3 DEF WindowCore

\* The timers' steps.
LEMMA TimerWindow ==
    ASSUME TypeOK, WindowInv,
           \/ \E g \in timers : Wake(g)
           \/ \E g \in runnable : fire(g)
           \/ \E t \in trips : RunTrip(t)
    PROVE  WindowInv'
<1> USE DEF request, loop, stream, record
<1>1. CASE \E g \in timers : Wake(g)
  <2> PICK g \in timers : Wake(g)
    BY <1>1
  <2>1. /\ UNCHANGED <<left, quiet, closed, trips, tripped, guard, pc, recoveries>>
        /\ timers' \cup runnable' = timers \cup runnable
    BY DEF Wake
  <2>2. WindowCore' /\ GuardBelongs'
    BY <2>1 DEF WindowInv, WindowCore, GuardBelongs, RelayLease, HopLease, CloseBody, CancelDial
  <2>3. NoUnguardedWait'
    BY <2>1 DEF WindowInv, NoUnguardedWait, Awaited, CloseBody, CancelDial
  <2> QED
    BY <2>2, <2>3 DEF WindowInv
<1>2. CASE \E g \in runnable : fire(g)
  <2> PICK g \in runnable : fire(g)
    BY <1>2
  <2>0. UNCHANGED <<left, quiet, tripped, pc, recoveries>>
    BY DEF fire
  <2>1. CASE guard = NoGuard \/ guard.id # g \/ closed
    <3>1. UNCHANGED <<closed, guard, timers, trips>> /\ runnable' = runnable \ {g}
      BY <2>1 DEF fire
    <3>2. WindowCore' /\ GuardBelongs'
      BY <2>0, <3>1 DEF WindowInv, WindowCore, GuardBelongs, RelayLease, HopLease, CloseBody, CancelDial
    <3>3. NoUnguardedWait'
      BY <2>0, <2>1, <3>1 DEF WindowInv, NoUnguardedWait, Awaited, CloseBody, CancelDial
    <3> QED
      BY <3>2, <3>3 DEF WindowInv
  <2>2. CASE guard # NoGuard /\ guard.id = g /\ ~closed /\ left > 0
    <3>1. arm(guard.lease, guard.trip, {}) /\ UNCHANGED <<closed, trips>>
      BY <2>2 DEF fire
    <3>2. guard.lease \in Leases
      BY <2>2 DEF TypeOK
    <3>3. guard.lease # NoGuard.lease
      BY <3>2 DEF Leases, RelayLease, HopLease, NoGuard
    <3>4. guard' # NoGuard /\ guard'.lease = guard.lease /\ guard'.trip = guard.trip /\ guard'.id \in timers'
      BY <3>1, <3>3, Armed
    <3>5. WindowCore'
      BY <2>0, <2>2, <3>1, <3>3, ArmCore DEF WindowInv, WindowCore
    <3>6. GuardBelongs'
      BY <2>0, <2>2, <3>4 DEF WindowInv, GuardBelongs, RelayLease, HopLease, CloseBody, CancelDial
    <3>7. NoUnguardedWait'
      BY <2>0, <2>2, <3>1, <3>4 DEF WindowInv, NoUnguardedWait, Awaited, CloseBody, CancelDial
    <3> QED
      BY <3>5, <3>6, <3>7 DEF WindowInv
  <2>3. CASE guard # NoGuard /\ guard.id = g /\ ~closed /\ ~(left > 0)
    <3>1. closed' /\ guard' = NoGuard /\ trips' = trips \cup {guard.trip}
      BY <2>3 DEF fire
    <3>2. quiet = Idle
      BY <2>3, RecoveryAssumption DEF WindowInv, WindowCore, TypeOK
    <3>3. WindowCore'
      BY <2>0, <2>3, <3>1, <3>2 DEF WindowInv, WindowCore
    <3>4. NoUnguardedWait'
      BY <2>0, <2>3, <3>1 DEF WindowInv, NoUnguardedWait, Awaited, CloseBody, CancelDial
    <3> QED
      BY <3>1, <3>3, <3>4 DEF WindowInv, GuardBelongs
  <2> QED
    BY <2>1, <2>2, <2>3
<1>3. CASE \E t \in trips : RunTrip(t)
  <2> PICK t \in trips : RunTrip(t)
    BY <1>3
  <2>1. /\ UNCHANGED <<left, quiet, closed, guard, pc, recoveries, timers, runnable>>
        /\ trips' \cup tripped' = trips \cup tripped
    BY DEF RunTrip
  <2>2. WindowCore' /\ GuardBelongs'
    BY <2>1 DEF WindowInv, WindowCore, GuardBelongs, RelayLease, HopLease, CloseBody, CancelDial
  <2>3. NoUnguardedWait'
    BY <2>1 DEF WindowInv, NoUnguardedWait, Awaited, CloseBody, CancelDial
  <2> QED
    BY <2>2, <2>3 DEF WindowInv
<1> QED
  BY <1>1, <1>2, <1>3

\* Steps that leave the window alone.
LEMMA QuietWindow ==
    ASSUME TypeOK, WindowInv,
           \/ StopAtGate \/ StopAtBudget \/ Continue \/ ClaimExchange \/ AcceptAnswer \/ Finish
           \/ Tick \/ ClientLeaves \/ EnvelopeLapses \/ Done \/ UNCHANGED vars
    PROVE  WindowInv'
<1> USE DEF request, loop, stream, record, window
<1> DEFINE same == UNCHANGED <<left, quiet, closed, guard, trips, tripped, timers, runnable>>
<1> HIDE DEF same
<1>1. CASE UNCHANGED <<pc, recoveries>> /\ same
  BY <1>1 DEF same, WindowInv, WindowCore, GuardBelongs, NoUnguardedWait, Awaited,
              RelayLease, HopLease, CloseBody, CancelDial
<1>2. CASE StopAtGate \/ StopAtBudget \/ Finish
  <2>1. /\ same /\ recoveries' = recoveries
        /\ pc \in {"gates", "finish"} /\ pc' \in {"finish", "done"}
    BY <1>2 DEF StopAtGate, StopAtBudget, LeaveLoop, Finish, same
  <2> QED
    BY <2>1 DEF same, WindowInv, WindowCore, GuardBelongs, NoUnguardedWait
<1>3. CASE Continue
  <2>1. same /\ pc = "gates" /\ pc' = "hop" /\ ~closed
    BY <1>3 DEF Continue, Spent, same
  <2>2. guard = NoGuard /\ trips \cup tripped = {}
    BY <2>1 DEF WindowInv, WindowCore, GuardBelongs
  <2> QED
    BY <2>1, <2>2 DEF same, WindowInv, WindowCore, GuardBelongs, NoUnguardedWait
<1>4. CASE ClaimExchange \/ AcceptAnswer
  <2>1. /\ same /\ recoveries' = recoveries
        /\ (pc = "claim" /\ pc' = "dial") \/ (pc = "answer" /\ pc' = "start")
    BY <1>4 DEF ClaimExchange, AcceptAnswer, same
  <2> QED
    BY <2>1 DEF same, WindowInv, WindowCore, GuardBelongs, NoUnguardedWait, Awaited,
                RelayLease, HopLease, CloseBody, CancelDial
<1>5. CASE Tick
  <2>1. UNCHANGED <<pc, recoveries, closed, guard, trips, tripped, timers, runnable>>
    BY <1>5 DEF Tick
  <2>2. left' = Idle - quiet' /\ (quiet = Idle => quiet' = Idle)
    BY <1>5, RecoveryAssumption DEF Tick, WindowInv, WindowCore, TypeOK
  <2>3. WindowCore'
    BY <2>1, <2>2 DEF WindowInv, WindowCore
  <2> QED
    BY <2>1, <2>3 DEF WindowInv, GuardBelongs, NoUnguardedWait, Awaited,
                      RelayLease, HopLease, CloseBody, CancelDial
<1>6. CASE ClientLeaves \/ EnvelopeLapses \/ Done \/ UNCHANGED vars
  BY <1>1, <1>6 DEF ClientLeaves, EnvelopeLapses, Done, vars, same
<1> QED
  BY <1>2, <1>3, <1>4, <1>5, <1>6

\* Steps that shut the window or disarm it, after which nothing is awaited.
LEMMA ReleaseWindow ==
    ASSUME TypeOK, WindowInv, recoveries' = recoveries,
           pc' \in {"gates", "finish"},
           \/ Spent /\ expire({})
           \/ pc = "relay" /\ disarm(RelayLease(recoveries))
           \/ pc \in {"claim", "dial", "answer"} /\ disarm(HopLease(recoveries))
    PROVE  WindowInv'
<1>1. NoUnguardedWait'
  BY DEF NoUnguardedWait
<1>2. CASE Spent /\ expire({})
  BY <1>1, <1>2, ExpireCore DEF WindowInv, GuardBelongs
<1>3. CASE pc = "relay" /\ disarm(RelayLease(recoveries))
  <2>1. guard' = NoGuard
    BY <1>3 DEF WindowInv, GuardBelongs, disarm
  <2> QED
    BY <1>1, <1>3, <2>1, DisarmCore DEF WindowInv, GuardBelongs
<1>4. CASE pc \in {"claim", "dial", "answer"} /\ disarm(HopLease(recoveries))
  <2>1. guard' = NoGuard
    BY <1>4 DEF WindowInv, GuardBelongs, disarm
  <2> QED
    BY <1>1, <1>4, <2>1, DisarmCore DEF WindowInv, GuardBelongs
<1> QED
  BY <1>2, <1>3, <1>4

\* The handler's steps through the window.
LEMMA HandlerWindow ==
    ASSUME TypeOK, WindowInv,
           \/ StartPass \/ (\E ev \in Lines : ReadChunk(ev))
           \/ (\E tail \in Tails : ReadLate(tail)) \/ (\E how \in Causes, tail \in Tails : ReadEnds(how, tail)) \/ StopAtClock
           \/ BindHop \/ RefuseHop \/ (\E how \in {"peer", "cancelled", "client"} : DialFails(how))
           \/ DialAnswers \/ RefuseAnswer
    PROVE  WindowInv'
<1> USE DEF request, loop, stream, record
<1> DEFINE k == recoveries
<1> HIDE DEF k
<1>0. k \in 0..MaxRecoveries /\ k = recoveries
  BY DEF TypeOK, k
<1>a. /\ RelayLease(k) # NoGuard.lease /\ HopLease(k) # NoGuard.lease
      /\ CloseBody(k)[2] = k /\ CancelDial(k)[2] = k
  BY <1>0, Names
<1>1. CASE StartPass
  <2>0. pc = "start" /\ pc' = "relay" /\ armBody(k) /\ recoveries' = recoveries
    BY <1>1, <1>0 DEF StartPass
  <2>1. CASE Spent
    <3>1. expire({CloseBody(k)})
      BY <2>0, <2>1 DEF armBody
    <3>2. WindowCore' /\ guard' = NoGuard /\ closed'
      BY <2>0, <2>1, <3>1, <1>0, <1>a, ExpireCore DEF WindowInv
    <3>3. CloseBody(k) \in tripped'
      BY <2>0, <3>1, <1>0 DEF expire, WindowInv, GuardBelongs
    <3> QED
      BY <2>0, <3>2, <3>3, <1>0 DEF WindowInv, GuardBelongs, NoUnguardedWait, Awaited, CloseBody
  <2>2. CASE ~Spent
    <3>1. arm(RelayLease(k), CloseBody(k), {}) /\ UNCHANGED <<left, closed, trips, tripped, quiet>> /\ ~closed
      BY <2>0, <2>2 DEF armBody, Spent
    <3>2. guard' # NoGuard /\ guard'.lease = RelayLease(k) /\ guard'.trip = CloseBody(k) /\ guard'.id \in timers'
      BY <3>1, <1>a, Armed
    <3>3. WindowCore'
      BY <2>0, <3>1, <1>0, <1>a, ArmCore DEF WindowInv
    <3> QED
      BY <2>0, <3>1, <3>2, <3>3, <1>0 DEF WindowInv, GuardBelongs, NoUnguardedWait, Awaited, CloseBody, RelayLease
  <2> QED
    BY <2>1, <2>2
<1>2. CASE \E ev \in Lines : ReadChunk(ev)
  <2>0. pc = "relay" /\ pc' = "relay" /\ ~Spent /\ progress /\ recoveries' = recoveries
    BY <1>2 DEF ReadChunk
  <2>1. ~closed /\ guard # NoGuard /\ guard.lease = RelayLease(k) /\ guard.trip = CloseBody(k)
    BY <2>0, <1>0 DEF Spent, WindowInv, NoUnguardedWait, GuardBelongs
  <2>2. /\ arm(RelayLease(k), CloseBody(k), {guard.id})
        /\ left' = Idle /\ quiet' = 0 /\ UNCHANGED <<closed, trips, tripped>>
    BY <2>0, <2>1 DEF progress
  <2>3. guard' # NoGuard /\ guard'.lease = RelayLease(k) /\ guard'.trip = CloseBody(k) /\ guard'.id \in timers'
    BY <2>2, <1>a, Armed
  <2>4. WindowCore'
    BY <2>0, <2>1, <2>2, <1>0, <1>a, ArmCore DEF WindowInv
  <2> QED
    BY <2>0, <2>1, <2>2, <2>3, <2>4, <1>0 DEF WindowInv, GuardBelongs, NoUnguardedWait, Awaited, CloseBody, RelayLease
<1>3. CASE (\E tail \in Tails : ReadLate(tail)) \/ StopAtClock
  BY <1>3, ReleaseWindow DEF ReadLate, StopAtClock, EndPass, LeaveLoop
<1>4. CASE \E how \in Causes, tail \in Tails : ReadEnds(how, tail)
  BY <1>4, ReleaseWindow DEF ReadEnds, EndPass, LeaveLoop
<1>5. CASE RefuseHop \/ RefuseAnswer \/ (\E how \in {"peer", "cancelled", "client"} : DialFails(how))
  BY <1>5, ReleaseWindow DEF RefuseHop, RefuseAnswer, DialFails, LeaveLoop
<1>6. CASE BindHop
  <2>1. CASE Spent
    BY <1>6, <2>1, ReleaseWindow DEF BindHop, LeaveLoop
  <2>2. CASE ~Spent
    <3>1. /\ arm(HopLease(k), CancelDial(k), {}) /\ UNCHANGED <<left, closed, trips, tripped, quiet>> /\ ~closed
          /\ pc' = "claim" /\ recoveries' = recoveries
      BY <1>6, <2>2, <1>0 DEF BindHop, bind, Spent
    <3>2. guard' # NoGuard /\ guard'.lease = HopLease(k) /\ guard'.trip = CancelDial(k) /\ guard'.id \in timers'
      BY <3>1, <1>a, Armed
    <3>3. WindowCore'
      BY <3>1, <1>0, <1>a, ArmCore DEF WindowInv
    <3> QED
      BY <3>1, <3>2, <3>3, <1>0 DEF WindowInv, GuardBelongs, NoUnguardedWait, Awaited, CancelDial, HopLease
  <2> QED
    BY <2>1, <2>2
<1>7. CASE DialAnswers
  <2>1. CASE promotable(k)
    <3>1. /\ arm(HopLease(k), CloseBody(k), {guard.id}) /\ left' = Idle /\ quiet' = 0
          /\ UNCHANGED <<closed, trips, tripped>> /\ ~closed
          /\ pc' = "answer" /\ recoveries' = recoveries
      BY <1>7, <2>1, <1>0 DEF DialAnswers, promote, promotable, Spent
    <3>2. guard' # NoGuard /\ guard'.lease = HopLease(k) /\ guard'.trip = CloseBody(k) /\ guard'.id \in timers'
      BY <3>1, <1>a, Armed
    <3>3. WindowCore'
      BY <3>1, <1>0, <1>a, ArmCore DEF WindowInv
    <3> QED
      BY <3>1, <3>2, <3>3, <1>0 DEF WindowInv, GuardBelongs, NoUnguardedWait, Awaited, CloseBody, HopLease
  <2>2. CASE ~promotable(k)
    BY <1>7, <2>2, <1>0, ReleaseWindow DEF DialAnswers, LeaveLoop, Spent
  <2> QED
    BY <2>1, <2>2
<1> QED
  BY <1>1, <1>2, <1>3, <1>4, <1>5, <1>6, <1>7

\* The window starts open and guards nothing.
LEMMA InitWindow == Init => WindowInv
<1> SUFFICES ASSUME Init PROVE WindowInv
  OBVIOUS
<1>1. /\ left = Idle /\ quiet = 0 /\ guard = NoGuard /\ trips = {} /\ tripped = {} /\ pc = "start"
  BY DEF Init
<1>2. ~closed
  BY DEF Init
<1>3. WindowCore
  BY <1>1, <1>2, RecoveryAssumption DEF WindowCore
<1> QED
  BY <1>1, <1>3 DEF WindowInv, GuardBelongs, NoUnguardedWait

\* Every step keeps the window's invariant.
LEMMA NextWindow == TypeOK /\ WindowInv /\ [Next]_vars => WindowInv'
BY TimerWindow, QuietWindow, HandlerWindow DEF Next, Handler

\* The window's invariant holds in every reachable state.
LEMMA WindowHolds == Spec => []WindowInv
<1>1. Init => WindowInv
  BY InitWindow
<1> QED
  BY <1>1, NextWindow, TypeCorrect, PTL DEF Spec

\* The handler never waits on the upstream unwatched.
THEOREM NeverUnguarded == Spec => []NoUnguardedWait
<1>1. WindowInv => NoUnguardedWait
  BY DEF WindowInv
<1> QED
  BY <1>1, WindowHolds, PTL

\* The window shuts on a whole interval of silence, and only a shut window
\* ends an operation, one of the pass under way.
THEOREM CutIsSilence == Spec => []CutsOnlySilence
<1>1. WindowInv => CutsOnlySilence
  BY DEF WindowInv, WindowCore, CutsOnlySilence
<1> QED
  BY <1>1, WindowHolds, PTL

-----------------------------------------------------------------------------
(* The refinement.                                                         *)

\* The record is written once, by the handler's last step.
OpenInv == outcome # "open" => pc = "done"

\* The record is open until the handler is done.
LEMMA OpenHolds == Spec => []OpenInv
<1>1. Init => OpenInv
  BY DEF Init, OpenInv
<1>2. OpenInv /\ [Next]_vars => OpenInv'
  BY DEF OpenInv, Next, Handler, vars, record, StartPass, ReadChunk, ReadLate, ReadEnds, EndPass, LeaveLoop,
         StopAtGate, StopAtClock, StopAtBudget, Continue, BindHop, RefuseHop, ClaimExchange,
         DialFails, DialAnswers, RefuseAnswer, AcceptAnswer, Finish, Wake, fire, RunTrip,
         Tick, ClientLeaves, EnvelopeLapses, Done
<1> QED
  BY <1>1, <1>2, PTL DEF Spec

\* A pass that ends keeps the marker, and writes nothing else of the logical
\* stream.
LEMMA PassMarks ==
    ASSUME NEW how, NEW tail, EndPass(how, tail)
    PROVE  /\ marker' \in BOOLEAN /\ (marker => marker')
           /\ UNCHANGED <<chunks, recoveries, outcome>>
<1>1. marker' = (Marked(tail) \/ (how = "none" /\ OwesMarker(ShowTail(shown, tail))))
  BY DEF EndPass
<1>2. marker => Marked(tail)
  BY DEF Marked
<1> QED
  BY <1>1, <1>2 DEF EndPass, record

\* Every step of the recovery is a step of the logical stream or leaves it
\* as it is.
LEMMA StepRefines ==
    ASSUME TypeOK, OpenInv, [Next]_vars
    PROVE  [LS!LNext]_LS!lvars
<1> USE DEF request, loop, stream, record, window
<1> SUFFICES LS!LNext \/ UNCHANGED <<chunks, marker, recoveries, closed, outcome>>
  BY DEF LS!lvars
<1> DEFINE rest == UNCHANGED <<chunks, marker, recoveries, outcome>>
<1>1. ASSUME rest, closed' = closed \/ closed' = TRUE
      PROVE  LS!LNext \/ UNCHANGED <<chunks, marker, recoveries, closed, outcome>>
  BY <1>1 DEF LS!LNext, LS!Shut, TypeOK
<1>2. ASSUME NEW otherwise, expire(otherwise) PROVE closed' = TRUE
  BY <1>2 DEF expire
<1>3. CASE \E ev \in Lines : ReadChunk(ev)
  <2>1. /\ pc = "relay" /\ ~closed /\ chunks' = chunks + 1 /\ marker' \in BOOLEAN /\ (marker => marker')
        /\ UNCHANGED <<recoveries, closed, outcome>>
    BY <1>3 DEF ReadChunk, Marked, Spent, progress
  <2> QED
    BY <2>1 DEF LS!LNext, LS!Accept, OpenInv
<1>4. CASE \E how \in Causes, tail \in Tails : ReadEnds(how, tail)
  <2>1. /\ pc = "relay" /\ marker' \in BOOLEAN /\ (marker => marker')
        /\ UNCHANGED <<chunks, recoveries, closed, outcome>>
    BY <1>4, PassMarks DEF ReadEnds, disarm
  <2> QED
    BY <2>1 DEF LS!LNext, LS!Mark, OpenInv, TypeOK
<1>11. CASE \E tail \in Tails : ReadLate(tail)
  <2>1. /\ pc = "relay" /\ marker' \in BOOLEAN /\ (marker => marker')
        /\ UNCHANGED <<chunks, recoveries, outcome>>
    BY <1>11, PassMarks DEF ReadLate
  <2>2. closed' = TRUE
    BY <1>2, <1>11 DEF ReadLate
  <2> QED
    BY <2>1, <2>2 DEF LS!LNext, LS!Mark, LS!Shut, OpenInv, TypeOK
<1>5. CASE Continue
  <2>0. pc = "gates" /\ Gate = "none" /\ ~closed
    BY <1>5 DEF Continue, Spent
  <2>1. ~marker /\ ~(recoveries >= MaxRecoveries)
    BY <2>0 DEF Gate, continuationEligible
  <2>2. recoveries < MaxRecoveries
    BY <2>1, RecoveryAssumption DEF TypeOK
  <2> QED
    BY <1>5, <2>0, <2>1, <2>2 DEF Continue, LS!LNext, LS!Continue, OpenInv
<1>6. CASE Finish
  <2>1. outcome' \in LS!Outcomes /\ (outcome' = "completed" => marker)
    BY <1>6 DEF Finish, LS!Outcomes
  <2> QED
    BY <1>6, <2>1 DEF Finish, LS!LNext, LS!End, OpenInv
<1>7. CASE StartPass \/ StopAtClock \/ BindHop \/ DialAnswers
  <2>1. rest
    BY <1>7 DEF StartPass, StopAtClock, BindHop, DialAnswers
  <2>2. closed' = closed \/ closed' = TRUE
    BY <1>7, <1>2 DEF StartPass, armBody, StopAtClock, BindHop, bind, DialAnswers, promote, disarm
  <2> QED
    BY <1>1, <2>1, <2>2
<1>8. CASE StopAtGate \/ StopAtBudget \/ RefuseHop \/ ClaimExchange \/ RefuseAnswer \/ AcceptAnswer
           \/ (\E how \in {"peer", "cancelled", "client"} : DialFails(how))
  BY <1>8 DEF StopAtGate, StopAtBudget, RefuseHop, ClaimExchange, RefuseAnswer, AcceptAnswer,
              DialFails, disarm
<1>9. CASE \E g \in runnable : fire(g)
  BY <1>1, <1>9 DEF fire
<1>10. CASE \/ \E g \in timers : Wake(g)
            \/ \E t \in trips : RunTrip(t)
            \/ Tick \/ ClientLeaves \/ EnvelopeLapses \/ Done \/ UNCHANGED vars
  BY <1>10 DEF Wake, RunTrip, Tick, ClientLeaves, EnvelopeLapses, Done, vars
<1> QED
  BY <1>3, <1>4, <1>5, <1>6, <1>7, <1>8, <1>9, <1>10, <1>11 DEF Next, Handler

\* The recovery of a stream, with its hops, watchdogs and races, implements
\* the logical stream.
THEOREM RecoveryRefines == Spec => ImplementsLogicalStream
<1>1. Init => LS!LInit
  BY DEF Init, LS!LInit
<1>2. TypeOK /\ OpenInv /\ [Next]_vars => [LS!LNext]_LS!lvars
  BY StepRefines
<1> QED
  BY <1>1, <1>2, TypeCorrect, OpenHolds, PTL DEF Spec, ImplementsLogicalStream, LS!LSpec

-----------------------------------------------------------------------------
(* Whose failure is recorded.                                              *)

\* The errors with which a pass ends that the proxy itself cut.
Cut == {"closed", "expired", "cancelled"}

\* The loop's locals are set by the step that leaves the loop; a cut seen by
\* the handler means a shut window, is the error of the pass it ended, and
\* reaches the record as a window that shut.
BlameInv ==
    /\ pc \notin {"finish", "done"} => ~clientGone
    /\ cause \in Cut =>
         /\ closed
         /\ pc \in {"gates", "finish", "done"}
         /\ pc = "gates" => err = cause /\ recoveries = 0
         /\ pc \in {"finish", "done"} /\ ~marker =>
              windowShut /\ stopReason = "max_elapsed" /\ ~clientGone
    /\ OwnCutNotBlamed

\* No stream starts cut or blamed.
LEMMA InitBlame == Init => BlameInv
BY DEF Init, BlameInv, OwnCutNotBlamed, Cut

\* Steps outside the loop's control flow.
LEMMA OutsideBlame ==
    ASSUME TypeOK, BlameInv,
           \/ \E g \in timers : Wake(g)
           \/ \E g \in runnable : fire(g)
           \/ \E t \in trips : RunTrip(t)
           \/ Tick \/ ClientLeaves \/ EnvelopeLapses \/ Done \/ UNCHANGED vars
    PROVE  BlameInv'
<1> USE DEF request, loop, stream, record, window
<1>1. /\ UNCHANGED <<pc, cause, err, marker, recoveries, clientGone, windowShut, stopReason, outcome, phase>>
      /\ closed => closed'
  BY DEF Wake, fire, RunTrip, Tick, ClientLeaves, EnvelopeLapses, Done, vars
<1> QED
  BY <1>1 DEF BlameInv, OwnCutNotBlamed, Cut

\* A pass that ends: the body was closed by a trip that ran, or the bytes
\* came late, only if the window is shut.
LEMMA PassBlame ==
    ASSUME TypeOK, WindowInv, BlameInv,
           (\E tail \in Tails : ReadLate(tail)) \/ (\E how \in Causes, tail \in Tails : ReadEnds(how, tail))
    PROVE  BlameInv'
<1> USE DEF request, loop, stream, record
<1>0. pc = "relay" /\ cause \notin Cut
  BY DEF ReadLate, ReadEnds, BlameInv, Cut
<1>1. ASSUME NEW how \in Errors, NEW tail, EndPass(how, tail), how \in Cut => closed'
      PROVE  BlameInv'
  <2>1. cause' = how /\ err' = how /\ ~clientGone /\ clientGone' = clientGone /\ recoveries' = recoveries
    BY <1>0, <1>1 DEF EndPass, BlameInv
  <2>2. \/ pc' = "finish" /\ recoveries > 0
        \/ pc' = "gates" /\ (recoveries = 0 \/ ~closed')
    BY <1>1 DEF EndPass, LeaveLoop
  <2>3. recoveries > 0 => windowShut' = closed' /\ stopReason' = IF closed' THEN "max_elapsed" ELSE "none"
    BY <1>1, RecoveryAssumption DEF EndPass
  <2> QED
    BY <1>1, <2>1, <2>2, <2>3 DEF BlameInv, OwnCutNotBlamed
<1>2. CASE \E tail \in Tails : ReadLate(tail)
  <2>1. closed'
    BY <1>2 DEF ReadLate, expire
  <2> QED
    BY <1>1, <1>2, <2>1 DEF ReadLate, Errors
<1>3. CASE \E how \in Causes, tail \in Tails : ReadEnds(how, tail)
  <2> PICK how \in Causes, tail \in Tails : ReadEnds(how, tail)
    BY <1>3
  <2>1. how = "closed" => closed
    BY DEF ReadEnds, WindowInv, WindowCore
  <2>2. closed' = closed
    BY DEF ReadEnds, disarm
  <2>3. how \in Cut => how = "closed"
    BY DEF Causes, Cut
  <2> QED
    BY <1>1, <2>1, <2>2, <2>3 DEF ReadEnds, Errors
<1> QED
  BY <1>2, <1>3

\* The gates: a cut pass stops at the window's gate.
LEMMA GateBlame ==
    ASSUME TypeOK, BlameInv, StopAtGate \/ StopAtClock \/ StopAtBudget \/ Continue
    PROVE  BlameInv'
<1> USE DEF request, loop, stream, record, window
<1>0. pc = "gates"
  BY DEF StopAtGate, StopAtClock, StopAtBudget, Continue
<1>1. CASE cause \in Cut
  <2>1. closed /\ err = cause /\ recoveries = 0 /\ ~clientGone
    BY <1>0, <1>1 DEF BlameInv
  <2>2. ~(recoveries >= MaxRecoveries)
    BY <2>1, RecoveryAssumption
  <2>3. Gate \in {"ineligible", "max_elapsed"} /\ (~marker => Gate = "max_elapsed")
    BY <2>1, <2>2, <1>1 DEF Gate, continuationEligible, Cut
  <2>4. StopAtGate
    BY <2>3 DEF StopAtClock, StopAtBudget, Continue
  <2> QED
    BY <1>0, <1>1, <2>1, <2>3, <2>4 DEF StopAtGate, LeaveLoop, BlameInv, OwnCutNotBlamed, Cut
<1>2. CASE cause \notin Cut
  BY <1>0, <1>2 DEF StopAtGate, StopAtClock, StopAtBudget, LeaveLoop, Continue, BlameInv, OwnCutNotBlamed, Cut
<1> QED
  BY <1>1, <1>2

\* The hop: only a trip that ran cancels its dial.
LEMMA HopBlame ==
    ASSUME TypeOK, WindowInv, BlameInv,
           \/ StartPass \/ (\E ev \in Lines : ReadChunk(ev))
           \/ BindHop \/ RefuseHop \/ ClaimExchange
           \/ (\E how \in {"peer", "cancelled", "client"} : DialFails(how))
           \/ DialAnswers \/ RefuseAnswer \/ AcceptAnswer
    PROVE  BlameInv'
<1> USE DEF request, loop, stream, record
<1>0. pc \in {"start", "relay", "hop", "claim", "dial", "answer"} /\ cause \notin Cut /\ ~clientGone
  BY DEF StartPass, ReadChunk, BindHop, RefuseHop, ClaimExchange, DialFails, DialAnswers,
         RefuseAnswer, AcceptAnswer, BlameInv
<1>1. CASE \E how \in {"peer", "cancelled", "client"} : DialFails(how)
  <2> PICK how \in {"peer", "cancelled", "client"} : DialFails(how)
    BY <1>1
  <2>1. how = "cancelled" => closed
    BY DEF DialFails, WindowInv, WindowCore
  <2>2. closed' = closed
    BY DEF DialFails, disarm
  <2> QED
    BY <2>1, <2>2 DEF DialFails, LeaveLoop, BlameInv, OwnCutNotBlamed, Cut
<1>2. CASE StartPass \/ (\E ev \in Lines : ReadChunk(ev))
  BY <1>0, <1>2 DEF StartPass, ReadChunk, BlameInv, OwnCutNotBlamed
<1>3. CASE BindHop \/ RefuseHop \/ ClaimExchange \/ DialAnswers \/ RefuseAnswer \/ AcceptAnswer
  BY <1>0, <1>3 DEF BindHop, RefuseHop, ClaimExchange, DialAnswers, RefuseAnswer, AcceptAnswer,
                    LeaveLoop, BlameInv, OwnCutNotBlamed
<1> QED
  BY <1>1, <1>2, <1>3

\* The record.
LEMMA FinishBlame ==
    ASSUME TypeOK, BlameInv, Finish
    PROVE  BlameInv'
<1> USE DEF request, loop, stream, record, window
<1>1. /\ pc = "finish" /\ pc' = "done"
      /\ UNCHANGED <<clientGone, windowShut, stopReason, cause, marker, closed, recoveries>>
  BY DEF Finish
<1>2. ASSUME cause \in Cut, ~marker
      PROVE  phase' = "recovery" /\ outcome' = "stream_truncated"
  <2>1. FinalError = "none" /\ ~clientGone
    BY <1>1, <1>2 DEF BlameInv, FinalError
  <2> QED
    BY <1>2, <2>1 DEF Finish
<1> QED
  BY <1>1, <1>2 DEF BlameInv, OwnCutNotBlamed, Cut

\* A stream the proxy's own window cut before its marker is never recorded as
\* the upstream's or the client's failure.
THEOREM CutNotBlamed == Spec => []OwnCutNotBlamed
<1>1. TypeOK /\ WindowInv /\ BlameInv /\ [Next]_vars => BlameInv'
  BY OutsideBlame, PassBlame, GateBlame, HopBlame, FinishBlame DEF Next, Handler
<1>2. BlameInv => OwnCutNotBlamed
  BY DEF BlameInv
<1> QED
  BY <1>1, <1>2, InitBlame, TypeCorrect, WindowHolds, PTL DEF Spec

-----------------------------------------------------------------------------
(* The accumulator and the client's view.                                  *)

\* Why a stream is refused.
Reasons == {"oversize", "unknown_shape", "multiple_outputs", "tool_calls", "refusal",
            "upstream_terminal", "not_object"}

\* What the partial text may be.
Accumulators ==
    [text : Seq(STRING), unsafe : Reasons \cup {"none"}, terminal : BOOLEAN, passStart : Nat,
     itemSeen : BOOLEAN, item : Int \X Int, part : Int]

\* The accumulator still holds a text a hop could go on from.
Open(p) == p.unsafe = "none" /\ ~p.terminal

\* Replacing one member leaves an accumulator and the other members.
LEMMA SetText ==
    ASSUME NEW p \in Accumulators, NEW t \in Seq(STRING)
    PROVE  LET q == [p EXCEPT !.text = t]
           IN  /\ q \in Accumulators /\ q.text = t /\ q.unsafe = p.unsafe
               /\ q.terminal = p.terminal /\ q.item = p.item /\ q.part = p.part
BY DEF Accumulators

\* The accumulator gives up, for one of the reasons.
LEMMA SetUnsafe ==
    ASSUME NEW p \in Accumulators, NEW u \in Reasons
    PROVE  LET q == [p EXCEPT !.unsafe = u]
           IN  q \in Accumulators /\ q.unsafe = u
BY DEF Accumulators

\* The accumulator has met the terminal marker.
LEMMA SetTerminal ==
    ASSUME NEW p \in Accumulators
    PROVE  LET q == [p EXCEPT !.terminal = TRUE]
           IN  q \in Accumulators /\ q.terminal
BY DEF Accumulators

\* The accumulator notes where the text of a pass starts.
LEMMA SetPassStart ==
    ASSUME NEW p \in Accumulators, NEW n \in Nat
    PROVE  LET q == [p EXCEPT !.passStart = n]
           IN  /\ q \in Accumulators /\ q.text = p.text /\ q.unsafe = p.unsafe
               /\ q.terminal = p.terminal /\ q.item = p.item /\ q.part = p.part
BY DEF Accumulators

\* The accumulator notes that a pass has stated its item.
LEMMA SetItemSeen ==
    ASSUME NEW p \in Accumulators, NEW b \in BOOLEAN
    PROVE  LET q == [p EXCEPT !.itemSeen = b]
           IN  /\ q \in Accumulators /\ q.text = p.text /\ q.unsafe = p.unsafe
               /\ q.terminal = p.terminal /\ q.item = p.item /\ q.part = p.part
BY DEF Accumulators

\* The accumulator takes an item as its own.
LEMMA SetItem ==
    ASSUME NEW p \in Accumulators, NEW id \in Int, NEW out \in Int
    PROVE  LET q == [p EXCEPT !.item = <<id, out>>]
           IN  /\ q \in Accumulators /\ q.text = p.text /\ q.unsafe = p.unsafe
               /\ q.terminal = p.terminal /\ q.item = <<id, out>> /\ q.part = p.part
BY DEF Accumulators

\* The accumulator takes a content part as its own.
LEMMA SetPart ==
    ASSUME NEW p \in Accumulators, NEW n \in Int
    PROVE  LET q == [p EXCEPT !.part = n]
           IN  /\ q \in Accumulators /\ q.text = p.text /\ q.unsafe = p.unsafe
               /\ q.terminal = p.terminal /\ q.item = p.item /\ q.part = n
BY DEF Accumulators

\* refuse closes the accumulator.
LEMMA RefuseCloses ==
    ASSUME NEW p \in Accumulators, NEW reason \in Reasons
    PROVE  /\ refuse(p, reason) \in Accumulators
           /\ refuse(p, reason).unsafe # "none" /\ ~Open(refuse(p, reason))
<1> DEFINE u == IF p.unsafe = "none" THEN reason ELSE p.unsafe
           a == [p EXCEPT !.unsafe = u]
           b == [a EXCEPT !.text = <<>>]
           c == [b EXCEPT !.passStart = 0]
<1>1. refuse(p, reason) = c
  BY DEF refuse
<1>2. u \in Reasons
  BY DEF Accumulators
<1> HIDE DEF u
<1>3. a \in Accumulators /\ a.unsafe = u
  BY <1>2, SetUnsafe
<1> HIDE DEF a
<1>4. b \in Accumulators /\ b.unsafe = u
  <2>1. <<>> \in Seq(STRING)
    OBVIOUS
  <2> QED
    BY <1>3, <2>1, SetText
<1> HIDE DEF b
<1>5. c \in Accumulators /\ c.unsafe = u
  BY <1>4, SetPassStart
<1> HIDE DEF c
<1>6. u # "none"
  BY <1>2 DEF Reasons
<1> QED
  BY <1>1, <1>5, <1>6 DEF Open

\* finish closes the accumulator.
LEMMA FinishCloses ==
    ASSUME NEW p \in Accumulators
    PROVE  finish(p) \in Accumulators /\ ~Open(finish(p))
<1> DEFINE a == [p EXCEPT !.terminal = TRUE]
           b == [a EXCEPT !.text = <<>>]
           c == [b EXCEPT !.passStart = 0]
<1>1. finish(p) = c
  BY DEF finish
<1>2. a \in Accumulators /\ a.terminal
  BY SetTerminal
<1> HIDE DEF a
<1>3. b \in Accumulators /\ b.terminal
  <2>1. <<>> \in Seq(STRING)
    OBVIOUS
  <2> QED
    BY <1>2, <2>1, SetText
<1> HIDE DEF b
<1>4. c \in Accumulators /\ c.terminal
  BY <1>3, SetPassStart
<1> HIDE DEF c
<1> QED
  BY <1>1, <1>4 DEF Open

\* append adds the text or closes.
LEMMA AppendGrows ==
    ASSUME NEW p \in Accumulators, NEW t \in Seq(STRING), Open(p)
    PROVE  /\ append(p, t) \in Accumulators
           /\ Open(append(p, t)) => /\ append(p, t).text = p.text \o t
                                    /\ append(p, t).item = p.item /\ append(p, t).part = p.part
<1>0. p.text \in Seq(STRING)
  BY DEF Accumulators
<1>1. CASE t = <<>>
  <2>1. p.text \o t = p.text
    BY <1>0, <1>1
  <2> QED
    BY <1>1, <2>1 DEF append
<1>2. CASE t # <<>> /\ Len(p.text) + Len(t) >= MaxPartialBytes
  <2>1. append(p, t) = refuse(p, "oversize")
    BY <1>2 DEF append, Open
  <2> QED
    BY <2>1, RefuseCloses DEF Reasons
<1>3. CASE t # <<>> /\ ~(Len(p.text) + Len(t) >= MaxPartialBytes)
  <2> DEFINE grown == p.text \o t
  <2>1. append(p, t) = [p EXCEPT !.text = grown]
    BY <1>3 DEF append, Open
  <2>2. grown \in Seq(STRING)
    BY <1>0
  <2> HIDE DEF grown
  <2>3. append(p, t) \in Accumulators /\ append(p, t).text = grown
        /\ append(p, t).item = p.item /\ append(p, t).part = p.part
    BY <2>1, <2>2, SetText
  <2> QED
    BY <2>3 DEF grown
<1> QED
  BY <1>1, <1>2, <1>3

\* A chat chunk that leaves the accumulator open was plain text of choice 0,
\* and its text is the text that was appended.
LEMMA ChatChunk ==
    ASSUME NEW p \in Accumulators, Open(p), NEW ev \in ChatLines
    PROVE  LET q == observeChatChunk(p, ev)
           IN  /\ q \in Accumulators
               /\ Open(q) => /\ q.text = p.text \o TextIn(ev)
                             /\ ~ev.call /\ ~ev.finish
                             /\ TextIn(ev) # <<>> => ev.out = 0
<1> DEFINE q == observeChatChunk(p, ev)
<1>0. /\ ev.kind = "chat" /\ ev.text \in Seq(STRING) /\ ev.call \in BOOLEAN /\ ev.finish \in BOOLEAN
      /\ ev.type = "no_choices" => ev.text = Unstated /\ ~ev.call /\ ~ev.finish
  BY DEF ChatLines
<1>t. TextIn(ev) = IF ev.text # Unstated THEN ev.text ELSE <<>>
  BY <1>0 DEF TextIn
<1>e. p.text \o <<>> = p.text
  BY DEF Accumulators
<1>1. CASE ev.type = "no_choices"
  BY <1>0, <1>1, <1>t, <1>e DEF observeChatChunk
<1>2. CASE ev.type # "no_choices" /\ (ev.type = "choices" \/ ev.call \/ ev.type = "unreadable")
  BY <1>2, RefuseCloses DEF observeChatChunk, Reasons
<1>3. CASE ~(ev.type \in {"no_choices", "choices", "unreadable"} \/ ev.call)
  <2> DEFINE b == bindChoiceIndex(p, ev.out)
             g == IF ev.text = Unstated THEN b ELSE append(b, ev.text)
  <2>1. q = IF g.unsafe = "none" /\ ev.finish THEN finish(g) ELSE g
    BY <1>3 DEF observeChatChunk
  <2>2. b \in Accumulators /\ (Open(b) => b = p /\ ev.out = 0)
    BY RefuseCloses DEF bindChoiceIndex, Reasons
  <2>3. g \in Accumulators /\ (Open(g) => Open(b) /\ g.text = p.text \o TextIn(ev))
    <3>1. CASE Open(b) /\ ev.text # Unstated
      <4>1. b = p /\ g = append(p, ev.text) /\ TextIn(ev) = ev.text
        BY <3>1, <2>2, <1>t
      <4> QED
        BY <3>1, <4>1, <1>0, AppendGrows
    <3>2. CASE ev.text = Unstated
      BY <3>2, <2>2, <1>t, <1>e
    <3>3. CASE ~Open(b) /\ ev.text # Unstated
      BY <3>3, <2>2 DEF append, Open
    <3> QED
      BY <3>1, <3>2, <3>3
  <2>4. CASE g.unsafe = "none" /\ ev.finish
    BY <2>1, <2>3, <2>4, FinishCloses
  <2>5. CASE ~(g.unsafe = "none" /\ ev.finish)
    BY <2>1, <2>2, <2>3, <2>5, <1>3 DEF Open
  <2> QED
    BY <2>4, <2>5
<1> QED
  BY <1>1, <1>2, <1>3

\* The identities of a Responses stream are bound once.
Keeps(p, q) ==
    /\ q.item = p.item \/ p.item = <<Absent, Absent>>
    /\ q.part = p.part \/ p.part = Absent
    /\ q.item = <<Absent, Absent>> => p.item = <<Absent, Absent>>

\* bindItemIdentity takes the first identity and refuses another one.
LEMMA BindItem ==
    ASSUME NEW p \in Accumulators, Open(p), NEW id \in Int \ {Absent}, NEW out \in Int \ {Absent}
    PROVE  LET q == bindItemIdentity(p, id, out)
           IN  /\ q \in Accumulators
               /\ q.unsafe = "none" => /\ Open(q) /\ q.text = p.text /\ Keeps(p, q)
                                       /\ q.item = <<id, out>> /\ q.part = p.part
<1> DEFINE q == bindItemIdentity(p, id, out)
<1>1. CASE p.item = <<Absent, Absent>>
  <2>1. q = [p EXCEPT !.item = <<id, out>>]
    BY <1>1 DEF bindItemIdentity
  <2>2. id # Absent
    OBVIOUS
  <2> HIDE DEF q
  <2>3. /\ q \in Accumulators /\ q.text = p.text /\ q.unsafe = p.unsafe
        /\ q.terminal = p.terminal /\ q.item = <<id, out>> /\ q.part = p.part
    BY <2>1, SetItem
  <2> QED
    BY <1>1, <2>2, <2>3 DEF Keeps, Open, q
<1>2. CASE p.item # <<Absent, Absent>> /\ p.item = <<id, out>>
  BY <1>2 DEF bindItemIdentity, Keeps, Open
<1>3. CASE p.item # <<Absent, Absent>> /\ p.item # <<id, out>>
  BY <1>3, RefuseCloses DEF bindItemIdentity, Reasons
<1> QED
  BY <1>1, <1>2, <1>3

\* bindTextStream does so for the item and the part.
LEMMA BindText ==
    ASSUME NEW p \in Accumulators, Open(p), NEW ev \in ResponsesLines
    PROVE  LET q == bindTextStream(p, ev)
           IN  /\ q \in Accumulators
               /\ q.unsafe = "none" => /\ Open(q) /\ q.text = p.text /\ Keeps(p, q)
                                       /\ Absent \notin {ev.id, ev.out, ev.part}
                                       /\ q.item = <<ev.id, ev.out>> /\ q.part = ev.part
<1>0. ev.id \in Int /\ ev.out \in Int /\ ev.part \in Int
  BY DEF ResponsesLines
<1>1. CASE Absent \in {ev.id, ev.out, ev.part}
  BY <1>1, RefuseCloses DEF bindTextStream, Reasons
<1>2. CASE Absent \notin {ev.id, ev.out, ev.part}
  <2> DEFINE r == bindItemIdentity(p, ev.id, ev.out)
             q == bindTextStream(p, ev)
  <2>1. /\ r \in Accumulators
        /\ r.unsafe = "none" => /\ Open(r) /\ r.text = p.text /\ Keeps(p, r)
                                /\ r.item = <<ev.id, ev.out>> /\ r.part = p.part
    BY <1>0, <1>2, BindItem
  <2>2. q = IF r.unsafe # "none" THEN r
            ELSE IF r.part = Absent THEN [r EXCEPT !.part = ev.part]
            ELSE IF r.part # ev.part THEN refuse(r, "multiple_outputs")
            ELSE r
    BY <1>2 DEF bindTextStream
  <2> HIDE DEF r
  <2> SUFFICES /\ q \in Accumulators
               /\ q.unsafe = "none" => /\ Open(q) /\ q.text = p.text /\ Keeps(p, q)
                                       /\ q.item = <<ev.id, ev.out>> /\ q.part = ev.part
    BY <1>2
  <2> HIDE DEF q
  <2>3. CASE r.unsafe # "none"
    BY <2>1, <2>2, <2>3
  <2>4. CASE r.unsafe = "none" /\ r.part = Absent
    <3>1. q = [r EXCEPT !.part = ev.part]
      BY <2>2, <2>4
    <3>2. /\ q \in Accumulators /\ q.text = r.text /\ q.unsafe = r.unsafe
          /\ q.terminal = r.terminal /\ q.item = r.item /\ q.part = ev.part
      BY <3>1, <2>1, <1>0, SetPart
    <3> QED
      BY <3>2, <2>1, <2>4 DEF Open, Keeps
  <2>5. CASE r.unsafe = "none" /\ r.part # Absent /\ r.part # ev.part
    BY <2>1, <2>2, <2>5, RefuseCloses DEF Reasons
  <2>6. CASE r.unsafe = "none" /\ r.part # Absent /\ r.part = ev.part
    BY <2>1, <2>2, <2>6
  <2> QED
    BY <2>3, <2>4, <2>5, <2>6
<1> QED
  BY <1>1, <1>2

\* A Responses event that leaves the accumulator open was plain, kept the
\* identities, and its text, if any, belongs to the output they name.
LEMMA ResponsesEvent ==
    ASSUME NEW p \in Accumulators, Open(p), NEW ev \in ResponsesLines
    PROVE  LET q == observeResponsesEvent(p, ev)
           IN  /\ q \in Accumulators
               /\ Open(q) => /\ q.text = p.text \o TextIn(ev) /\ Keeps(p, q)
                             /\ ev.type \notin {"output_text.done", "call_arguments", "failed", "misnamed"}
                             /\ ~IsRefusal(ev)
                             /\ TextIn(ev) # <<>> => /\ Absent \notin {ev.id, ev.out, ev.part}
                                                     /\ q.item = <<ev.id, ev.out>> /\ q.part = ev.part
<1> DEFINE q == observeResponsesEvent(p, ev)
           b == bindTextStream(p, ev)
<1>0. ev.kind = "responses" /\ ev.text \in Seq(STRING) /\ ev.id \in Int /\ ev.out \in Int
  BY DEF ResponsesLines
<1>e. p.text \o <<>> = p.text
  BY DEF Accumulators
<1>t. ev.type # "output_text.delta" => TextIn(ev) = <<>>
  BY <1>0 DEF TextIn
<1>s. Keeps(p, p)
  BY DEF Keeps
<1>f. ~IsRefusal(ev) \/ ev.type \in {"refusal.delta", "refusal.done"}
  BY <1>0 DEF IsRefusal
<1>b. /\ b \in Accumulators
      /\ b.unsafe = "none" => /\ Open(b) /\ b.text = p.text /\ Keeps(p, b)
                              /\ Absent \notin {ev.id, ev.out, ev.part}
                              /\ b.item = <<ev.id, ev.out>> /\ b.part = ev.part
  BY BindText
<1>c. Open(b) => b.unsafe = "none"
  BY DEF Open
<1>r. \A r \in Accumulators, reason \in Reasons : refuse(r, reason) \in Accumulators /\ ~Open(refuse(r, reason))
  BY RefuseCloses
<1> HIDE DEF b
<1>1. CASE ev.type = "output_text.delta"
  <2>1. q = appendDelta(p, ev)
    BY <1>1 DEF observeResponsesEvent
  <2>2. CASE ev.text = Unstated
    <3>1. q = p /\ TextIn(ev) = <<>>
      BY <1>0, <1>1, <2>1, <2>2 DEF appendDelta, TextIn
    <3> QED
      BY <3>1, <1>1, <1>e, <1>s, <1>f
  <2>3. CASE ev.text # Unstated /\ b.unsafe # "none"
    BY <2>1, <2>3, <1>b DEF appendDelta, b, Open
  <2>4. CASE ev.text # Unstated /\ b.unsafe = "none"
    <3>1. q = append(b, ev.text) /\ TextIn(ev) = ev.text
      BY <1>0, <1>1, <2>1, <2>4 DEF appendDelta, TextIn, b
    <3>2. /\ q \in Accumulators
          /\ Open(q) => q.text = b.text \o ev.text /\ q.item = b.item /\ q.part = b.part
      <4> DEFINE t == ev.text
      <4>1. t \in Seq(STRING)
        BY <1>0
      <4>2. q = append(b, t)
        BY <3>1
      <4>3. b \in Accumulators /\ Open(b)
        BY <2>4, <1>b
      <4> HIDE DEF t, q
      <4>4. /\ append(b, t) \in Accumulators
            /\ Open(append(b, t)) => /\ append(b, t).text = b.text \o t
                                     /\ append(b, t).item = b.item /\ append(b, t).part = b.part
        BY <4>1, <4>3, AppendGrows
      <4>5. /\ q \in Accumulators
            /\ Open(q) => q.text = b.text \o t /\ q.item = b.item /\ q.part = b.part
        BY <4>2, <4>4
      <4> QED
        BY <4>5 DEF t
    <3> QED
      BY <3>1, <3>2, <1>1, <1>b, <2>4, <1>f DEF Keeps
  <2> QED
    BY <2>2, <2>3, <2>4
<1>2. CASE ev.type = "output_text.done"
  <2> DEFINE r == IF ev.text = Unstated THEN refuse(b, "unknown_shape")
                  ELSE IF passText(b) = <<>> THEN append(b, ev.text)
                  ELSE IF passText(b) # ev.text THEN refuse(b, "unknown_shape")
                  ELSE b
  <2>1. q = IF b.unsafe # "none" THEN b ELSE IF r.unsafe = "none" THEN finish(r) ELSE r
    BY <1>2 DEF observeResponsesEvent, observeResponsesTextDone, b
  <2>2. b.unsafe = "none" => r \in Accumulators
    BY <1>b, <1>0, <1>r, AppendGrows DEF Reasons
  <2> HIDE DEF r
  <2> q \in Accumulators /\ ~Open(q)
    <3>1. CASE b.unsafe # "none"
      BY <3>1, <2>1, <1>b DEF Open
    <3>2. CASE b.unsafe = "none" /\ r.unsafe = "none"
      BY <3>2, <2>1, <2>2, FinishCloses
    <3>3. CASE b.unsafe = "none" /\ r.unsafe # "none"
      BY <3>3, <2>1, <2>2 DEF Open
    <3> QED
      BY <3>1, <3>2, <3>3
  <2> QED
    OBVIOUS
<1>3. CASE ev.type \in {"refusal.delta", "call_arguments", "failed", "misnamed"}
  <2>1. \E reason \in Reasons : q = refuse(p, reason)
    BY <1>3 DEF observeResponsesEvent, Reasons
  <2> QED
    BY <2>1, <1>r
<1>4. CASE ev.type = "refusal.done"
  <2>1. (q = p /\ ~IsRefusal(ev)) \/ q = refuse(p, "refusal")
    <3>1. q = IF ev.text \in {Unstated, <<>>} THEN p ELSE refuse(p, "refusal")
      BY <1>4 DEF observeResponsesEvent, observeResponsesRefusalDone
    <3>2. ev.text \in {Unstated, <<>>} => ~IsRefusal(ev)
      BY <1>0, <1>4 DEF IsRefusal
    <3> QED
      BY <3>1, <3>2
  <2>2. "refusal" \in Reasons
    BY DEF Reasons
  <2> QED
    BY <2>1, <2>2, <1>4, <1>r, <1>e, <1>t, <1>s
<1>5. CASE ev.type \in {"output_item.added", "output_item.done"}
  <2>1. ASSUME NEW r \in Accumulators, Open(r), r.text = p.text, r.item = p.item, r.part = p.part
        PROVE  LET m == bindMessageItem(r, ev)
               IN  m \in Accumulators /\ (Open(m) => m.text = p.text /\ Keeps(p, m))
    <3>1. CASE Absent \in {ev.id, ev.out}
      BY <2>1, <3>1, <1>r DEF bindMessageItem, Reasons
    <3>2. CASE Absent \notin {ev.id, ev.out}
      BY <2>1, <3>2, <1>0, BindItem DEF bindMessageItem, Keeps, Open
    <3> QED
      BY <3>1, <3>2
  <2> DEFINE seen == [p EXCEPT !.itemSeen = TRUE]
  <2>2. /\ seen \in Accumulators /\ Open(seen) /\ seen.text = p.text
        /\ seen.item = p.item /\ seen.part = p.part
    BY SetItemSeen DEF Open
  <2>3. \/ \E reason \in Reasons : q = refuse(p, reason)
        \/ q = p \/ q = bindMessageItem(seen, ev) \/ q = bindMessageItem(p, ev)
    <3>1. CASE ev.type = "output_item.added"
      BY <3>1 DEF observeResponsesEvent, observeResponseItem, Reasons
    <3>2. CASE ev.type = "output_item.done"
      BY <3>2 DEF observeResponsesEvent, observeResponseItemDone, Reasons
    <3> QED
      BY <1>5, <3>1, <3>2
  <2> HIDE DEF seen
  <2>4. q \in Accumulators /\ (Open(q) => q.text = p.text /\ Keeps(p, q))
    BY <2>1, <2>2, <2>3, <1>r, <1>s
  <2> QED
    BY <2>4, <1>5, <1>e, <1>t, <1>f
<1>6. CASE ev.type \in {"content_part.added", "content_part.done"}
  <2>1. \/ q = b
        \/ b.unsafe = "none" /\ \E reason \in Reasons : q = refuse(b, reason)
    <3>1. q = observeContentPart(p, ev, ev.type = "content_part.done")
      BY <1>6 DEF observeResponsesEvent
    <3>2. verifyPartText(b, ev) \in {b, refuse(b, "unknown_shape")}
      BY DEF verifyPartText
    <3> QED
      BY <3>1, <3>2 DEF observeContentPart, Reasons, b
  <2>2. q \in Accumulators /\ (Open(q) => q.text = p.text /\ Keeps(p, q))
    BY <2>1, <1>b, <1>c, <1>r
  <2> QED
    BY <2>2, <1>6, <1>e, <1>t, <1>f
<1>7. CASE ev.type = "annotation.added"
  <2>1. q = b
    BY <1>7 DEF observeResponsesEvent, b
  <2> QED
    BY <2>1, <1>b, <1>c, <1>7, <1>e, <1>t, <1>f
<1>8. CASE ev.type = "metadata"
  <2>1. q = p
    BY <1>8 DEF observeResponsesEvent
  <2> QED
    BY <2>1, <1>8, <1>e, <1>t, <1>s, <1>f
<1>9. CASE ev.type \notin {"output_text.delta", "output_text.done", "refusal.delta", "refusal.done",
                          "output_item.added", "output_item.done", "call_arguments", "failed",
                          "content_part.added", "content_part.done", "annotation.added", "metadata"}
  <2>1. q = refuse(p, "unknown_shape")
    BY <1>9 DEF observeResponsesEvent
  <2> QED
    BY <2>1, <1>r DEF Reasons
<1> QED
  BY <1>1, <1>2, <1>3, <1>4, <1>5, <1>6, <1>7, <1>8, <1>9

-----------------------------------------------------------------------------
(* In order.                                                               *)

\* A text is in order in itself.
LEMMA InOrderSelf ==
    ASSUME NEW s \in Seq(STRING)
    PROVE  InOrder(s, s)
<1> DEFINE at == [i \in 1..Len(s) |-> i]
<1>1. at \in [1..Len(s) -> 1..Len(s)]
  OBVIOUS
<1>2. \A i \in 1..Len(s) : at[i] = i
  OBVIOUS
<1> HIDE DEF at
<1> QED
  BY <1>1, <1>2 DEF InOrder

\* No text is in order in every text.
LEMMA InOrderEmpty ==
    ASSUME NEW t \in Seq(STRING)
    PROVE  InOrder(<<>>, t)
<1>0. \A i \in 1..Len(<<>>) : FALSE
  OBVIOUS
<1> DEFINE at == [i \in 1..Len(<<>>) |-> 1]
<1>1. at \in [1..Len(<<>>) -> 1..Len(t)]
  BY <1>0
<1> HIDE DEF at
<1> QED
  BY <1>0, <1>1 DEF InOrder

\* Two texts in order in two others are so one after the other.
LEMMA InOrderConcat ==
    ASSUME NEW a \in Seq(STRING), NEW b \in Seq(STRING), NEW c \in Seq(STRING), NEW d \in Seq(STRING),
           InOrder(a, b), InOrder(c, d)
    PROVE  InOrder(a \o c, b \o d)
<1> DEFINE la == Len(a)
           lb == Len(b)
           lc == Len(c)
           ld == Len(d)
<1>0. la \in Nat /\ lb \in Nat /\ lc \in Nat /\ ld \in Nat
  OBVIOUS
<1>1. PICK f \in [1..la -> 1..lb] : /\ \A i \in 1..la : a[i] = b[f[i]]
                                     /\ \A m, n \in 1..la : m < n => f[m] < f[n]
  BY DEF InOrder
<1>2. PICK g \in [1..lc -> 1..ld] : /\ \A i \in 1..lc : c[i] = d[g[i]]
                                     /\ \A m, n \in 1..lc : m < n => g[m] < g[n]
  BY DEF InOrder
<1>3. /\ Len(a \o c) = la + lc /\ Len(b \o d) = lb + ld
      /\ \A i \in 1..(la + lc) : (a \o c)[i] = IF i <= la THEN a[i] ELSE c[i - la]
      /\ \A i \in 1..(lb + ld) : (b \o d)[i] = IF i <= lb THEN b[i] ELSE d[i - lb]
  BY ConcatProperties
<1> DEFINE at == [i \in 1..(la + lc) |-> IF i <= la THEN f[i] ELSE g[i - la] + lb]
           ac == a \o c
           bd == b \o d
<1> SUFFICES InOrder(ac, bd)
  OBVIOUS
<1> HIDE DEF la, lb, lc, ld, ac, bd
<1>4. \A i \in 1..(la + lc) : i <= la => i \in 1..la
  BY <1>0
<1>5. \A i \in 1..(la + lc) : ~(i <= la) => i - la \in 1..lc
  BY <1>0
<1>6. \A i \in 1..(la + lc) :
          /\ i <= la => at[i] = f[i] /\ f[i] \in 1..lb
          /\ ~(i <= la) => at[i] = g[i - la] + lb /\ g[i - la] \in 1..ld
  BY <1>1, <1>2, <1>4, <1>5
<1>7. at \in [1..(la + lc) -> 1..(lb + ld)]
  <2>1. \A i \in 1..(la + lc) : at[i] \in 1..(lb + ld)
    <3> TAKE i \in 1..(la + lc)
    <3>1. CASE i <= la
      BY <1>0, <1>6, <3>1
    <3>2. CASE ~(i <= la)
      <4>1. at[i] = g[i - la] + lb /\ g[i - la] \in 1..ld
        BY <1>6, <3>2
      <4> HIDE DEF at
      <4> QED
        BY <1>0, <4>1
    <3> QED
      BY <3>1, <3>2
  <2> QED
    BY <2>1
<1> HIDE DEF at
<1>8. \A i \in 1..(la + lc) : ac[i] = bd[at[i]]
  <2> TAKE i \in 1..(la + lc)
  <2>1. at[i] \in 1..(lb + ld)
    BY <1>7
  <2>2. CASE i <= la
    <3>1. at[i] = f[i] /\ f[i] \in 1..lb /\ a[i] = b[f[i]]
      BY <1>1, <1>4, <1>6, <2>2
    <3> QED
      BY <1>0, <1>3, <2>1, <2>2, <3>1 DEF ac, bd
  <2>3. CASE ~(i <= la)
    <3> DEFINE n == i - la
    <3>1. at[i] = g[n] + lb /\ g[n] \in 1..ld /\ c[n] = d[g[n]]
      BY <1>2, <1>5, <1>6, <2>3
    <3>2. ac[i] = c[n]
      BY <1>3, <2>3 DEF ac
    <3> HIDE DEF n
    <3>3. ~(at[i] <= lb) /\ at[i] - lb = g[n]
      BY <1>0, <3>1
    <3>4. bd[at[i]] = d[at[i] - lb]
      BY <1>3, <2>1, <3>3 DEF bd
    <3> QED
      BY <3>1, <3>2, <3>3, <3>4
  <2> QED
    BY <2>2, <2>3
<1>9. \A i, j \in 1..(la + lc) : i < j => at[i] < at[j]
  <2> TAKE i, j \in 1..(la + lc)
  <2> HAVE i < j
  <2>1. CASE j <= la
    <3>1. i <= la
      BY <1>0, <2>1
    <3>2. at[i] = f[i] /\ at[j] = f[j] /\ i \in 1..la /\ j \in 1..la
      BY <1>4, <1>6, <2>1, <3>1
    <3> QED
      BY <1>1, <3>2
  <2>2. CASE i <= la /\ ~(j <= la)
    <3>1. at[i] \in 1..lb /\ at[j] = g[j - la] + lb /\ g[j - la] \in 1..ld
      BY <1>6, <2>2
    <3> DEFINE p == at[i]
               q == g[j - la]
    <3>2. p \in 1..lb /\ q \in 1..ld /\ at[j] = q + lb
      BY <3>1
    <3> HIDE DEF p, q
    <3>3. p < q + lb
      BY <1>0, <3>2
    <3> QED
      BY <3>2, <3>3 DEF p
  <2>3. CASE ~(i <= la)
    <3>1. ~(j <= la)
      BY <1>0, <2>3
    <3> DEFINE m == i - la
               n == j - la
    <3>2. at[i] = g[m] + lb /\ at[j] = g[n] + lb /\ m \in 1..lc /\ n \in 1..lc
      BY <1>5, <1>6, <2>3, <3>1
    <3>3. m < n
      BY <1>0
    <3> HIDE DEF m, n
    <3>4. g[m] < g[n] /\ g[m] \in 1..ld /\ g[n] \in 1..ld
      BY <1>2, <3>2, <3>3
    <3> QED
      BY <1>0, <3>2, <3>4
  <2> QED
    BY <2>1, <2>2, <2>3
<1>10. Len(ac) = la + lc /\ Len(bd) = lb + ld
  BY <1>3 DEF ac, bd
<1> QED
  BY <1>7, <1>8, <1>9, <1>10 DEF InOrder

\* The beginning of a text in order is in order.
LEMMA InOrderPart ==
    ASSUME NEW a \in Seq(STRING), NEW b \in Seq(STRING), NEW c \in Seq(STRING), InOrder(a \o c, b)
    PROVE  InOrder(a, b)
<1> DEFINE la == Len(a)
           lb == Len(b)
           lc == Len(c)
           ac == a \o c
<1>0. la \in Nat /\ lb \in Nat /\ lc \in Nat
  OBVIOUS
<1>1. Len(ac) = la + lc /\ \A i \in 1..la : ac[i] = a[i]
  BY ConcatProperties
<1> HIDE DEF la, lb, lc, ac
<1>2. PICK f \in [1..(la + lc) -> 1..lb] : /\ \A i \in 1..(la + lc) : ac[i] = b[f[i]]
                                            /\ \A m, n \in 1..(la + lc) : m < n => f[m] < f[n]
  BY <1>1 DEF InOrder, ac, lb
<1>3. \A i \in 1..la : i \in 1..(la + lc)
  BY <1>0
<1> DEFINE at == [i \in 1..la |-> f[i]]
<1>4. at \in [1..la -> 1..lb] /\ \A i \in 1..la : at[i] = f[i]
  BY <1>2, <1>3
<1> HIDE DEF at
<1>5. /\ \A i \in 1..la : a[i] = b[at[i]]
      /\ \A i, j \in 1..la : i < j => at[i] < at[j]
  BY <1>1, <1>2, <1>3, <1>4
<1> QED
  BY <1>4, <1>5 DEF InOrder, la, lb

-----------------------------------------------------------------------------
(* What the client saw against what the accumulator holds.                 *)

\* What a client may have made of its stream.
Views == [text : Seq(STRING), held : Seq(Seq(STRING)), lost : BOOLEAN, plain : BOOLEAN,
          refusal : BOOLEAN, outputs : SUBSET (Int \X Int \X Int), finish : BOOLEAN]

\* The output whose text is accumulated, and whether it is known.
Identity(p) == IF Surface = "responses" THEN <<p.item[1], p.item[2], p.part>> ELSE <<0, 0, 0>>
Bound(p) == Surface = "responses" => p.item # <<Absent, Absent>> /\ p.part # Absent

\* What the client could read if the event it holds were dispatched now.
Readable(s) == s.text \o HeldText(s)

\* A text the client reads against the text that is accumulated.
Matches(t, lost, p) ==
    /\ InOrder(t, p.text)
    /\ ~body.strips /\ ~lost => t = p.text

\* While the accumulator is open, its text holds what the client can read, all
\* of it plain, and in this pass all of it of the one output it is bound to.
Tracks(p, s) ==
    Open(p) => /\ s.plain /\ (s.refusal => Surface # "responses")
               /\ Matches(Readable(s), s.lost, p)
               /\ s.outputs \subseteq {Identity(p)}
               /\ s.outputs # {} => Bound(p)

\* What the client holds is text.
LEMMA HeldType ==
    ASSUME NEW s \in Views
    PROVE  HeldText(s) \in Seq(STRING) /\ Readable(s) \in Seq(STRING)
<1>1. s.held \in Seq(Seq(STRING)) /\ s.text \in Seq(STRING)
  BY DEF Views
<1>2. Len(s.held) = 1 => s.held[1] \in Seq(STRING)
  <2> DEFINE Texts == Seq(STRING)
  <2>1. s.held \in Seq(Texts)
    BY <1>1
  <2> HIDE DEF Texts
  <2>2. Len(s.held) = 1 => s.held[1] \in Texts
    BY <2>1, ElementOfSeq
  <2> QED
    BY <2>2 DEF Texts
<1>3. <<>> \in Seq(STRING)
  OBVIOUS
<1>4. HeldText(s) \in Seq(STRING)
  BY <1>2, <1>3 DEF HeldText
<1> QED
  BY <1>1, <1>4 DEF Readable

\* Sequences of at most two texts.
LEMMA HeldSeqs ==
    ASSUME NEW t \in Seq(STRING)
    PROVE  /\ <<>> \in Seq(Seq(STRING)) /\ <<t>> \in Seq(Seq(STRING)) /\ Joined \in Seq(Seq(STRING))
           /\ Len(<<>>) = 0 /\ Len(<<t>>) = 1 /\ <<t>>[1] = t /\ Len(Joined) = 2
<1> DEFINE Texts == Seq(STRING)
<1>1. t \in Texts /\ <<>> \in Texts
  OBVIOUS
<1> HIDE DEF Texts
<1>2. <<>> \in Seq(Texts) /\ <<t>> \in Seq(Texts) /\ Joined \in Seq(Texts)
  BY <1>1 DEF Joined
<1> QED
  BY <1>2 DEF Texts, Joined

\* Replacing what the client holds.
LEMMA SetHeld ==
    ASSUME NEW s \in Views, NEW h \in Seq(Seq(STRING)), NEW l \in BOOLEAN
    PROVE  LET u == [s EXCEPT !.held = h, !.lost = l]
           IN  /\ u \in Views /\ u.text = s.text /\ u.held = h /\ u.lost = l /\ u.plain = s.plain
               /\ u.refusal = s.refusal /\ u.outputs = s.outputs
BY DEF Views

\* Joining loses the event.
LEMMA JoinTracks ==
    ASSUME NEW p \in Accumulators, NEW s \in Views, Tracks(p, s)
    PROVE  Join(s) \in Views /\ Tracks(p, Join(s)) /\ Join(s).outputs = s.outputs
<1> DEFINE u == Join(s)
<1>1. /\ u \in Views /\ u.text = s.text /\ u.held = Joined /\ u.lost = TRUE /\ u.plain = s.plain
      /\ u.refusal = s.refusal /\ u.outputs = s.outputs
  <2>1. <<>> \in Seq(STRING)
    OBVIOUS
  <2>2. Joined \in Seq(Seq(STRING))
    BY <2>1, HeldSeqs
  <2> QED
    BY <2>2, SetHeld DEF Join
<1> HIDE DEF u
<1>2. Readable(u) = s.text
  <2>1. HeldText(u) = <<>>
    <3>1. Len(Joined) = 2
      BY DEF Joined
    <3> QED
      BY <1>1, <3>1 DEF HeldText
  <2>2. s.text \in Seq(STRING)
    BY DEF Views
  <2> QED
    BY <1>1, <2>1, <2>2 DEF Readable
<1>3. Open(p) => InOrder(s.text, p.text)
  <2>1. s.text \in Seq(STRING) /\ p.text \in Seq(STRING) /\ HeldText(s) \in Seq(STRING)
    BY HeldType DEF Views, Accumulators
  <2> QED
    BY <2>1, InOrderPart DEF Tracks, Matches, Readable
<1>4. Tracks(p, u)
  BY <1>1, <1>2, <1>3 DEF Tracks, Matches
<1> QED
  BY <1>1, <1>4 DEF u

\* Dispatching what is held makes it the client's text.
LEMMA DispatchTracks ==
    ASSUME NEW p \in Accumulators, NEW s \in Views, Tracks(p, s)
    PROVE  Dispatch(s) \in Views /\ Tracks(p, Dispatch(s)) /\ Dispatch(s).outputs = s.outputs
<1> DEFINE t == Readable(s)
           u == [s EXCEPT !.text = t, !.held = <<>>]
<1>0. Dispatch(s) = u
  BY DEF Dispatch, Readable
<1>1. t \in Seq(STRING) /\ <<>> \in Seq(Seq(STRING))
  BY HeldType, HeldSeqs
<1> HIDE DEF t
<1>2. /\ u \in Views /\ u.text = t /\ u.held = <<>> /\ u.lost = s.lost /\ u.plain = s.plain
      /\ u.refusal = s.refusal /\ u.outputs = s.outputs
  BY <1>1 DEF Views
<1> HIDE DEF u
<1>3. Readable(u) = t
  <2>1. HeldText(u) = <<>>
    BY <1>2 DEF HeldText
  <2> QED
    BY <1>1, <1>2, <2>1 DEF Readable
<1>4. Tracks(p, u)
  BY <1>2, <1>3 DEF Tracks, t
<1> QED
  BY <1>0, <1>2, <1>4

\* A pass that ends forgets its outputs.
LEMMA EndedTracks ==
    ASSUME NEW p \in Accumulators, NEW s \in Views, Tracks(p, s)
    PROVE  Ended(s) \in Views /\ Tracks(p, Ended(s)) /\ Ended(s).outputs = {}
<1> DEFINE u == Ended(s)
<1>1. /\ u \in Views /\ u.text = s.text /\ u.held = s.held /\ u.lost = s.lost /\ u.plain = s.plain
      /\ u.refusal = s.refusal /\ u.outputs = {}
  BY DEF Ended, Views
<1> HIDE DEF u
<1>2. Readable(u) = Readable(s)
  BY <1>1 DEF Readable, HeldText
<1> QED
  BY <1>1, <1>2 DEF Tracks, u

\* What the strip leaves of a text is in order in it.
LEMMA StripLeaves ==
    ASSUME NEW t \in Seq(STRING)
    PROVE  /\ Stripped(t) \in Seq(STRING) /\ InOrder(Stripped(t), t)
           /\ ~body.strips => Stripped(t) = t
<1>1. <<>> \in Seq(STRING)
  OBVIOUS
<1> QED
  BY <1>1, InOrderSelf, InOrderEmpty DEF Stripped

\* A line's text is a text.
LEMMA TextType ==
    ASSUME NEW ev \in BareLines \cup ChatLines \cup ResponsesLines
    PROVE  /\ TextIn(ev) \in Seq(STRING)
           /\ TextIn(ev) # <<>> => <<ev.id, ev.out, ev.part>> \in Int \X Int \X Int
<1>1. ev.kind \in {"chat", "responses"} => ev.text \in Seq(STRING)
  BY DEF BareLines, ChatLines, ResponsesLines
<1>2. <<>> \in Seq(STRING)
  OBVIOUS
<1>3. TextIn(ev) # <<>> => <<ev.id, ev.out, ev.part>> \in Int \X Int \X Int
  BY DEF TextIn, BareLines, ChatLines, ResponsesLines
<1> QED
  BY <1>1, <1>2, <1>3 DEF TextIn

\* A data line of plain text of the same output is held and nothing else.
LEMMA ReceivePlain ==
    ASSUME NEW s \in Views, NEW ev, NEW o, s.plain, IsPlain(ev) = TRUE,
           s.outputs \subseteq {o}, TextIn(ev) # <<>> => <<ev.id, ev.out, ev.part>> = o
    PROVE  LET u == Receive(s, ev)
           IN  /\ u.plain /\ u.text = s.text /\ u.lost = (s.lost \/ s.held # <<>>)
               /\ u.held = IF s.held = <<>> THEN <<Stripped(TextIn(ev))>> ELSE Joined
               /\ u.refusal = (s.refusal \/ IsRefusal(ev))
               /\ u.outputs \subseteq {o} /\ (TextIn(ev) = <<>> => u.outputs = s.outputs)
<1> DEFINE outputs == s.outputs \cup (IF TextIn(ev) = <<>> THEN {} ELSE {<<ev.id, ev.out, ev.part>>})
           fin == s.finish \/ (ev.kind = "chat" /\ ev.finish)
           h == IF s.held = <<>> THEN <<Stripped(TextIn(ev))>> ELSE Joined
           l == s.lost \/ s.held # <<>>
           r == s.refusal \/ IsRefusal(ev)
<1>1. outputs \subseteq {o} /\ (TextIn(ev) = <<>> => outputs = s.outputs)
  OBVIOUS
<1> HIDE DEF outputs
<1>2. Cardinality(outputs) <= 1
  <2>1. outputs = {} \/ outputs = {o}
    BY <1>1
  <2>2. Cardinality({}) = 0
    BY FS_EmptySet
  <2>3. Cardinality({o}) = 1
    BY FS_Singleton
  <2>4. Cardinality(outputs) = 0 \/ Cardinality(outputs) = 1
    BY <2>1, <2>2, <2>3, Zenon
  <2> QED
    BY <2>4
<1>3. Receive(s, ev) = [text |-> s.text, held |-> h, lost |-> l, plain |-> TRUE, refusal |-> r,
                        outputs |-> outputs, finish |-> fin]
  BY <1>2 DEF Receive, outputs
<1> HIDE DEF fin, h, l, r
<1>4. LET u == Receive(s, ev)
      IN  u.plain /\ u.text = s.text /\ u.lost = l /\ u.held = h /\ u.refusal = r /\ u.outputs = outputs
  BY <1>3
<1> QED
  BY <1>1, <1>4 DEF h, l, r

\* The view keeps its shape.
LEMMA ReceiveType ==
    ASSUME NEW s \in Views, NEW ev \in BareLines \cup ChatLines \cup ResponsesLines
    PROVE  Receive(s, ev) \in Views
<1> DEFINE outputs == s.outputs \cup (IF TextIn(ev) = <<>> THEN {} ELSE {<<ev.id, ev.out, ev.part>>})
           fin == s.finish \/ (ev.kind = "chat" /\ ev.finish)
           h == IF s.held = <<>> THEN <<Stripped(TextIn(ev))>> ELSE Joined
           l == s.lost \/ s.held # <<>>
           r == s.refusal \/ IsRefusal(ev)
<1>1. outputs \in SUBSET (Int \X Int \X Int)
  BY TextType DEF Views
<1>2. fin \in BOOLEAN /\ l \in BOOLEAN /\ r \in BOOLEAN
  OBVIOUS
<1>3. h \in Seq(Seq(STRING))
  <2>1. Stripped(TextIn(ev)) \in Seq(STRING)
    BY TextType, StripLeaves
  <2> QED
    BY <2>1, HeldSeqs
<1>4. s.text \in Seq(STRING) /\ <<>> \in Seq(STRING) /\ <<>> \in Seq(Seq(STRING))
  BY HeldSeqs DEF Views
<1>5. \/ Receive(s, ev) = [text |-> s.text, held |-> h, lost |-> l, plain |-> TRUE, refusal |-> r,
                           outputs |-> outputs, finish |-> fin]
      \/ Receive(s, ev) = [ShownNothing EXCEPT !.plain = FALSE, !.finish = fin]
  BY DEF Receive
<1> HIDE DEF outputs, fin, h, l, r
<1>6. CASE Receive(s, ev) = [text |-> s.text, held |-> h, lost |-> l, plain |-> TRUE, refusal |-> r,
                             outputs |-> outputs, finish |-> fin]
  BY <1>1, <1>2, <1>3, <1>4, <1>6 DEF Views
<1>7. CASE Receive(s, ev) = [ShownNothing EXCEPT !.plain = FALSE, !.finish = fin]
  BY <1>2, <1>4, <1>7 DEF Views, ShownNothing
<1> QED
  BY <1>5, <1>6, <1>7

\* A line that grew both sides by the same text, as far as the strip left it.
LEMMA GrowsTogether ==
    ASSUME NEW p \in Accumulators, NEW q \in Accumulators, NEW s \in Views, NEW u \in Views,
           NEW t \in Seq(STRING), Matches(Readable(s), s.lost, p),
           q.text = p.text \o t, u.text = s.text, u.lost = (s.lost \/ s.held # <<>>),
           u.held = IF s.held = <<>> THEN <<Stripped(t)>> ELSE Joined
    PROVE  Matches(Readable(u), u.lost, q)
<1>0. /\ s.text \in Seq(STRING) /\ p.text \in Seq(STRING) /\ HeldText(s) \in Seq(STRING)
      /\ Stripped(t) \in Seq(STRING) /\ <<>> \in Seq(STRING)
  BY HeldType, StripLeaves DEF Views, Accumulators
<1>1. InOrder(s.text, p.text)
  BY <1>0, InOrderPart DEF Matches, Readable
<1>2. CASE s.held = <<>>
  <2>1. HeldText(s) = <<>> /\ HeldText(u) = Stripped(t)
    BY <1>0, <1>2, HeldSeqs DEF HeldText
  <2>2. Readable(s) = s.text /\ Readable(u) = s.text \o Stripped(t)
    BY <1>0, <2>1 DEF Readable
  <2>3. InOrder(s.text \o Stripped(t), p.text \o t)
    BY <1>0, <1>1, StripLeaves, InOrderConcat
  <2> QED
    BY <1>2, <2>2, <2>3, StripLeaves DEF Matches
<1>3. CASE s.held # <<>>
  <2>1. HeldText(u) = <<>>
    <3>1. Len(Joined) = 2
      BY DEF Joined
    <3>2. u.held = Joined
      BY <1>3
    <3>3. Len(u.held) = 2
      BY <3>1, <3>2
    <3>4. ~(2 = 1)
      OBVIOUS
    <3>5. ~(Len(u.held) = 1)
      BY <3>3, <3>4, Zenon
    <3> QED
      BY <3>5, Zenon DEF HeldText
  <2>2. Readable(u) = s.text \o <<>>
    BY <2>1 DEF Readable
  <2>3. InOrder(s.text \o <<>>, p.text \o t)
    BY <1>0, <1>1, InOrderEmpty, InOrderConcat
  <2> QED
    BY <1>3, <2>2, <2>3 DEF Matches
<1> QED
  BY <1>2, <1>3

\* What a data line that leaves the accumulator open does to both sides.
LEMMA PlainTracks ==
    ASSUME NEW p \in Accumulators, NEW q \in Accumulators, NEW s \in Views, Open(p), Tracks(p, s),
           NEW ev \in BareLines \cup ChatLines \cup ResponsesLines, IsPlain(ev) = TRUE,
           q.text = p.text \o TextIn(ev), IsRefusal(ev) => Surface # "responses",
           s.outputs \subseteq {Identity(q)}, s.outputs # {} => Bound(q),
           TextIn(ev) # <<>> => <<ev.id, ev.out, ev.part>> = Identity(q) /\ Bound(q)
    PROVE  Tracks(q, Receive(s, ev))
<1> DEFINE u == Receive(s, ev)
<1>1. s.plain /\ (s.refusal => Surface # "responses") /\ Matches(Readable(s), s.lost, p)
  BY DEF Tracks
<1>2. /\ u.plain /\ u.text = s.text /\ u.lost = (s.lost \/ s.held # <<>>)
      /\ u.held = IF s.held = <<>> THEN <<Stripped(TextIn(ev))>> ELSE Joined
      /\ u.refusal = (s.refusal \/ IsRefusal(ev))
      /\ u.outputs \subseteq {Identity(q)} /\ (TextIn(ev) = <<>> => u.outputs = s.outputs)
  BY <1>1, ReceivePlain
<1>3. u \in Views /\ TextIn(ev) \in Seq(STRING)
  BY ReceiveType, TextType
<1> HIDE DEF u
<1>4. Matches(Readable(u), u.lost, q)
  BY <1>1, <1>2, <1>3, GrowsTogether
<1>5. u.outputs # {} => Bound(q)
  BY <1>2
<1>6. u.refusal => Surface # "responses"
  BY <1>1, <1>2
<1> QED
  BY <1>2, <1>4, <1>5, <1>6 DEF Tracks, u

\* Observing and receiving a data line keep the two together.
LEMMA LineTracks ==
    ASSUME NEW p \in Accumulators, NEW s \in Views, Tracks(p, s),
           Surface \in Surfaces, NEW ev \in EventsOf[Surface]
    PROVE  /\ Observed(p, ev) \in Accumulators /\ Receive(s, ev) \in Views
           /\ Tracks(Observed(p, ev), Receive(s, ev))
<1> DEFINE q == Observed(p, ev)
<1>0. /\ ev \in BareLines \cup ChatLines \cup ResponsesLines
      /\ ev \in ChatLines => Surface # "responses"
      /\ ev \in ResponsesLines => Surface = "responses"
  <2>1. CASE Surface = "responses"
    BY <2>1, DialectAssumption DEF BareLines, ChatLines, ResponsesLines
  <2>2. CASE Surface # "responses"
    BY <2>2, DialectAssumption DEF Surfaces, BareLines, ChatLines, ResponsesLines
  <2> QED
    BY <2>1, <2>2
<1>1. Receive(s, ev) \in Views
  BY <1>0, ReceiveType
<1>2. ev \notin {NoEvent, OtherLine}
  BY <1>0 DEF NoEvent, OtherLine, BareLines, ChatLines, ResponsesLines
<1>e. p.text \o <<>> = p.text
  BY DEF Accumulators
<1>3. CASE ~Open(p)
  <2>1. q = p
    BY <1>2, <1>3 DEF Observed, Observe, Open
  <2> QED
    BY <1>1, <1>3, <2>1 DEF Tracks
<1>s. Open(p) => s.outputs \subseteq {Identity(p)} /\ (s.outputs # {} => Bound(p))
  BY DEF Tracks
<1>4. CASE Open(p) /\ ev \in BareLines
  <2>1. CASE ev.kind = "done"
    <3>1. q = p
      BY <1>2, <1>4, <2>1 DEF Observed, Observe, Open
    <3>2. TextIn(ev) = <<>> /\ IsPlain(ev) = TRUE /\ ~IsRefusal(ev)
      BY <2>1 DEF TextIn, IsPlain, IsRefusal
    <3> QED
      BY <1>0, <1>1, <1>4, <1>e, <1>s, <3>1, <3>2, PlainTracks
  <2>2. CASE ev.kind # "done"
    <3>1. \E reason \in Reasons : q = refuse(p, reason)
      BY <1>2, <1>4, <2>2 DEF Observed, Observe, Open, BareLines, Reasons
    <3> QED
      BY <1>1, <3>1, RefuseCloses DEF Tracks
  <2> QED
    BY <2>1, <2>2
<1>5. CASE Open(p) /\ ev \in ChatLines
  <2>1. ev.kind = "chat" /\ ev.id = 0 /\ ev.part = 0
    BY <1>5 DEF ChatLines
  <2>2. q = observeChatChunk(p, ev)
    BY <1>2, <1>5, <2>1 DEF Observed, Observe, Open
  <2>3. /\ q \in Accumulators
        /\ Open(q) => /\ q.text = p.text \o TextIn(ev)
                      /\ ~ev.call /\ ~ev.finish
                      /\ TextIn(ev) # <<>> => ev.out = 0
    BY <1>5, <2>2, ChatChunk
  <2> HIDE DEF q
  <2>4. ASSUME Open(q) PROVE Tracks(q, Receive(s, ev))
    <3>1. IsPlain(ev) = TRUE
      BY <2>1, <2>3, <2>4 DEF IsPlain
    <3>2. Identity(p) = <<0, 0, 0>> /\ Identity(q) = <<0, 0, 0>> /\ Bound(q) /\ Surface # "responses"
      BY <1>0, <1>5 DEF Identity, Bound
    <3>3. TextIn(ev) # <<>> => <<ev.id, ev.out, ev.part>> = <<0, 0, 0>>
      BY <2>1, <2>3, <2>4
    <3> QED
      BY <1>0, <1>5, <1>s, <2>3, <2>4, <3>1, <3>2, <3>3, PlainTracks
  <2> QED
    BY <1>1, <2>3, <2>4 DEF Tracks, q
<1>6. CASE Open(p) /\ ev \in ResponsesLines
  <2>1. ev.kind = "responses" /\ Surface = "responses"
    BY <1>0, <1>6 DEF ResponsesLines
  <2>2. CASE ev.type = "completed"
    <3> DEFINE m == [ev EXCEPT !.type = "metadata"]
    <3>1. m.kind = "responses" /\ m.type = "metadata"
      BY <1>6 DEF ResponsesLines
    <3>2. q = p
      BY <1>2, <1>6, <2>1, <2>2, <3>1 DEF Observed, Observe, Open, observeResponsesEvent
    <3>3. TextIn(ev) = <<>> /\ IsPlain(ev) = TRUE /\ ~IsRefusal(ev)
      BY <2>1, <2>2 DEF TextIn, IsPlain, IsRefusal
    <3> QED
      BY <1>0, <1>1, <1>6, <1>e, <1>s, <3>2, <3>3, PlainTracks
  <2>3. CASE ev.type # "completed"
    <3>1. q = observeResponsesEvent(p, ev)
      BY <1>2, <1>6, <2>1, <2>3 DEF Observed, Observe, Open
    <3>2. /\ q \in Accumulators
          /\ Open(q) => /\ q.text = p.text \o TextIn(ev) /\ Keeps(p, q)
                        /\ ev.type \notin {"output_text.done", "call_arguments", "failed", "misnamed"}
                        /\ ~IsRefusal(ev)
                        /\ TextIn(ev) # <<>> => /\ Absent \notin {ev.id, ev.out, ev.part}
                                                /\ q.item = <<ev.id, ev.out>> /\ q.part = ev.part
      BY <3>1, <1>6, ResponsesEvent
    <3> HIDE DEF q
    <3>3. ASSUME Open(q) PROVE Tracks(q, Receive(s, ev))
      <4>1. IsPlain(ev) = TRUE
        BY <2>1, <3>2, <3>3 DEF IsPlain
      <4>2. Bound(p) => Identity(q) = Identity(p) /\ Bound(q)
        BY <2>1, <3>2, <3>3 DEF Bound, Identity, Keeps
      <4>3. s.outputs \subseteq {Identity(q)} /\ (s.outputs # {} => Bound(q))
        BY <1>6, <1>s, <4>2
      <4>4. TextIn(ev) # <<>> => <<ev.id, ev.out, ev.part>> = Identity(q) /\ Bound(q)
        BY <2>1, <3>2, <3>3 DEF Identity, Bound
      <4> QED
        BY <1>0, <1>6, <3>2, <3>3, <4>1, <4>3, <4>4, PlainTracks
    <3> QED
      BY <1>1, <3>2, <3>3 DEF Tracks, q
  <2> QED
    BY <2>2, <2>3
<1> QED
  BY <1>0, <1>3, <1>4, <1>5, <1>6

\* So does a whole event, or none.
LEMMA ShowTracks ==
    ASSUME NEW p \in Accumulators, NEW s \in Views, Tracks(p, s),
           Surface \in Surfaces, NEW ev \in Lines
    PROVE  /\ Observed(p, ev) \in Accumulators /\ Show(s, ev) \in Views
           /\ Tracks(Observed(p, ev), Show(s, ev))
<1>1. CASE ev = NoEvent
  BY <1>1 DEF Observed, Show
<1>2. CASE ev # NoEvent
  <2>1. ev \in EventsOf[Surface]
    BY <1>2 DEF Lines
  <2>2. /\ Observed(p, ev) \in Accumulators /\ Receive(s, ev) \in Views
        /\ Tracks(Observed(p, ev), Receive(s, ev))
    BY <2>1, LineTracks
  <2> QED
    BY <1>2, <2>2, DispatchTracks DEF Show
<1> QED
  BY <1>1, <1>2

\* So does the line a pass is broken off in.
LEMMA TailTracks ==
    ASSUME NEW p \in Accumulators, NEW s \in Views, Tracks(p, s),
           Surface \in Surfaces, NEW tail \in Tails
    PROVE  /\ Observed(p, tail) \in Accumulators /\ ShowTail(s, tail) \in Views
           /\ Tracks(Observed(p, tail), ShowTail(s, tail))
<1>0. NoEvent # OtherLine
  BY DEF NoEvent, OtherLine
<1>1. CASE tail = OtherLine
  <2>1. Observed(p, tail) = p
    BY <1>1 DEF Observed
  <2>2. CASE Surface = "messages"
    BY <1>0, <1>1, <2>1, <2>2 DEF ShowTail
  <2>3. CASE Surface # "messages" /\ s.held # <<>>
    <3>1. ShowTail(s, tail) = Join(s)
      BY <1>0, <1>1, <2>3 DEF ShowTail
    <3> QED
      BY <2>1, <3>1, JoinTracks
  <2>4. CASE Surface # "messages" /\ s.held = <<>>
    <3> DEFINE h == <<<<>>>>
               u == [s EXCEPT !.held = h]
    <3>1. ShowTail(s, tail) = u
      BY <1>0, <1>1, <2>4 DEF ShowTail
    <3>2. <<>> \in Seq(STRING)
      OBVIOUS
    <3>3. h \in Seq(Seq(STRING)) /\ Len(h) = 1 /\ h[1] = <<>>
      BY <3>2, HeldSeqs
    <3> HIDE DEF h
    <3>4. /\ u \in Views /\ u.text = s.text /\ u.held = h /\ u.lost = s.lost /\ u.plain = s.plain
          /\ u.refusal = s.refusal /\ u.outputs = s.outputs
      BY <3>3 DEF Views
    <3> HIDE DEF u
    <3>5. HeldText(u) = <<>> /\ HeldText(s) = <<>>
      BY <2>4, <3>3, <3>4 DEF HeldText
    <3>6. Readable(u) = Readable(s)
      BY <3>4, <3>5 DEF Readable
    <3> QED
      BY <2>1, <3>1, <3>4, <3>6 DEF Tracks
  <2> QED
    BY <2>2, <2>3, <2>4
<1>2. CASE tail # OtherLine
  <2>1. tail \in Lines
    <3>1. TailsOf[Surface] \subseteq EventsOf[Surface] \cup {OtherLine}
      BY DialectAssumption
    <3> QED
      BY <1>2, <3>1 DEF Tails, Lines
  <2>2. CASE Surface = "messages"
    <3>1. ShowTail(s, tail) = Show(s, tail)
      BY <1>2, <2>2 DEF ShowTail, Show
    <3> QED
      BY <2>1, <3>1, ShowTracks
  <2>3. CASE Surface # "messages" /\ tail = NoEvent
    BY <1>0, <2>3 DEF ShowTail, Observed
  <2>4. CASE Surface # "messages" /\ tail # NoEvent
    <3>1. ShowTail(s, tail) = Receive(s, tail) /\ tail \in EventsOf[Surface]
      BY <1>2, <2>1, <2>4 DEF ShowTail, Lines
    <3> QED
      BY <3>1, LineTracks
  <2> QED
    BY <2>2, <2>3, <2>4
<1> QED
  BY <1>1, <1>2

\* A new pass starts with fresh identities and nothing shown of it yet.
LEMMA PassTracks ==
    ASSUME NEW p \in Accumulators, NEW s \in Views, Tracks(p, s), s.outputs = {},
           NEW dispatches \in BOOLEAN
    PROVE  LET q == beginUpstreamStream(p)
               t == Resumed(s, dispatches)
           IN  q \in Accumulators /\ t \in Views /\ Tracks(q, t)
<1> DEFINE a == [p EXCEPT !.passStart = Len(p.text)]
           b == [a EXCEPT !.itemSeen = FALSE]
           c == [b EXCEPT !.item = <<Absent, Absent>>]
           q == [c EXCEPT !.part = Absent]
           t == Resumed(s, dispatches)
<1>0. Absent \in Int /\ Len(p.text) \in Nat
  BY DEF Absent, Accumulators
<1>1. beginUpstreamStream(p) = q
  BY DEF beginUpstreamStream
<1>2. a \in Accumulators /\ a.text = p.text /\ a.unsafe = p.unsafe /\ a.terminal = p.terminal
  BY <1>0, SetPassStart
<1> HIDE DEF a
<1>3. b \in Accumulators /\ b.text = p.text /\ b.unsafe = p.unsafe /\ b.terminal = p.terminal
  BY <1>2, SetItemSeen
<1> HIDE DEF b
<1>4. c \in Accumulators /\ c.text = p.text /\ c.unsafe = p.unsafe /\ c.terminal = p.terminal
  BY <1>0, <1>3, SetItem
<1> HIDE DEF c
<1>5. q \in Accumulators /\ q.text = p.text /\ q.unsafe = p.unsafe /\ q.terminal = p.terminal
  BY <1>0, <1>4, SetPart
<1> HIDE DEF q
<1>6. t \in Views /\ Tracks(p, t) /\ t.outputs = {}
  <2>1. t \in {Dispatch(s), s, Join(s)}
    BY DEF Resumed
  <2> QED
    BY <2>1, DispatchTracks, JoinTracks
<1> HIDE DEF t
<1>7. Tracks(q, t)
  BY <1>5, <1>6 DEF Tracks, Matches, Open
<1> QED
  BY <1>1, <1>5, <1>6, <1>7 DEF t

\* The text a continuation body ends with, by surface.
LEMMA ChatAsks ==
    ASSUME NEW b, NEW n \in Nat, b.turns \in Seq([role : STRING, text : Seq(STRING)]), n = Len(b.turns),
           NEW t \in Seq(STRING), BuildContinuationChat(b, t).ok
    PROVE  LET turns == BuildContinuationChat(b, t).turns
           IN  turns[Len(turns)].text =
                   (IF n > 0 /\ b.turns[n].role = "assistant" THEN b.turns[n].text ELSE <<>>) \o t
<1> DEFINE turn == [role |-> "assistant", text |-> t]
           last == b.turns[n]
           grown == last.text \o t
           long == [last EXCEPT !.text = grown]
<1>0. /\ b.shape = "conversation" /\ t # <<>> /\ n > 0
      /\ BuildContinuationChat(b, t) =
             IF last.role = "assistant" THEN Built([b.turns EXCEPT ![n].text = @ \o t])
             ELSE Built(Append(b.turns, turn))
  BY DEF BuildContinuationChat, Refused
<1>1. last \in [role : STRING, text : Seq(STRING)]
  <2> DEFINE Turns == [role : STRING, text : Seq(STRING)]
  <2>1. b.turns \in Seq(Turns) /\ n \in 1..Len(b.turns)
    BY <1>0
  <2> HIDE DEF Turns
  <2>2. b.turns[n] \in Turns
    BY <2>1, ElementOfSeq
  <2> QED
    BY <2>2 DEF Turns
<1>2. CASE last.role = "assistant"
  <2>1. BuildContinuationChat(b, t).turns = [b.turns EXCEPT ![n] = long]
    BY <1>0, <1>2 DEF Built
  <2>2. grown \in Seq(STRING)
    BY <1>1
  <2> HIDE DEF grown, last
  <2>3. long \in [role : STRING, text : Seq(STRING)] /\ long.text = grown
    BY <1>1, <2>2
  <2> HIDE DEF long
  <2>4. /\ Len([b.turns EXCEPT ![n] = long]) = n
        /\ [b.turns EXCEPT ![n] = long][n] = long
    BY <1>0, <2>3
  <2> QED
    BY <1>0, <1>2, <2>1, <2>3, <2>4 DEF grown, last
<1>3. CASE last.role # "assistant"
  <2>1. BuildContinuationChat(b, t).turns = Append(b.turns, turn)
    BY <1>0, <1>3 DEF Built
  <2> HIDE DEF turn
  <2>2. /\ Len(Append(b.turns, turn)) = n + 1
        /\ Append(b.turns, turn)[n + 1] = turn
    <3>1. b.turns \in Seq([role : STRING, text : Seq(STRING)] \cup {turn})
      BY SeqMonotonic
    <3> QED
      BY <3>1
  <2>3. <<>> \o t = t
    OBVIOUS
  <2>4. turn.text = t
    BY DEF turn
  <2> QED
    BY <1>0, <1>3, <2>1, <2>2, <2>3, <2>4
<1> QED
  BY <1>2, <1>3

\* A Responses continuation carries the text just before its last turn.
LEMMA ResponsesAsks ==
    ASSUME NEW b, b.turns \in Seq([role : STRING, text : Seq(STRING)]),
           NEW t \in Seq(STRING), BuildContinuationResponses(b, t).ok
    PROVE  LET turns == BuildContinuationResponses(b, t).turns
           IN  turns[Len(turns) - 1].text = t
<1> DEFINE turn == [role |-> "assistant", text |-> t]
           more == [role |-> "user", text |-> <<"continue">>]
<1>1. BuildContinuationResponses(b, t).turns = b.turns \o <<turn, more>>
  BY DEF BuildContinuationResponses, Refused, Built
<1>2. turn.text = t
  OBVIOUS
<1> HIDE DEF turn, more
<1> DEFINE All == [role : STRING, text : Seq(STRING)] \cup {turn, more}
<1>3. b.turns \in Seq(All) /\ <<turn, more>> \in Seq(All)
  <2>1. b.turns \in Seq(All)
    BY SeqMonotonic
  <2>2. turn \in All /\ more \in All
    OBVIOUS
  <2> HIDE DEF All
  <2> QED
    BY <2>1, <2>2
<1> HIDE DEF All
<1>4. /\ Len(b.turns \o <<turn, more>>) = Len(b.turns) + 2
      /\ (b.turns \o <<turn, more>>)[Len(b.turns) + 1] = turn
  BY <1>3
<1> QED
  BY <1>1, <1>2, <1>3, <1>4

-----------------------------------------------------------------------------
(* A hop asks for the continuation of what the client saw.                 *)

\* The inductive invariant: the accumulator against the client's view, and
\* the hop under way against both.
PrefixInv ==
    /\ body \in Bodies
    /\ partial \in Accumulators /\ shown \in Views /\ Tracks(partial, shown)
    /\ pc # "relay" => shown.outputs = {}
    /\ PrefixHoldsWhatClientSaw

\* Nothing accumulated and nothing seen agree.
LEMMA FreshTexts ==
    /\ newPartialText \in Accumulators /\ ShownNothing \in Views
    /\ Tracks(newPartialText, ShownNothing) /\ ShownNothing.outputs = {}
<1>0. <<>> \in Seq(STRING) /\ <<>> \in Seq(Seq(STRING)) /\ Len(<<>>) = 0
  BY HeldSeqs
<1>1. newPartialText \in Accumulators
  BY <1>0 DEF newPartialText, Accumulators, Absent
<1>2. ShownNothing \in Views /\ ShownNothing.outputs = {}
  BY <1>0 DEF ShownNothing, Views
<1>3. Readable(ShownNothing) = <<>>
  BY <1>0 DEF Readable, HeldText, ShownNothing
<1>4. newPartialText.text = <<>>
  BY DEF newPartialText
<1>5. Matches(Readable(ShownNothing), ShownNothing.lost, newPartialText)
  BY <1>0, <1>3, <1>4, InOrderEmpty DEF Matches
<1>6. ShownNothing.plain /\ ~ShownNothing.refusal
  BY DEF ShownNothing
<1>7. Tracks(newPartialText, ShownNothing)
  BY <1>2, <1>5, <1>6 DEF Tracks
<1> QED
  BY <1>1, <1>2, <1>7

\* The initial states satisfy it.
LEMMA InitPrefix == Init => PrefixInv
<1> SUFFICES ASSUME Init PROVE PrefixInv
  OBVIOUS
<1>1. body \in Bodies /\ pc = "start" /\ partial = newPartialText /\ shown = ShownNothing
  BY DEF Init
<1> QED
  BY <1>1, FreshTexts DEF PrefixInv, PrefixHoldsWhatClientSaw

\* A body states one of the three surfaces and a conversation, and its
\* prefill is a text.
LEMMA BodyType ==
    ASSUME body \in Bodies
    PROVE  /\ Surface \in Surfaces /\ body.turns \in Seq([role : STRING, text : Seq(STRING)])
           /\ Prefill \in Seq(STRING)
<1> DEFINE Turns == [role : STRING, text : Seq(STRING)]
           n == Len(body.turns)
<1>1. body \in [surface : Surfaces, shape : STRING, strips : BOOLEAN, turns : Seq(Turns)]
  BY DialectAssumption
<1>2. Surface \in Surfaces /\ body.turns \in Seq(Turns)
  BY <1>1 DEF Surface
<1>3. n > 0 => body.turns[n].text \in Seq(STRING)
  <2> HIDE DEF Turns
  <2>1. n > 0 => body.turns[n] \in Turns
    BY <1>2, ElementOfSeq
  <2> QED
    BY <2>1 DEF Turns
<1>4. <<>> \in Seq(STRING)
  OBVIOUS
<1>5. Prefill \in Seq(STRING)
  BY <1>3, <1>4 DEF Prefill
<1> QED
  BY <1>2, <1>5

\* Requesting a continuation: the gates were passed, so the accumulator is
\* open, and the body built ends with its text.
LEMMA ContinuePrefix ==
    ASSUME PrefixInv, Continue
    PROVE  PrefixInv'
<1> USE DEF request, stream
<1>1. /\ UNCHANGED <<body, partial, shown>> /\ hopBody' = BuildContinuation
      /\ pc = "gates" /\ pc' = "hop"
  BY DEF Continue
<1>2. /\ Surface \in Surfaces /\ body.turns \in Seq([role : STRING, text : Seq(STRING)])
      /\ Prefill \in Seq(STRING)
  BY BodyType DEF PrefixInv
<1>3. /\ shown.plain /\ (shown.refusal => Surface # "responses")
      /\ Matches(Readable(shown), shown.lost, partial)
  <2>1. Verdict(partial).kind # "terminal" /\ Verdict(partial).kind # "unsafe"
    BY DEF Continue, Gate
  <2>2. partial.unsafe = "none" /\ ~partial.terminal
    BY <2>1 DEF Verdict
  <2> QED
    BY <2>2 DEF PrefixInv, Tracks, Open
<1>4. /\ partial.text \in Seq(STRING) /\ shown.text \in Seq(STRING)
      /\ HeldText(shown) \in Seq(STRING)
  BY HeldType DEF PrefixInv, Accumulators, Views
<1>5. Surface' = Surface /\ Prefill' = Prefill
  BY <1>1 DEF Surface, Prefill
<1>6. BuildContinuation.ok
  BY DEF Continue
<1>7. Surface # "messages"
  BY <1>6 DEF BuildContinuation, BuildContinuationMessages, Refused
<1>8. AskedFrom' = Prefill \o partial.text
  <2>1. CASE Surface = "chat"
    <3>1. hopBody' = BuildContinuationChat(body, partial.text) /\ hopBody'.ok
      BY <1>1, <1>6, <2>1 DEF BuildContinuation
    <3>2. Len(body.turns) \in Nat
      BY <1>2
    <3>3. hopBody'.turns[Len(hopBody'.turns)].text =
             (IF Len(body.turns) > 0 /\ body.turns[Len(body.turns)].role = "assistant"
              THEN body.turns[Len(body.turns)].text ELSE <<>>) \o partial.text
      BY <1>2, <1>4, <3>1, <3>2, ChatAsks
    <3>4. Prefill = IF Len(body.turns) > 0 /\ body.turns[Len(body.turns)].role = "assistant"
                    THEN body.turns[Len(body.turns)].text ELSE <<>>
      BY <2>1 DEF Prefill
    <3> QED
      BY <1>5, <2>1, <3>3, <3>4 DEF AskedFrom
  <2>2. CASE Surface = "responses"
    <3>1. hopBody' = BuildContinuationResponses(body, partial.text) /\ hopBody'.ok
      BY <1>1, <1>6, <2>2 DEF BuildContinuation
    <3>2. hopBody'.turns[Len(hopBody'.turns) - 1].text = partial.text
      BY <1>2, <1>4, <3>1, ResponsesAsks
    <3>3. Prefill = <<>> /\ <<>> \o partial.text = partial.text
      BY <1>4, <2>2 DEF Prefill
    <3> QED
      BY <1>5, <2>2, <3>2, <3>3 DEF AskedFrom
  <2> QED
    BY <1>2, <1>7, <2>1, <2>2 DEF Surfaces
<1>9. InOrder(Prefill \o shown.text, Prefill \o partial.text)
  <2>1. InOrder(shown.text, partial.text)
    BY <1>3, <1>4, InOrderPart DEF Matches, Readable
  <2> QED
    BY <1>2, <1>4, <2>1, InOrderSelf, InOrderConcat
<1>10. ~body.strips /\ ~shown.lost =>
           Prefill \o partial.text = Prefill \o shown.text \o HeldText(shown)
  <2>1. ~body.strips /\ ~shown.lost => partial.text = shown.text \o HeldText(shown)
    BY <1>3 DEF Matches, Readable
  <2>2. Prefill \o (shown.text \o HeldText(shown)) = Prefill \o shown.text \o HeldText(shown)
    <3> DEFINE a == Prefill
               b == shown.text
               c == HeldText(shown)
    <3> SUFFICES a \o (b \o c) = a \o b \o c
      OBVIOUS
    <3>1. a \in Seq(STRING) /\ b \in Seq(STRING) /\ c \in Seq(STRING)
      BY <1>2, <1>4
    <3> HIDE DEF a, b, c
    <3> QED
      BY <3>1
  <2> QED
    BY <2>1, <2>2
<1>11. shown.refusal => Surface = "chat"
  BY <1>2, <1>3, <1>7 DEF Surfaces
<1>12. PrefixHoldsWhatClientSaw'
  BY <1>1, <1>3, <1>5, <1>8, <1>9, <1>10, <1>11 DEF PrefixHoldsWhatClientSaw
<1>13. Tracks(partial, shown)'
  BY <1>1, <1>5 DEF PrefixInv, Tracks, Matches, Identity, Bound
<1> QED
  BY <1>1, <1>12, <1>13 DEF PrefixInv

\* What a step must do to feed the accumulator.
LEMMA Fed ==
    ASSUME PrefixInv, body' = body, pc' \notin {"hop", "claim", "dial", "answer"},
           partial' \in Accumulators, shown' \in Views, Tracks(partial', shown'),
           pc' # "relay" => shown'.outputs = {}
    PROVE  PrefixInv'
<1>1. Tracks(partial, shown)'
  BY DEF Tracks, Matches, Identity, Bound, Surface
<1> QED
  BY <1>1 DEF PrefixInv, PrefixHoldsWhatClientSaw

\* Leaving the loop releases the texts.
LEMMA LeavePrefix ==
    ASSUME PrefixInv, body' = body, LeaveLoop
    PROVE  PrefixInv'
<1>1. partial' = newPartialText /\ shown' = ShownNothing /\ pc' = "finish"
  BY DEF LeaveLoop, Released
<1> QED
  BY <1>1, FreshTexts, Fed

\* The steps of a pass.
LEMMA FeedPrefix ==
    ASSUME PrefixInv,
           StartPass \/ (\E ev \in Lines : ReadChunk(ev))
    PROVE  PrefixInv'
<1> USE DEF request, loop, record
<1>1. CASE StartPass
  <2>1. body' = body /\ pc = "start" /\ pc' = "relay" /\ partial' = beginUpstreamStream(partial)
    BY <1>1 DEF StartPass
  <2>2. PICK dispatches \in BOOLEAN : shown' = Resumed(shown, dispatches)
    BY <1>1 DEF StartPass
  <2>3. partial' \in Accumulators /\ shown' \in Views /\ Tracks(partial', shown')
    BY <2>1, <2>2, PassTracks DEF PrefixInv
  <2> QED
    BY <2>1, <2>3, Fed
<1>2. CASE \E ev \in Lines : ReadChunk(ev)
  <2> PICK ev \in Lines : ReadChunk(ev)
    BY <1>2
  <2>1. /\ body' = body /\ pc = "relay" /\ pc' = "relay"
        /\ partial' = Observed(partial, ev) /\ shown' = Show(shown, ev)
    BY DEF ReadChunk
  <2>2. partial' \in Accumulators /\ shown' \in Views /\ Tracks(partial', shown')
    BY <2>1, BodyType, ShowTracks DEF PrefixInv
  <2> QED
    BY <2>1, <2>2, Fed
<1> QED
  BY <1>1, <1>2

\* The end of a pass.
LEMMA EndPrefix ==
    ASSUME PrefixInv, NEW how, NEW tail \in Tails, EndPass(how, tail)
    PROVE  PrefixInv'
<1> USE DEF request, record
<1>1. body' = body
  BY DEF EndPass
<1>2. CASE LeaveLoop
  BY <1>1, <1>2, LeavePrefix
<1>3. CASE ~LeaveLoop
  <2>1. /\ pc' = "gates" /\ partial' = Observed(partial, tail)
        /\ shown' = Ended(ShowTail(shown, tail))
    BY <1>3 DEF EndPass
  <2>2. /\ Observed(partial, tail) \in Accumulators /\ ShowTail(shown, tail) \in Views
        /\ Tracks(Observed(partial, tail), ShowTail(shown, tail))
    BY BodyType, TailTracks DEF PrefixInv
  <2>3. /\ shown' \in Views /\ Tracks(partial', shown') /\ shown'.outputs = {}
    BY <2>1, <2>2, EndedTracks
  <2> QED
    BY <1>1, <2>1, <2>2, <2>3, Fed
<1> QED
  BY <1>2, <1>3

\* Every other step leaves the texts alone, enters a hop from a hop only and
\* a relay from a relay only.
LEMMA RestPrefix ==
    ASSUME PrefixInv, UNCHANGED <<body, texts>>,
           pc' \in {"hop", "claim", "dial", "answer"} => pc \in {"hop", "claim", "dial", "answer"},
           pc' # "relay" => pc # "relay"
    PROVE  PrefixInv'
<1> USE DEF texts
<1>1. Tracks(partial, shown)'
  BY DEF PrefixInv, Tracks, Matches, Identity, Bound, Surface
<1>2. AskedFrom' = AskedFrom /\ Prefill' = Prefill /\ Surface' = Surface
  BY DEF AskedFrom, Prefill, Surface
<1> QED
  BY <1>1, <1>2 DEF PrefixInv, PrefixHoldsWhatClientSaw

\* The loop's gates.
LEMMA GatePrefix ==
    ASSUME PrefixInv, StopAtGate \/ StopAtClock \/ StopAtBudget
    PROVE  PrefixInv'
<1>1. body' = body /\ LeaveLoop
  BY DEF StopAtGate, StopAtClock, StopAtBudget, request
<1> QED
  BY <1>1, LeavePrefix

\* The steps of a hop.
LEMMA HopPrefix ==
    ASSUME PrefixInv,
           \/ BindHop \/ RefuseHop \/ ClaimExchange
           \/ (\E how \in {"peer", "cancelled", "client"} : DialFails(how))
           \/ DialAnswers \/ RefuseAnswer \/ AcceptAnswer
    PROVE  PrefixInv'
<1> USE DEF request, loop, stream
<1>1. CASE BindHop
  <2>1. body' = body /\ (LeaveLoop \/ (pc = "hop" /\ pc' = "claim" /\ UNCHANGED texts))
    BY <1>1 DEF BindHop
  <2> QED
    BY <2>1, LeavePrefix, RestPrefix
<1>2. CASE RefuseHop \/ RefuseAnswer \/ (\E how \in {"peer", "cancelled", "client"} : DialFails(how))
  <2>1. body' = body /\ LeaveLoop
    BY <1>2 DEF RefuseHop, RefuseAnswer, DialFails
  <2> QED
    BY <2>1, LeavePrefix
<1>3. CASE ClaimExchange
  BY <1>3, RestPrefix DEF ClaimExchange
<1>4. CASE DialAnswers
  <2>1. body' = body /\ (LeaveLoop \/ (pc = "dial" /\ pc' = "answer" /\ UNCHANGED texts))
    BY <1>4 DEF DialAnswers
  <2> QED
    BY <2>1, LeavePrefix, RestPrefix
<1>5. CASE AcceptAnswer
  BY <1>5, RestPrefix DEF AcceptAnswer
<1> QED
  BY <1>1, <1>2, <1>3, <1>4, <1>5

\* Every step keeps it.
LEMMA NextPrefix == PrefixInv /\ [Next]_vars => PrefixInv'
<1> SUFFICES ASSUME PrefixInv, [Next]_vars PROVE PrefixInv'
  OBVIOUS
<1> USE DEF request, loop, stream, record, window
<1>1. CASE StartPass \/ (\E ev \in Lines : ReadChunk(ev))
  BY <1>1, FeedPrefix
<1>2. CASE Continue
  BY <1>2, ContinuePrefix
<1>3. CASE \/ \E tail \in Tails : ReadLate(tail)
           \/ \E how \in Causes, tail \in Tails : ReadEnds(how, tail)
  BY <1>3, EndPrefix DEF ReadLate, ReadEnds
<1>4. CASE StopAtGate \/ StopAtClock \/ StopAtBudget
  BY <1>4, GatePrefix
<1>5. CASE \/ BindHop \/ RefuseHop \/ ClaimExchange
           \/ (\E how \in {"peer", "cancelled", "client"} : DialFails(how))
           \/ DialAnswers \/ RefuseAnswer \/ AcceptAnswer
  BY <1>5, HopPrefix
<1>6. CASE Finish
  <2>1. UNCHANGED <<body, texts>> /\ pc = "finish" /\ pc' = "done"
    BY <1>6 DEF Finish
  <2> QED
    BY <2>1, RestPrefix
<1>7. CASE (\E g \in timers : Wake(g)) \/ (\E g \in runnable : fire(g)) \/ (\E t \in trips : RunTrip(t))
  BY <1>7, RestPrefix DEF Wake, fire, RunTrip
<1>8. CASE Tick \/ ClientLeaves \/ EnvelopeLapses \/ Done \/ UNCHANGED vars
  BY <1>8, RestPrefix DEF Tick, ClientLeaves, EnvelopeLapses, Done, vars, texts
<1> QED
  BY <1>1, <1>2, <1>3, <1>4, <1>5, <1>6, <1>7, <1>8 DEF Next, Handler

\* A hop asks the upstream to continue a text that holds, in order and after
\* the client's prefill, every piece the client could read over all the
\* passes - exactly that and the event the client still holds, unless a strip
\* path or a join kept something from it - and it is requested only while
\* nothing but text of one output per pass, and on Chat refusals, went out.
THEOREM HopContinuesWhatClientSaw == Spec => []PrefixHoldsWhatClientSaw
<1>1. Spec => []PrefixInv
  BY InitPrefix, NextPrefix, PTL DEF Spec
<1>2. PrefixInv => PrefixHoldsWhatClientSaw
  BY DEF PrefixInv
<1> QED
  BY <1>1, <1>2, PTL
=============================================================================
