----------------------- MODULE ProcessLifecycleProofs -----------------------
(***************************************************************************)
(* The process drains within its grace, closes its port only after a load  *)
(* balancer that probes in time knows, and is quiet once the drain is      *)
(* announced, for every grace, probe interval, file history and number of  *)
(* signals.                                                                *)
(***************************************************************************)
EXTENDS ProcessLifecycle, TLAPS

(* The timers, the probe and the readiness have their types. *)
TimesOK ==
  /\ left \in Nat /\ elapsed \in Nat /\ sinceProbe \in Nat
  /\ probe \in [answer : {"none", "ready", "unready"}, age : Nat]
  /\ lc \in {"starting", "ready", "draining", "stopped"}

(* Elapsed time and timer share out the head start, then the grace. *)
ClockInv ==
  /\ server \in {"boot", "listening", "marking", "serving"} => elapsed = 0
  /\ server = "headstart" => left + elapsed = HeadStart
  /\ server = "draining" => left + elapsed <= Grace
  /\ elapsed <= Grace

(* A probe under way is as old as the last probe's start. In the head      *)
(* start, an answer that still says ready is at least as old as the drain, *)
(* and a load balancer that still believes it has a probe due or under     *)
(* way; when Shutdown closes the listener there is none of either left.    *)
ProbeInv ==
  /\ sinceProbe <= ProbeEvery
  /\ probe.answer # "none" => probe.age = sinceProbe /\ probe.age <= ProbeTimeout
  /\ server \in {"headstart", "draining"} => lc # "ready"
  /\ server = "headstart" =>
       /\ probe.answer = "ready" => elapsed <= probe.age
       /\ view /\ probe.answer = "none" => elapsed <= sinceProbe
       /\ view /\ probe.answer = "unready" => elapsed <= ProbeEvery + probe.age
  /\ server = "draining" /\ result = "closed" =>
       (ProbeEvery + ProbeTimeout < HeadStart => ~view /\ probe.answer # "ready")
  /\ server = "draining" => listener # "open"

(* main goes on only after the poller is gone. *)
JoinInv == main \in {"ignoring", "announced"} => poller = "done"

-----------------------------------------------------------------------------
(* The head start and the drain's budget are parts of the grace. *)
LEMMA Shares ==
  /\ HeadStart \in Nat /\ HeadStart <= Grace
  /\ DrainBudget \in Nat /\ HeadStart + DrainBudget = Grace
<1>1. Grace \in Nat /\ Propagation \in Nat
  BY LifecycleAssumption
<1>2. Grace \div 2 \in Nat /\ Grace \div 2 <= Grace
  BY <1>1
<1>3. HeadStart \in Nat /\ HeadStart <= Grace
  BY <1>1, <1>2 DEF HeadStart
<1> QED
  BY <1>1, <1>3 DEF DrainBudget

(* The steps that touch none of the timers, the readiness and the probes. *)
Elsewhere ==
  \/ Edit \/ PollReads \/ PollJudges \/ PollStops
  \/ Signal \/ FirstSignal \/ SecondSignal \/ Decide \/ ForceExit \/ WatcherLeaves
  \/ RunReturned \/ Join \/ Announce \/ Exit \/ UNCHANGED vars

(* They leave the server and the load balancer alone. *)
LEMMA ElsewhereSame == Elsewhere => UNCHANGED <<serverVars, lbVars>>
BY DEF Elsewhere, Edit, PollReads, PollJudges, PollStops, Signal, FirstSignal, SecondSignal, Decide,
       ForceExit, WatcherLeaves, RunReturned, Join, Announce, Exit, vars, serverVars, lbVars

(* Types. *)
LEMMA TimesStep == TimesOK /\ [Next]_vars => TimesOK'
<1> SUFFICES ASSUME TimesOK, [Next]_vars PROVE TimesOK'
  OBVIOUS
<1> USE Shares DEF serverVars, lbVars, TimesOK
<1>1. CASE Elsewhere
  BY <1>1, ElsewhereSame
<1>2. CASE Listen \/ CheckContext \/ ServeDies \/ RequestArrives \/ RequestEnds
  BY <1>2 DEF Listen, CheckContext, ServeDies, RequestArrives, RequestEnds
<1>3. CASE MarkReady \/ ServeFailed \/ DrainOver
  BY <1>3 DEF MarkReady, markReady, ServeFailed, DrainOver, markStopped
<1>4. CASE SeeCancel
  BY <1>4 DEF SeeCancel, beginDraining
<1>5. CASE Shutdown
  BY <1>5 DEF Shutdown
<1>6. CASE ProbeStarts \/ ProbeAnswers \/ ProbeRefused
  BY <1>6 DEF ProbeStarts, ProbeAnswers, ProbeRefused
<1>7. CASE Tick
  BY <1>7 DEF Tick
<1> QED
  BY <1>1, <1>2, <1>3, <1>4, <1>5, <1>6, <1>7 DEF Next, Elsewhere

(* The clock's invariant: a tick moves what is left to what has elapsed.   *)
LEMMA ClockStep == TimesOK /\ ClockInv /\ [Next]_vars => ClockInv'
<1> SUFFICES ASSUME TimesOK, ClockInv, [Next]_vars PROVE ClockInv'
  OBVIOUS
<1> USE LifecycleAssumption, Shares DEF serverVars, lbVars, ClockInv
<1>1. CASE Elsewhere
  BY <1>1, ElsewhereSame
<1>2. CASE Listen \/ CheckContext \/ ServeDies \/ RequestArrives \/ RequestEnds
  BY <1>2 DEF Listen, CheckContext, ServeDies, RequestArrives, RequestEnds
<1>3. CASE MarkReady \/ ServeFailed \/ DrainOver
  BY <1>3 DEF MarkReady, ServeFailed, DrainOver
<1>4. CASE SeeCancel
  BY <1>4 DEF SeeCancel
<1>5. CASE Shutdown
  BY <1>5 DEF Shutdown, TimesOK
<1>6. CASE ProbeStarts \/ ProbeAnswers \/ ProbeRefused
  BY <1>6 DEF ProbeStarts, ProbeAnswers, ProbeRefused
<1>7. CASE Tick
  BY <1>7 DEF Tick, ServerPrompt, TimesOK
<1> QED
  BY <1>1, <1>2, <1>3, <1>4, <1>5, <1>6, <1>7 DEF Next, Elsewhere

(* The load balancer's invariant. *)
LEMMA ProbeStep == TimesOK /\ ClockInv /\ ProbeInv /\ [Next]_vars => ProbeInv'
<1> SUFFICES ASSUME TimesOK, ClockInv, ProbeInv, [Next]_vars PROVE ProbeInv'
  OBVIOUS
<1> USE LifecycleAssumption, Shares DEF serverVars, lbVars, ProbeInv
<1>1. CASE Elsewhere
  BY <1>1, ElsewhereSame
<1>2. CASE Listen \/ CheckContext \/ ServeDies \/ RequestArrives \/ RequestEnds
  BY <1>2 DEF Listen, CheckContext, ServeDies, RequestArrives, RequestEnds
<1>3. CASE MarkReady \/ ServeFailed \/ DrainOver
  BY <1>3 DEF MarkReady, ServeFailed, DrainOver
<1>4. CASE SeeCancel
  BY <1>4 DEF SeeCancel, beginDraining, Rank, TimesOK
<1>5. CASE Shutdown
  BY <1>5 DEF Shutdown, TimesOK, ClockInv
<1>6. CASE ProbeStarts
  BY <1>6 DEF ProbeStarts, TimesOK
<1>7. CASE ProbeAnswers
  BY <1>7 DEF ProbeAnswers, TimesOK
<1>8. CASE ProbeRefused
  BY <1>8 DEF ProbeRefused, TimesOK
<1>9. CASE Tick
  BY <1>9 DEF Tick, ServerPrompt, TimesOK
<1> QED
  BY <1>1, <1>2, <1>3, <1>4, <1>5, <1>6, <1>7, <1>8, <1>9 DEF Next, Elsewhere

(* The poller, once joined, is gone. *)
LEMMA JoinStep == JoinInv /\ [Next]_vars => JoinInv'
<1> SUFFICES ASSUME JoinInv, [Next]_vars PROVE JoinInv'
  OBVIOUS
<1> USE DEF JoinInv, pollerVars, mainVars
<1>1. CASE PollReads \/ PollJudges \/ PollStops
  BY <1>1 DEF PollReads, PollJudges, PollStops
<1>2. CASE RunReturned \/ Join \/ Announce \/ Exit
  BY <1>2 DEF RunReturned, Join, Announce, Exit
<1>3. CASE Edit \/ Signal \/ FirstSignal \/ SecondSignal \/ Decide \/ ForceExit \/ WatcherLeaves \/ UNCHANGED vars
  BY <1>3 DEF Edit, Signal, FirstSignal, SecondSignal, Decide, ForceExit, WatcherLeaves, vars
<1>4. CASE \/ Listen \/ CheckContext \/ MarkReady \/ ServeDies \/ ServeFailed
           \/ SeeCancel \/ Shutdown \/ DrainOver \/ RequestArrives \/ RequestEnds
  BY <1>4 DEF Listen, CheckContext, MarkReady, ServeDies, ServeFailed, SeeCancel, Shutdown, DrainOver,
              RequestArrives, RequestEnds
<1>5. CASE ProbeStarts \/ ProbeAnswers \/ ProbeRefused \/ Tick
  BY <1>5 DEF ProbeStarts, ProbeAnswers, ProbeRefused, Tick
<1> QED
  BY <1>1, <1>2, <1>3, <1>4, <1>5 DEF Next

LifecycleInv == TimesOK /\ ClockInv /\ ProbeInv /\ JoinInv

(* The inductive invariant. *)
LEMMA LifecycleInvariant == Spec => []LifecycleInv
<1>1. Init => LifecycleInv
  <2> SUFFICES ASSUME Init PROVE LifecycleInv
    OBVIOUS
  <2>0. /\ server = "boot" /\ lc = "starting" /\ left = 0 /\ elapsed = 0
        /\ sinceProbe = 0 /\ probe = [answer |-> "none", age |-> 0] /\ main = "serving"
    BY Zenon DEF Init
  <2>1. TimesOK /\ ClockInv
    BY <2>0, LifecycleAssumption DEF TimesOK, ClockInv
  <2>2. ProbeInv
    BY <2>0, LifecycleAssumption DEF ProbeInv
  <2>3. JoinInv
    BY <2>0 DEF JoinInv
  <2> QED
    BY <2>1, <2>2, <2>3 DEF LifecycleInv
<1>2. LifecycleInv /\ [Next]_vars => LifecycleInv'
  BY TimesStep, ClockStep, ProbeStep, JoinStep DEF LifecycleInv
<1> QED
  BY <1>1, <1>2, PTL DEF Spec

-----------------------------------------------------------------------------
(* No more than the grace passes between the cancellation and Run's return, *)
(* the head start included (propagation, Run).                             *)
THEOREM DrainsWithinGrace == Spec => []GraceHeld
<1>1. LifecycleInv => GraceHeld
  BY DEF LifecycleInv, ClockInv, GraceHeld
<1> QED
  BY <1>1, LifecycleInvariant, PTL

(* Shutdown closes the listener only after a load balancer that probes     *)
(* within the head start has stopped routing (Run, readyz).                *)
THEOREM ClosedOnlyWhenUnrouted == Spec => []NeverRoutedToClosed
<1>1. LifecycleInv => NeverRoutedToClosed
  BY DEF LifecycleInv, ProbeInv, NeverRoutedToClosed
<1> QED
  BY <1>1, LifecycleInvariant, PTL

(* After the announcement no reload is published and no signal taken or    *)
(* judged later forces the exit (run's join, the watcher's second look).   *)
THEOREM QuietAfterDrain == Spec => QuietExit
<1>1. LifecycleInv /\ [Next]_vars =>
        [DrainDone => /\ snapshot' = snapshot
                      /\ watcher' = "forcing" => watcher = "forcing"]_vars
  <2> SUFFICES ASSUME LifecycleInv, Next, DrainDone
               PROVE  snapshot' = snapshot /\ (watcher' = "forcing" => watcher = "forcing")
    OBVIOUS
  <2> USE DEF pollerVars, signalVars
  <2>1. poller = "done"
    BY DEF LifecycleInv, JoinInv, DrainDone
  <2>2. snapshot' = snapshot
    BY <2>1 DEF Next, Edit, PollReads, PollJudges, PollStops, Listen, CheckContext, MarkReady, ServeDies,
       ServeFailed, SeeCancel, Shutdown, DrainOver, RequestArrives, RequestEnds, Signal, FirstSignal,
       SecondSignal, Decide, ForceExit, WatcherLeaves, RunReturned, Join, Announce, Exit, ProbeStarts,
       ProbeAnswers, ProbeRefused, Tick
  <2>3. watcher' = "forcing" => watcher = "forcing"
    BY DEF Next, Edit, PollReads, PollJudges, PollStops, Listen, CheckContext, MarkReady, ServeDies,
       ServeFailed, SeeCancel, Shutdown, DrainOver, RequestArrives, RequestEnds, Signal, FirstSignal,
       SecondSignal, Decide, ForceExit, WatcherLeaves, RunReturned, Join, Announce, Exit, ProbeStarts,
       ProbeAnswers, ProbeRefused, Tick
  <2> QED
    BY <2>2, <2>3
<1> QED
  BY <1>1, LifecycleInvariant, PTL DEF Spec, QuietExit
=============================================================================
