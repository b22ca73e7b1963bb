-------------------------- MODULE ProcessLifecycle --------------------------
(***************************************************************************)
(* One process from boot to exit: main.go's run (signal watcher, poller    *)
(* join, exit code), server.go's Run (readiness, head start, drain),       *)
(* lifecycle.go's state machine and config/poller.go's reload loop. Around *)
(* it: a file that is edited, a client that keeps requests open, and a     *)
(* load balancer that probes /readyz and routes by the last answer it has. *)
(*                                                                         *)
(* Time passes in ticks, and a timer that is due is served before the next *)
(* tick. The deferred closing of the usage pipeline is in UsagePipeline.   *)
(***************************************************************************)
EXTENDS Naturals

CONSTANTS
  Contents,       \* what the runtime file may hold
  Valid,          \* the contents LoadRuntime accepts
  Boot,           \* the content the process was started with
  Grace,          \* shutdown grace, in ticks
  Propagation,    \* readinessPropagation, in ticks
  ProbeEvery,     \* the load balancer's probe interval
  ProbeTimeout,   \* the longest an answer to a probe takes
  MaxEdits,       \* bound: edits of the file
  MaxSignals      \* bound: signals sent to the process

ASSUME LifecycleAssumption ==
  /\ Boot \in Valid /\ Valid \subseteq Contents /\ "gone" \notin Contents
  /\ Grace \in Nat /\ Propagation \in Nat
  /\ ProbeEvery \in Nat \ {0} /\ ProbeTimeout \in 1..ProbeEvery
  /\ MaxEdits \in Nat /\ MaxSignals \in Nat

VARIABLES
  file, edits,                          \* the runtime file ("gone": unreadable)
  snapshot, last, failing, poller,      \* the store, the poller's locals, its progress
  data,                                 \* what the poller read in this cycle
  cancelled, main, exit,                \* the process context, main's progress, exit
  signals, buffered, watcher,           \* signals sent, in the channel, the watcher's progress
  server, lc, listener, left, inflight, \* Run's progress, readiness, its timer, open requests
  result,                               \* what Serve ended with: "running", "closed", "failed"
  elapsed,                              \* ticks since the server saw the cancellation
  view, sinceProbe, probe               \* the load balancer

fileVars   == <<file, edits>>
pollerVars == <<snapshot, last, failing, poller, data>>
mainVars   == <<cancelled, main, exit>>
signalVars == <<signals, buffered, watcher>>
serverVars == <<server, lc, listener, left, inflight, result, elapsed>>
lbVars     == <<view, sinceProbe, probe>>
vars == <<fileVars, pollerVars, mainVars, signalVars, serverVars, lbVars>>

Running == exit = "running"

Init ==
  /\ file = Boot /\ edits = 0
  /\ snapshot = Boot /\ last = Boot /\ failing = "" /\ poller = "waiting" /\ data = "gone"
  /\ cancelled = FALSE /\ main = "serving" /\ exit = "running"
  /\ signals = 0 /\ buffered = 0 /\ watcher = "first"
  /\ server = "boot" /\ lc = "starting" /\ listener = "none" /\ left = 0 /\ inflight = 0
  /\ result = "running" /\ elapsed = 0
  /\ view = FALSE /\ sinceProbe = 0 /\ probe = [answer |-> "none", age |-> 0]
---------------------------------------------------------------------------
(* config/poller.go *)

(* The operator's editor, or the volume under the file. *)
Edit ==
  /\ Running /\ edits < MaxEdits
  /\ file' \in (Contents \cup {"gone"}) \ {file}
  /\ edits' = edits + 1
  /\ UNCHANGED <<pollerVars, mainVars, signalVars, serverVars, lbVars>>

PollReads ==
  /\ Running /\ poller = "waiting"
  /\ poller' = "read" /\ data' = file
  /\ UNCHANGED <<fileVars, snapshot, last, failing, mainVars, signalVars, serverVars, lbVars>>

(* Mutant: a publish leaves the hash baseline at the old content. *)
JudgeKeepsBaseline(d) ==
  \/ d = "gone" /\ failing' = "unreadable" /\ UNCHANGED <<snapshot, last>>
  \/ d # "gone" /\ d = last /\ failing' = "" /\ UNCHANGED <<snapshot, last>>
  \/ d # "gone" /\ d # last /\ d \notin Valid /\ failing' = "rejected" /\ UNCHANGED <<snapshot, last>>
  \/ d # "gone" /\ d # last /\ d \in Valid /\ snapshot' = d /\ failing' = "" /\ UNCHANGED last

(* One cycle over what was read: unreadable, unchanged, rejected, or       *)
(* published (the store, the baseline and the onPublish hook).             *)
Judge(d) ==
  \/ d = "gone" /\ failing' = "unreadable" /\ UNCHANGED <<snapshot, last>>
  \/ d # "gone" /\ d = last /\ failing' = "" /\ UNCHANGED <<snapshot, last>>
  \/ d # "gone" /\ d # last /\ d \notin Valid /\ failing' = "rejected" /\ UNCHANGED <<snapshot, last>>
  \/ d # "gone" /\ d # last /\ d \in Valid /\ snapshot' = d /\ last' = d /\ failing' = ""

PollJudges ==
  /\ Running /\ poller = "read"
  /\ Judge(data)
  /\ poller' = "waiting" /\ data' = "gone"
  /\ UNCHANGED <<fileVars, mainVars, signalVars, serverVars, lbVars>>

(* The loop's select leaves at the cancellation; a ready tick may win it   *)
(* for one more cycle.                                                     *)
PollStops ==
  /\ Running /\ poller = "waiting" /\ cancelled
  /\ poller' = "done"
  /\ UNCHANGED <<fileVars, snapshot, last, failing, data, mainVars, signalVars, serverVars, lbVars>>
---------------------------------------------------------------------------
(* server/lifecycle.go *)

Rank == [starting |-> 0, ready |-> 1, draining |-> 2, stopped |-> 3]

(* A transition is a compare-and-swap that only moves forward. *)
markReady == lc' = IF lc = "starting" THEN "ready" ELSE lc
beginDraining == lc' = IF Rank[lc] < Rank["draining"] THEN "draining" ELSE lc
markStopped == lc' = "stopped"

HeadStart ==
  LET half == Grace \div 2 IN IF Propagation > half THEN half ELSE Propagation
---------------------------------------------------------------------------
(* server/server.go, Run *)

Listen ==
  /\ Running /\ server = "boot"
  /\ \/ listener' = "open" /\ server' = "listening" /\ UNCHANGED result
     \/ listener' = "none" /\ server' = "returned" /\ result' = "failed"
  /\ UNCHANGED <<lc, left, inflight, elapsed, fileVars, pollerVars, mainVars, signalVars, lbVars>>

(* A context that is already cancelled is never advertised as ready; one   *)
(* that is cancelled right after the test is, until Run's select sees it.  *)
CheckContext ==
  /\ Running /\ server = "listening"
  /\ server' = IF cancelled THEN "serving" ELSE "marking"
  /\ UNCHANGED <<lc, listener, left, inflight, result, elapsed>>
  /\ UNCHANGED <<fileVars, pollerVars, mainVars, signalVars, lbVars>>

MarkReady ==
  /\ Running /\ server = "marking"
  /\ markReady /\ server' = "serving"
  /\ UNCHANGED <<listener, left, inflight, result, elapsed>>
  /\ UNCHANGED <<fileVars, pollerVars, mainVars, signalVars, lbVars>>

(* The accept loop ends on its own; open connections stay. *)
ServeDies ==
  /\ Running /\ listener = "open"
  /\ listener' = "closed" /\ result' = "failed"
  /\ UNCHANGED <<server, lc, left, inflight, elapsed>>
  /\ UNCHANGED <<fileVars, pollerVars, mainVars, signalVars, lbVars>>

(* serveDone wins the select of the serving phase or of the head start. *)
ServeFailed ==
  /\ Running /\ server \in {"serving", "headstart"} /\ result = "failed"
  /\ markStopped /\ server' = "returned"
  /\ UNCHANGED <<listener, left, inflight, result, elapsed>>
  /\ UNCHANGED <<fileVars, pollerVars, mainVars, signalVars, lbVars>>

(* Mutant: readiness is kept during the head start. *)
SeeCancelStillReady ==
  /\ Running /\ server = "serving" /\ cancelled
  /\ server' = "headstart" /\ left' = HeadStart /\ elapsed' = 0
  /\ UNCHANGED <<lc, listener, inflight, result>>
  /\ UNCHANGED <<fileVars, pollerVars, mainVars, signalVars, lbVars>>

(* Unready first, then the head start with the listener still open. *)
SeeCancel ==
  /\ Running /\ server = "serving" /\ cancelled
  /\ beginDraining
  /\ server' = "headstart" /\ left' = HeadStart /\ elapsed' = 0
  /\ UNCHANGED <<listener, inflight, result>>
  /\ UNCHANGED <<fileVars, pollerVars, mainVars, signalVars, lbVars>>

(* Mutant: the drain gets the whole grace, the head start comes on top. *)
DrainBudgetFull == Grace

DrainBudget == Grace - HeadStart

(* Shutdown closes the listener and waits for the open requests. *)
Shutdown ==
  /\ Running /\ server = "headstart" /\ left = 0
  /\ server' = "draining" /\ left' = DrainBudget
  /\ listener' = "closed"
  /\ result' = IF result = "running" THEN "closed" ELSE result
  /\ UNCHANGED <<lc, inflight, elapsed>>
  /\ UNCHANGED <<fileVars, pollerVars, mainVars, signalVars, lbVars>>

(* The drain ends with the last request, or its deadline closes them all;  *)
(* Run then takes Serve's result.                                          *)
DrainOver ==
  /\ Running /\ server = "draining" /\ (inflight = 0 \/ left = 0)
  /\ inflight' = 0
  /\ markStopped /\ server' = "returned"
  /\ UNCHANGED <<listener, left, result, elapsed>>
  /\ UNCHANGED <<fileVars, pollerVars, mainVars, signalVars, lbVars>>

RequestArrives ==
  /\ Running /\ listener = "open" /\ inflight = 0
  /\ inflight' = 1
  /\ UNCHANGED <<server, lc, listener, left, result, elapsed>>
  /\ UNCHANGED <<fileVars, pollerVars, mainVars, signalVars, lbVars>>

RequestEnds ==
  /\ Running /\ inflight = 1
  /\ inflight' = 0
  /\ UNCHANGED <<server, lc, listener, left, result, elapsed>>
  /\ UNCHANGED <<fileVars, pollerVars, mainVars, signalVars, lbVars>>
---------------------------------------------------------------------------
(* main.go: the signal watcher, and run after Run returned *)

Signal ==
  /\ Running /\ signals < MaxSignals
  /\ signals' = signals + 1
  /\ buffered' = IF main \in {"serving", "joining"} /\ buffered < 2 THEN buffered + 1 ELSE buffered
  /\ UNCHANGED <<watcher, fileVars, pollerVars, mainVars, serverVars, lbVars>>

DrainDone == main = "announced"

FirstSignal ==
  /\ Running /\ watcher = "first" /\ buffered > 0
  /\ buffered' = buffered - 1 /\ cancelled' = TRUE /\ watcher' = "second"
  /\ UNCHANGED <<signals, main, exit, fileVars, pollerVars, serverVars, lbVars>>

SecondSignal ==
  /\ Running /\ watcher = "second" /\ buffered > 0
  /\ buffered' = buffered - 1 /\ watcher' = "deciding"
  /\ UNCHANGED <<signals, fileVars, pollerVars, mainVars, serverVars, lbVars>>

(* A drain that is over wins against a signal that was already buffered;   *)
(* otherwise the watcher goes on to os.Exit, whatever main does meanwhile. *)
Decide ==
  /\ Running /\ watcher = "deciding"
  /\ watcher' = IF DrainDone THEN "gone" ELSE "forcing"
  /\ UNCHANGED <<signals, buffered, fileVars, pollerVars, mainVars, serverVars, lbVars>>

ForceExit ==
  /\ Running /\ watcher = "forcing"
  /\ exit' = "forced"
  /\ UNCHANGED <<cancelled, main, signalVars, fileVars, pollerVars, serverVars, lbVars>>

WatcherLeaves ==
  /\ Running /\ watcher \in {"first", "second"} /\ DrainDone
  /\ watcher' = "gone"
  /\ UNCHANGED <<signals, buffered, fileVars, pollerVars, mainVars, serverVars, lbVars>>

RunReturned ==
  /\ Running /\ main = "serving" /\ server = "returned"
  /\ main' = "joining" /\ cancelled' = TRUE
  /\ UNCHANGED <<exit, fileVars, pollerVars, signalVars, serverVars, lbVars>>

(* Mutant: run does not wait for the poller. *)
JoinNobody ==
  /\ Running /\ main = "joining"
  /\ main' = "ignoring"
  /\ UNCHANGED <<cancelled, exit, fileVars, pollerVars, signalVars, serverVars, lbVars>>

(* The poller is joined, then the signals are ignored. *)
Join ==
  /\ Running /\ main = "joining" /\ poller = "done"
  /\ main' = "ignoring"
  /\ UNCHANGED <<cancelled, exit, fileVars, pollerVars, signalVars, serverVars, lbVars>>

Announce ==
  /\ Running /\ main = "ignoring"
  /\ main' = "announced"
  /\ UNCHANGED <<cancelled, exit, fileVars, pollerVars, signalVars, serverVars, lbVars>>

Exit ==
  /\ Running /\ main = "announced"
  /\ exit' = IF result = "failed" THEN "failed" ELSE "ok"
  /\ UNCHANGED <<cancelled, main, fileVars, pollerVars, signalVars, serverVars, lbVars>>
---------------------------------------------------------------------------
(* The load balancer (external): it starts a probe at least every          *)
(* ProbeEvery ticks, the answer may take ProbeTimeout, and a refused probe *)
(* counts as unready. Only then does it stop routing here.                 *)

ProbeStarts ==
  /\ Running /\ probe.answer = "none" /\ listener = "open"
  /\ sinceProbe' = 0
  /\ probe' = [answer |-> IF lc = "ready" THEN "ready" ELSE "unready", age |-> 0]
  /\ UNCHANGED <<view, fileVars, pollerVars, mainVars, signalVars, serverVars>>

ProbeAnswers ==
  /\ Running /\ probe.answer # "none"
  /\ view' = (probe.answer = "ready")
  /\ probe' = [answer |-> "none", age |-> 0]
  /\ UNCHANGED <<sinceProbe, fileVars, pollerVars, mainVars, signalVars, serverVars>>

ProbeRefused ==
  /\ Running /\ probe.answer = "none" /\ listener # "open"
  /\ sinceProbe' = 0 /\ view' = FALSE
  /\ UNCHANGED <<probe, fileVars, pollerVars, mainVars, signalVars, serverVars>>
---------------------------------------------------------------------------
(* What must happen before time goes on: the server's own steps and due    *)
(* timers, a due probe, a due answer.                                      *)
ServerPrompt ==
  \/ server \in {"boot", "listening", "marking"}
  \/ server = "serving" /\ (cancelled \/ result = "failed")
  \/ server = "headstart" /\ (left = 0 \/ result = "failed")
  \/ server = "draining" /\ (left = 0 \/ inflight = 0)

Tick ==
  /\ Running /\ ~ServerPrompt
  /\ sinceProbe < ProbeEvery
  /\ probe.answer # "none" => probe.age < ProbeTimeout
  /\ left' = IF left = 0 THEN 0 ELSE left - 1
  /\ elapsed' = IF server \in {"headstart", "draining"} THEN elapsed + 1 ELSE elapsed
  /\ sinceProbe' = sinceProbe + 1
  /\ probe' = IF probe.answer = "none" THEN probe ELSE [probe EXCEPT !.age = @ + 1]
  /\ UNCHANGED <<view, server, lc, listener, inflight, result>>
  /\ UNCHANGED <<fileVars, pollerVars, mainVars, signalVars>>

Next ==
  \/ Edit \/ PollReads \/ PollJudges \/ PollStops
  \/ Listen \/ CheckContext \/ MarkReady \/ ServeDies \/ ServeFailed
  \/ SeeCancel \/ Shutdown \/ DrainOver \/ RequestArrives \/ RequestEnds
  \/ Signal \/ FirstSignal \/ SecondSignal \/ Decide \/ ForceExit \/ WatcherLeaves
  \/ RunReturned \/ Join \/ Announce \/ Exit
  \/ ProbeStarts \/ ProbeAnswers \/ ProbeRefused \/ Tick

(* The poller's ticker keeps firing and its goroutine runs. *)
Spec == Init /\ [][Next]_vars /\ WF_vars(PollReads) /\ WF_vars(PollJudges)
---------------------------------------------------------------------------
(* Properties. *)

(* Traffic is never sent to a port this process closed on purpose: when    *)
(* Shutdown closes the listener, a load balancer whose probe interval and  *)
(* timeout fit in the head start has already been told (Run's order of     *)
(* beginDraining, the head start and Shutdown, and readyz).                *)
NeverRoutedToClosed ==
  ProbeEvery + ProbeTimeout < HeadStart =>
    (server = "draining" /\ result = "closed" => ~view)

(* From the cancellation to Run's return no more than the grace passes,    *)
(* the head start included, whatever the open requests do (propagation and *)
(* the drain budget of Run).  What the process does after Run has returned,*)
(* the close of the metering pipeline first of all, has budgets of its own.*)
GraceHeld == elapsed <= Grace

(* Once the drain is announced nothing of the process still runs: no       *)
(* reload is published, and no signal that the watcher takes or judges     *)
(* from then on, buffered or late, sends it to os.Exit (run's poller join, *)
(* Ignore and the watcher's second look at drainDone). One that it judged  *)
(* before the announcement still ends the process.                         *)
QuietExit ==
  [][DrainDone => /\ snapshot' = snapshot
                  /\ watcher' = "forcing" => watcher = "forcing"]_vars

(* A file that settles on a valid content is served in the end, through    *)
(* any history of vanished, rejected and restored contents, unless the     *)
(* process is told to stop (the hash baseline, the failure state and the   *)
(* publish stay in step).                                                  *)
ReloadConverges ==
  \A c \in Valid : (<>[](file = c /\ Running /\ ~cancelled)) => <>[](snapshot = c)
=============================================================================
