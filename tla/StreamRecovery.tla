--------------------------- MODULE StreamRecovery ---------------------------
(***************************************************************************)
(* Recovery of one committed event stream: the handler's relay passes and  *)
(* continuation loop, one continuation hop (dialContinuation), and the     *)
(* moving idle window (recoveryWindow) whose watchdog closes a stalled     *)
(* body or cancels a stalled dial.                                         *)
(*                                                                         *)
(* The window's mutex makes each of its methods one step.  Its timer's     *)
(* callback runs on a goroutine of its own: it may be runnable long before *)
(* it gets the mutex, it may be woken early, and it runs the trip function *)
(* only after it has released the mutex.  Pass 0 relays the walk's answer, *)
(* pass k the answer of hop k.                                             *)
(***************************************************************************)
EXTENDS PartialText, FiniteSets

CONSTANTS Idle,           \* max-elapsed, in ticks
          MaxRecoveries,  \* max-recoveries
          Bodies,         \* requests: the client's body as [surface, shape, turns] and
                          \* whether a strip-fields path reaches streamed text (strips)
          EventsOf,       \* data lines an upstream may send, by surface
          TailsOf,        \* bound: the lines it may break off unended
          Keys,           \* the candidate's credentials; {} without a pool
          MaxFunds,       \* exchanges the walk may have left in the envelope
          MaxChunks,      \* bound: source reads of one stream
          MaxCallbacks    \* bound: timer callbacks in flight at once

ASSUME RecoveryAssumption ==
    /\ Idle \in Nat \ {0} /\ MaxRecoveries \in Nat \ {0}
    /\ MaxFunds \in Nat /\ MaxChunks \in Nat /\ MaxCallbacks \in Nat \ {0}

Surfaces == {"chat", "responses", "messages"}

\* The data lines of each dialect: the markers and lines that are no object,
\* chat chunks, which carry no identity besides the choice's index and state
\* nothing when they have no choice, and Responses events.
BareLines == [kind : {"done", "junk", "error"}]
ChatLines ==
    {ev \in [kind : {"chat"}, type : STRING, id : {0}, out : Int, part : {0}, text : Seq(STRING),
             call : BOOLEAN, refusal : BOOLEAN, finish : BOOLEAN, item : STRING] :
        ev.type = "no_choices" => ev.text = Unstated /\ ~ev.call /\ ~ev.refusal /\ ~ev.finish}
ResponsesLines ==
    [kind : {"responses"}, type : STRING, id : Int, out : Int, part : Int, text : Seq(STRING),
     call : BOOLEAN, finish : BOOLEAN, item : STRING]

NoEvent == [kind |-> "none"]
OtherLine == [kind |-> "other"]  \* a line that is no data line

\* A surface's upstream speaks one dialect, and a body is a conversation.
ASSUME DialectAssumption ==
    /\ EventsOf["chat"] \cup EventsOf["messages"] \subseteq BareLines \cup ChatLines
    /\ EventsOf["responses"] \subseteq BareLines \cup ResponsesLines
    /\ \A s \in Surfaces : TailsOf[s] \subseteq EventsOf[s] \cup {OtherLine}
    /\ Bodies \subseteq [surface : Surfaces, shape : STRING, strips : BOOLEAN,
                         turns : Seq([role : STRING, text : Seq(STRING)])]

VARIABLES body,        \* the client's request body
          pc,          \* where the handler is
          partial,     \* the accumulator
          shown,       \* the client's side of the stream (a history)
          buffered,    \* the pass may hold bytes of an unended line
          chunks,      \* source reads accepted
          marker,      \* the terminal marker reached the client
          err,         \* how the last relay pass returned
          recoveries,  \* continuations requested
          hopBody,     \* the body of the hop under way
          funds,       \* exchanges the request's envelope still grants
          marked,      \* credentials this request marked rate-limited
          credKey,     \* the credential of the last exchange
          clientGone, windowShut, stopReason,  \* the loop's locals
          ctxDone,     \* the client hung up
          outcome, phase,  \* the completion record
          left,        \* ticks before the deadline
          closed,      \* the window's latch
          guard,       \* the guarded operation, or NoGuard
          timers,      \* guards, by address, whose timer is pending
          runnable,    \* guards, by address, whose callback waits for the mutex
          trips,       \* trip functions a callback has yet to run
          tripped,     \* trip functions that have run
          quiet,       \* ticks since the upstream was last heard
          cause        \* what ended the last read or dial

request == <<body, ctxDone>>
loop == <<recoveries, funds, marked, credKey, clientGone, windowShut, stopReason>>
texts == <<partial, shown, buffered, hopBody>>
stream == <<texts, chunks, marker, err>>
record == <<outcome, phase>>
window == <<left, closed, guard, timers, runnable, trips, tripped, quiet>>
vars == <<body, pc, partial, shown, buffered, hopBody, chunks, marker, err, recoveries, funds,
          marked, credKey, clientGone, windowShut, stopReason, ctxDone, outcome, phase,
          left, closed, guard, timers, runnable, trips, tripped, quiet, cause>>

LS == INSTANCE LogicalStream
          WITH accepted <- chunks, hops <- recoveries, cut <- closed

-----------------------------------------------------------------------------
(* The window.  A guard names the operation it bounds (its lease) and what *)
(* ends it (its trip): closing the body of a pass, cancelling the context  *)
(* of a hop.  A timer and its callback know their guard by its address;    *)
(* what a guard that was replaced bounded is never asked again.            *)

NoGuard == [id |-> 0, lease |-> <<"none", 0>>, trip |-> <<"none", 0>>]
RelayLease(k) == <<"relay", k>>
HopLease(k) == <<"hop", k>>
CloseBody(k) == <<"body", k>>
CancelDial(k) == <<"dial", k>>

Spent == closed \/ left = 0

\* expireLocked and what its caller does after unlocking: the latch is set,
\* the guard's timer stopped and its trip run.  Without a guard, or on a
\* window that is already shut, the caller runs `otherwise`.
expire(otherwise) ==
    /\ closed' = TRUE
    /\ guard' = IF closed THEN guard ELSE NoGuard
    /\ timers' = IF closed THEN timers ELSE timers \ {guard.id}
    /\ tripped' = tripped \cup (IF closed \/ guard = NoGuard THEN otherwise ELSE {guard.trip})
    /\ UNCHANGED <<left, runnable, trips, quiet>>

\* An address no timer and no callback still refers to.
FreshId(stopped) ==
    LET live == (timers \ stopped) \cup runnable
    IN  CHOOSE n \in 1..(Cardinality(live) + 1) :
            n \notin live /\ \A m \in 1..(n - 1) : m \in live

\* armLocked: a fresh guard replaces whatever was there; the timers in
\* stopped are stopped after the unlock.
arm(lease, trip, stopped) ==
    LET g == [id |-> FreshId(stopped), lease |-> lease, trip |-> trip]
    IN  guard' = g /\ timers' = (timers \ stopped) \cup {g.id}

\* disarm: only the lease's own guard is cleared.
disarm(lease) ==
    /\ IF guard # NoGuard /\ guard.lease = lease
       THEN guard' = NoGuard /\ timers' = timers \ {guard.id}
       ELSE UNCHANGED <<guard, timers>>
    /\ UNCHANGED <<left, closed, runnable, trips, tripped, quiet>>

\* Mutant: progress moves the deadline and forgets the watchdog.
progressUnguarded ==
    /\ left' = Idle /\ quiet' = 0
    /\ guard' = NoGuard /\ timers' = timers \ {guard.id}
    /\ UNCHANGED <<closed, runnable, trips, tripped>>

\* progress, on a live window: the deadline moves and the guard is replaced
\* under the same lease.
progress ==
    /\ left' = Idle /\ quiet' = 0
    /\ IF guard = NoGuard THEN UNCHANGED <<guard, timers>>
       ELSE arm(guard.lease, guard.trip, {guard.id})
    /\ UNCHANGED <<closed, runnable, trips, tripped>>

armBody(k) ==
    IF Spent THEN expire({CloseBody(k)})
    ELSE /\ arm(RelayLease(k), CloseBody(k), {})
         /\ UNCHANGED <<left, closed, runnable, trips, tripped, quiet>>

\* bind, on a live window.
bind(k) ==
    /\ arm(HopLease(k), CancelDial(k), {})
    /\ UNCHANGED <<left, closed, runnable, trips, tripped, quiet>>

\* promote succeeds when the hop's own guard is still armed in time: the
\* headers are progress, and the guard passes from the dial to the body.
promotable(k) == guard # NoGuard /\ guard.lease = HopLease(k) /\ ~Spent

promote(k) ==
    /\ left' = Idle /\ quiet' = 0
    /\ arm(HopLease(k), CloseBody(k), {guard.id})
    /\ UNCHANGED <<closed, runnable, trips, tripped>>

\* The timer of a guard is due at the deadline; the scheduler may wake it
\* early.  A timer nobody stopped may wake when its guard is long replaced.
\* Once the loop is over the model's clock stands still: nothing reads it.
Wake(g) ==
    /\ g \in timers /\ pc \notin {"finish", "done"}
    /\ Cardinality(runnable) < MaxCallbacks
    /\ timers' = timers \ {g}
    /\ runnable' = runnable \cup {g}
    /\ UNCHANGED <<left, closed, guard, trips, tripped, quiet>>
    /\ UNCHANGED <<request, loop, stream, record, pc, cause>>

\* Mutant: the callback does not ask whether its guard is still the one.
fireStale(g) ==
    /\ g \in runnable
    /\ runnable' = runnable \ {g}
    /\ IF closed THEN UNCHANGED <<closed, guard, timers, trips>>
       ELSE /\ closed' = TRUE /\ guard' = NoGuard
            /\ trips' = trips \cup ({guard.trip} \ {NoGuard.trip})
            /\ UNCHANGED timers
    /\ UNCHANGED <<left, tripped, quiet>>
    /\ UNCHANGED <<request, loop, stream, record, pc, cause>>

\* Mutant: an early callback forgets to arm its operation again.
fireNoRearm(g) ==
    /\ g \in runnable
    /\ runnable' = runnable \ {g}
    /\ IF guard = NoGuard \/ guard.id # g \/ closed THEN UNCHANGED <<closed, guard, timers, trips>>
       ELSE IF left > 0
       THEN guard' = NoGuard /\ UNCHANGED <<closed, timers, trips>>
       ELSE /\ closed' = TRUE /\ guard' = NoGuard /\ trips' = trips \cup {guard.trip}
            /\ UNCHANGED timers
    /\ UNCHANGED <<left, tripped, quiet>>
    /\ UNCHANGED <<request, loop, stream, record, pc, cause>>

\* The callback: a stale one does nothing, an early one arms the operation
\* again, a due one sets the latch and then, unlocked, runs the trip.
fire(g) ==
    /\ g \in runnable
    /\ runnable' = runnable \ {g}
    /\ IF guard = NoGuard \/ guard.id # g \/ closed THEN UNCHANGED <<closed, guard, timers, trips>>
       ELSE IF left > 0
       THEN arm(guard.lease, guard.trip, {}) /\ UNCHANGED <<closed, trips>>
       ELSE /\ closed' = TRUE /\ guard' = NoGuard /\ trips' = trips \cup {guard.trip}
            /\ UNCHANGED timers
    /\ UNCHANGED <<left, tripped, quiet>>
    /\ UNCHANGED <<request, loop, stream, record, pc, cause>>

RunTrip(t) ==
    /\ t \in trips
    /\ trips' = trips \ {t}
    /\ tripped' = tripped \cup {t}
    /\ UNCHANGED <<left, closed, guard, timers, runnable, quiet>>
    /\ UNCHANGED <<request, loop, stream, record, pc, cause>>

Tick ==
    /\ pc \notin {"finish", "done"} /\ (left > 0 \/ quiet < Idle)
    /\ left' = IF left > 0 THEN left - 1 ELSE 0
    /\ quiet' = IF quiet < Idle THEN quiet + 1 ELSE Idle
    /\ UNCHANGED <<closed, guard, timers, runnable, trips, tripped>>
    /\ UNCHANGED <<request, loop, stream, record, pc, cause>>

-----------------------------------------------------------------------------
(* A relay pass.                                                           *)

Surface == body.surface

\* The upstream line that makes the relay report a terminal marker.
IsMarker(ev) ==
    IF Surface = "responses" THEN ev.kind = "responses" /\ ev.type = "completed"
    ELSE ev.kind = "done"

\* CopyMessagesSSE owes the marker at a clean end once a finish reason was
\* translated; the passthrough synthesizes nothing.
OwesMarker(view) == Surface = "messages" /\ view.finish

-----------------------------------------------------------------------------
(* The client's side.  The accumulator reads a line as the upstream sent   *)
(* it and as soon as it is whole; the client reads what the strip left of  *)
(* it, and only at the blank line that ends its event.  Data lines of one  *)
(* event are one payload to the client, and two JSON objects in it are     *)
(* none.                                                                   *)

\* A piece of text of some output.
TextIn(ev) ==
    IF \/ ev.kind = "chat" /\ ev.text # Unstated
       \/ ev.kind = "responses" /\ ev.type = "output_text.delta" /\ ev.text # Unstated
    THEN ev.text ELSE <<>>

\* rewriteSSELine, which runs after the observation.
Stripped(text) == IF body.strips THEN <<>> ELSE text

IsRefusal(ev) ==
    \/ ev.kind = "chat" /\ ev.refusal
    \/ ev.kind = "responses" /\ ev.type = "refusal.delta"
    \/ ev.kind = "responses" /\ ev.type = "refusal.done" /\ ev.text \notin {Unstated, <<>>}

\* Refusals apart, a line is plain unless it is a tool call, a failure or the
\* declared end.
IsPlain(ev) ==
    CASE ev.kind = "chat" -> ~ev.call /\ ~ev.finish
      [] ev.kind = "responses" -> ev.type \notin
             {"output_text.done", "call_arguments", "failed", "misnamed"}
      [] OTHER -> ev.kind = "done"

\* text      the text of the events the client could read
\* held      the texts of the lines it holds of an event still open
\* lost      lines of its were joined, so some event of its was unreadable
\* plain     every line it received was plain, and those of a pass of one output
\* refusal   it received a refusal
\* outputs   the outputs this pass sent text of
\* finish    this pass sent a finish reason
ShownNothing ==
    [text |-> <<>>, held |-> <<>>, lost |-> FALSE, plain |-> TRUE, refusal |-> FALSE,
     outputs |-> {}, finish |-> FALSE]

\* Lines, or events, that were joined: nothing of them can be read.
Joined == <<<<>>, <<>>>>
Join(s) == [s EXCEPT !.held = Joined, !.lost = TRUE]
HeldText(s) == IF Len(s.held) = 1 THEN s.held[1] ELSE <<>>

Receive(s, ev) ==
    LET outputs == s.outputs \cup
            (IF TextIn(ev) = <<>> THEN {} ELSE {<<ev.id, ev.out, ev.part>>})
        fin == s.finish \/ (ev.kind = "chat" /\ ev.finish)
    IN  IF s.plain /\ IsPlain(ev) /\ Cardinality(outputs) <= 1
        THEN [text |-> s.text, held |-> IF s.held = <<>> THEN <<Stripped(TextIn(ev))>> ELSE Joined,
              lost |-> (s.lost \/ s.held # <<>>), plain |-> TRUE,
              refusal |-> (s.refusal \/ IsRefusal(ev)), outputs |-> outputs, finish |-> fin]
        ELSE [ShownNothing EXCEPT !.plain = FALSE, !.finish = fin]

\* The blank line: one data line is an event, more of them are unreadable.
Dispatch(s) == [s EXCEPT !.text = @ \o HeldText(s), !.held = <<>>]

\* A whole event: its data line, if any, and its blank line.
Show(s, ev) == IF ev = NoEvent THEN s ELSE Dispatch(Receive(s, ev))

\* The last line of a pass.  The Messages translator re-frames a data line as
\* whole events and drops every other; the passthrough leaves the event open.
ShowTail(s, tail) ==
    CASE tail = NoEvent -> s
      [] tail = OtherLine -> IF Surface = "messages" THEN s
                             ELSE IF s.held = <<>> THEN [s EXCEPT !.held = <<<<>>>>] ELSE Join(s)
      [] OTHER -> IF Surface = "messages" THEN Show(s, tail) ELSE Receive(s, tail)

\* A pass begins.  Its first bytes either dispatch what the last pass broke
\* off, or go on with it: the line, or the event, is joined.
Resumed(s, dispatches) ==
    IF dispatches THEN Dispatch(s) ELSE IF s.held = <<>> THEN s ELSE Join(s)

\* A pass ends, and its outputs with it.
Ended(s) == [s EXCEPT !.outputs = {}, !.finish = FALSE]

-----------------------------------------------------------------------------
(* The steps of a pass.                                                    *)

\* The accumulator knows response.completed as one of the metadata events.
Observed(p, ev) ==
    IF ev \in {NoEvent, OtherLine} THEN p
    ELSE IF ev.kind = "responses" /\ ev.type = "completed"
    THEN Observe(p, [ev EXCEPT !.type = "metadata"])
    ELSE Observe(p, ev)

StartPass ==
    /\ pc = "start"
    /\ partial' = beginUpstreamStream(partial)
    /\ armBody(recoveries)
    /\ \E dispatches \in BOOLEAN :
           shown' = Resumed(shown, dispatches)
    /\ buffered' = FALSE
    /\ pc' = "relay"
    /\ UNCHANGED <<hopBody, chunks, marker, err>>
    /\ UNCHANGED <<request, loop, record, cause>>

\* A marker is one once written.
Marked(ev) == marker \/ (ev \notin {NoEvent, OtherLine} /\ IsMarker(ev))

\* A source read returns bytes, with at most one event completed in them.
\* Bytes that arrive once the window is spent are discarded.
ReadChunk(ev) ==
    /\ pc = "relay" /\ chunks < MaxChunks
    /\ ~Spent
    /\ progress
    /\ chunks' = chunks + 1
    /\ partial' = Observed(partial, ev)
    /\ shown' = Show(shown, ev)
    /\ marker' = Marked(ev)
    /\ buffered' = TRUE
    /\ UNCHANGED <<hopBody, err, pc, cause>>
    /\ UNCHANGED <<request, loop, record>>

\* The loop is over: nothing reads its texts any more, and the history of
\* the client's side ends with them.
Released ==
    /\ partial' = newPartialText /\ shown' = ShownNothing /\ buffered' = FALSE
    /\ hopBody' = Refused("none")

LeaveLoop == pc' = "finish" /\ Released

\* The pass is over: the deferred disarm has run, and for a hop the body has
\* been closed, which releases the hop's context.  A hop that is complete, or
\* was cut by the window, ends the loop: the latch is asked after the disarm,
\* when nothing sets it any more.  When its reads end the pass relays, like
\* any line, what it holds of a line without its end; the blank line of the
\* last event may be missing as well.
EndPass(how, tail) ==
    /\ tail # NoEvent => buffered
    /\ marker' = (Marked(tail) \/ (how = "none" /\ OwesMarker(ShowTail(shown, tail))))
    /\ err' = how /\ cause' = how
    /\ IF recoveries = 0 THEN UNCHANGED <<windowShut, stopReason>>
       ELSE windowShut' = closed' /\ stopReason' = IF closed' THEN "max_elapsed" ELSE "none"
    /\ \/ /\ recoveries > 0 /\ (marker' \/ closed')
          /\ LeaveLoop
       \/ /\ recoveries = 0 \/ ~(marker' \/ closed')
          /\ partial' = Observed(partial, tail)
          /\ shown' = Ended(ShowTail(shown, tail))
          /\ buffered' = FALSE
          /\ pc' = "gates"
          /\ UNCHANGED hopBody
    /\ UNCHANGED <<chunks, recoveries, funds, marked, credKey, clientGone>>
    /\ UNCHANGED <<request, record>>

ReadLate(tail) ==
    /\ pc = "relay" /\ Spent
    /\ expire({})
    /\ EndPass("expired", tail)

\* The pass ends: a clean end, a reset, a line or an event past its cap, a
\* failed write to the client, a body the watchdog closed, or a read under
\* the context of a client that hung up.  A line past its cap is dropped, and
\* after a failed write nothing asks any more what was observed of the line.
ReadEnds(how, tail) ==
    /\ pc = "relay"
    /\ how \in {"none", "read", "limit", "client"}
         \/ (how = "closed" /\ CloseBody(recoveries) \in tripped)
    /\ how = "client" => ctxDone
    /\ how \in {"limit", "client"} => tail = NoEvent
    /\ disarm(RelayLease(recoveries))
    /\ EndPass(how, tail)

-----------------------------------------------------------------------------
(* The continuation loop.                                                  *)

\* Mutant: the loop does not ask whether the answer is complete.
continuationEligibleBlind == err \notin {"client", "limit"}

continuationEligible == ~marker /\ err \notin {"client", "limit"}

BudgetSpent == funds = 0

BuildContinuation ==
    CASE Surface = "chat" -> BuildContinuationChat(body, partial.text)
      [] Surface = "responses" -> BuildContinuationResponses(body, partial.text)
      [] Surface = "messages" -> BuildContinuationMessages(body, partial.text)

\* The loop's gates up to the verdict, in order; "none" when all are passed.
Gate ==
    IF ~continuationEligible THEN "ineligible"
    ELSE IF recoveries >= MaxRecoveries THEN "max_recoveries"
    ELSE IF closed THEN "max_elapsed"
    ELSE IF ctxDone THEN "client_gone"
    ELSE IF Verdict(partial).kind = "terminal" THEN "logical_terminal"
    ELSE IF Verdict(partial).kind = "unsafe" THEN "unsafe_content"
    ELSE "none"

\* A gate refuses: the loop ends with its reason.
StopAtGate ==
    /\ pc = "gates" /\ Gate # "none"
    /\ windowShut' = (Gate = "max_elapsed")
    /\ clientGone' = (Gate = "client_gone")
    /\ stopReason' = IF Gate \in {"ineligible", "client_gone"} THEN "none" ELSE Gate
    /\ LeaveLoop
    /\ UNCHANGED <<recoveries, funds, marked, credKey>>
    /\ UNCHANGED <<request, chunks, marker, err, record, window, cause>>

\* The clock gate: no relay pass is under way, so the cut is nobody's.
StopAtClock ==
    /\ pc = "gates" /\ Gate = "none" /\ Spent
    /\ expire({})
    /\ stopReason' = "max_elapsed"
    /\ LeaveLoop
    /\ UNCHANGED <<recoveries, funds, marked, credKey, clientGone, windowShut>>
    /\ UNCHANGED <<request, chunks, marker, err, record, cause>>

StopAtBudget ==
    /\ pc = "gates" /\ Gate = "none" /\ ~Spent
    /\ BudgetSpent \/ ~BuildContinuation.ok
    /\ stopReason' = IF BudgetSpent THEN "budget_spent" ELSE "unsafe_content"
    /\ LeaveLoop
    /\ UNCHANGED <<recoveries, funds, marked, credKey, clientGone, windowShut>>
    /\ UNCHANGED <<request, chunks, marker, err, record, window, cause>>

\* A continuation is requested.
Continue ==
    /\ pc = "gates" /\ Gate = "none" /\ ~Spent
    /\ ~BudgetSpent /\ BuildContinuation.ok
    /\ recoveries' = recoveries + 1
    /\ hopBody' = BuildContinuation
    /\ pc' = "hop"
    /\ UNCHANGED <<funds, marked, credKey, clientGone, windowShut, stopReason>>
    /\ UNCHANGED <<partial, shown, buffered, chunks, marker, err>>
    /\ UNCHANGED <<request, record, window, cause>>

-----------------------------------------------------------------------------
(* One hop.                                                                *)

\* dialable and bind.
BindHop ==
    /\ pc = "hop"
    /\ IF Spent
       THEN /\ expire({})
            /\ windowShut' = TRUE /\ stopReason' = "max_elapsed"
            /\ LeaveLoop
       ELSE /\ bind(recoveries)
            /\ pc' = "claim"
            /\ UNCHANGED <<texts, windowShut, stopReason>>
    /\ UNCHANGED <<recoveries, funds, marked, credKey, clientGone>>
    /\ UNCHANGED <<request, chunks, marker, err, record, cause>>

\* Acquire(now, credKey): the sticky key, another one when it is cooling.
\* Other requests share the pool, so any set of keys may be cooling besides
\* the ones this request marked.
Usable(cooling) == IF credKey \in Keys \ cooling THEN {credKey} ELSE Keys \ cooling

AcquireKey ==
    IF Keys = {} THEN UNCHANGED credKey
    ELSE \E cooling \in {c \in SUBSET Keys : marked \subseteq c} : credKey' \in Usable(cooling)

\* The request could not be built, every key is cooling, or the envelope
\* refused the exchange: nothing was dialed, the bounds are released.
RefuseHop ==
    /\ pc = "claim"
    /\ \/ UNCHANGED credKey
       \/ Keys # {} /\ UNCHANGED credKey
       \/ BudgetSpent /\ AcquireKey
    /\ disarm(HopLease(recoveries))
    /\ LeaveLoop
    /\ UNCHANGED <<recoveries, funds, marked, clientGone, windowShut, stopReason>>
    /\ UNCHANGED <<request, chunks, marker, err, record, cause>>

\* A direct transport claims one exchange, a pool one per endpoint it dials.
ClaimExchange ==
    /\ pc = "claim" /\ ~BudgetSpent
    /\ AcquireKey
    /\ funds' \in 0..(funds - 1)
    /\ pc' = "dial"
    /\ UNCHANGED <<recoveries, marked, clientGone, windowShut, stopReason>>
    /\ UNCHANGED <<request, stream, record, window, cause>>

\* The dial comes back failed: by the peer at any moment, by the context once
\* the watchdog has cancelled it or the client hung up.  Whose failure it is
\* is read from the latch first, then from the request's context.
DialFails(how) ==
    /\ pc = "dial"
    /\ \/ how = "peer"
       \/ how = "cancelled" /\ CancelDial(recoveries) \in tripped
       \/ how = "client" /\ ctxDone
    /\ disarm(HopLease(recoveries))
    /\ windowShut' = closed
    /\ stopReason' = IF closed THEN "max_elapsed" ELSE "none"
    /\ clientGone' = (~closed /\ ctxDone)
    /\ cause' = how
    /\ LeaveLoop
    /\ UNCHANGED <<recoveries, funds, marked, credKey>>
    /\ UNCHANGED <<request, chunks, marker, err, record>>

\* Response headers arrive, in time or too late.
DialAnswers ==
    /\ pc = "dial"
    /\ IF promotable(recoveries)
       THEN /\ promote(recoveries)
            /\ pc' = "answer"
            /\ UNCHANGED <<texts, windowShut, stopReason>>
       ELSE /\ IF left = 0 /\ ~closed /\ guard # NoGuard THEN expire({})
               ELSE disarm(HopLease(recoveries))
            /\ windowShut' = TRUE /\ stopReason' = "max_elapsed"
            /\ LeaveLoop
    /\ UNCHANGED <<recoveries, funds, marked, credKey, clientGone>>
    /\ UNCHANGED <<request, chunks, marker, err, record, cause>>

\* An answer that is not a 2xx event stream ends the loop; a 429 marks the
\* key.  Closing the body releases the hop's bounds.
RefuseAnswer ==
    /\ pc = "answer"
    /\ marked' \in {marked, marked \cup ({credKey} \cap Keys)}
    /\ disarm(HopLease(recoveries))
    /\ LeaveLoop
    /\ UNCHANGED <<recoveries, funds, credKey, clientGone, windowShut, stopReason>>
    /\ UNCHANGED <<request, chunks, marker, err, record, cause>>

AcceptAnswer ==
    /\ pc = "answer"
    /\ pc' = "start"
    /\ UNCHANGED <<request, loop, stream, record, window, cause>>

-----------------------------------------------------------------------------
(* The completion record.                                                  *)

\* Mutant: an error of the pass the window cut is kept.
FinalErrorKept == err

\* A pass the window cut has no error of its own.
FinalError == IF windowShut THEN "none" ELSE err

Finish ==
    /\ pc = "finish"
    /\ LET e == FinalError
       IN  IF e = "none" /\ marker
           THEN outcome' = "completed" /\ phase' = "none"
           ELSE /\ phase' = CASE e = "none" -> "recovery" [] e = "client" -> "client_write"
                              [] e = "limit" -> "upstream_limit" [] OTHER -> "upstream_read"
                /\ outcome' = IF e = "client" \/ (e = "none" /\ clientGone) THEN "client_disconnected"
                              ELSE IF e = "limit" THEN "stream_limit_exceeded"
                              ELSE "stream_truncated"
    /\ pc' = "done"
    /\ UNCHANGED <<request, loop, stream, window, cause>>

-----------------------------------------------------------------------------
(* The client and the envelope's clock.                                    *)

ClientLeaves ==
    /\ pc \notin {"finish", "done"} /\ ~ctxDone
    /\ ctxDone' = TRUE
    /\ UNCHANGED <<body, pc, cause>>
    /\ UNCHANGED <<loop, stream, record, window>>

\* The time half of the envelope is over: it grants nothing more.
EnvelopeLapses ==
    /\ pc \notin {"finish", "done"} /\ funds > 0
    /\ funds' = 0
    /\ UNCHANGED <<recoveries, marked, credKey, clientGone, windowShut, stopReason>>
    /\ UNCHANGED <<request, stream, record, window, pc, cause>>

Done == pc = "done" /\ UNCHANGED vars

Init ==
    /\ body \in Bodies
    /\ pc = "start"
    /\ partial = newPartialText /\ shown = ShownNothing /\ buffered = FALSE /\ chunks = 0
    /\ marker = FALSE /\ err = "none" /\ cause = "none"
    /\ recoveries = 0 /\ hopBody = Refused("none")
    /\ funds = MaxFunds /\ marked = {}
    /\ credKey \in IF Keys = {} THEN {"none"} ELSE Keys
    /\ clientGone = FALSE /\ windowShut = FALSE /\ stopReason = "none"
    /\ ctxDone = FALSE
    /\ outcome = "open" /\ phase = "none"
    /\ left = Idle /\ quiet = 0 /\ closed = FALSE
    /\ guard = NoGuard
    /\ timers = {} /\ runnable = {} /\ trips = {} /\ tripped = {}

Lines == EventsOf[Surface] \cup {NoEvent}
Tails == TailsOf[Surface] \cup {NoEvent}
Causes == {"none", "read", "limit", "client", "closed"}

Handler ==
    \/ StartPass
    \/ \E ev \in Lines : ReadChunk(ev)
    \/ \E tail \in Tails : ReadLate(tail)
    \/ \E how \in Causes, tail \in Tails : ReadEnds(how, tail)
    \/ StopAtGate
    \/ StopAtClock
    \/ StopAtBudget
    \/ Continue
    \/ BindHop
    \/ RefuseHop
    \/ ClaimExchange
    \/ \E how \in {"peer", "cancelled", "client"} : DialFails(how)
    \/ DialAnswers
    \/ RefuseAnswer
    \/ AcceptAnswer
    \/ Finish

Next ==
    \/ Handler
    \/ \E g \in timers : Wake(g)
    \/ \E g \in runnable : fire(g)
    \/ \E t \in trips : RunTrip(t)
    \/ Tick
    \/ ClientLeaves
    \/ EnvelopeLapses
    \/ Done

\* The handler's own steps are never delayed for ever: the ones that wait
\* for the upstream to speak are excepted.
Prompt ==
    \/ StartPass \/ (\E tail \in Tails : ReadEnds("closed", tail))
    \/ StopAtGate \/ StopAtClock \/ StopAtBudget \/ Continue
    \/ BindHop \/ RefuseHop \/ ClaimExchange \/ DialFails("cancelled")
    \/ RefuseAnswer \/ AcceptAnswer \/ Finish

Fairness ==
    /\ WF_vars(Prompt)
    /\ WF_vars(Tick)
    /\ WF_vars(left = 0 /\ Wake(guard.id))
    /\ WF_vars(\E g \in runnable : fire(g))
    /\ WF_vars(\E t \in trips : RunTrip(t))

Spec == Init /\ [][Next]_vars
LiveSpec == Spec /\ Fairness

-----------------------------------------------------------------------------
(* Properties.                                                             *)

PCs == {"start", "relay", "gates", "hop", "claim", "dial", "answer", "finish", "done"}
Errors == Causes \cup {"expired"}
Leases == {RelayLease(k) : k \in 0..MaxRecoveries} \cup {HopLease(k) : k \in 0..MaxRecoveries}
Trips == {CloseBody(k) : k \in 0..MaxRecoveries} \cup {CancelDial(k) : k \in 0..MaxRecoveries}

\* Type invariant of the handler, the window and the record.
TypeOK ==
    /\ body \in Bodies /\ pc \in PCs
    /\ chunks \in Nat /\ marker \in BOOLEAN /\ err \in Errors
    /\ recoveries \in 0..MaxRecoveries /\ funds \in 0..MaxFunds
    /\ marked \subseteq Keys
    /\ clientGone \in BOOLEAN /\ windowShut \in BOOLEAN /\ ctxDone \in BOOLEAN
    /\ left \in 0..Idle /\ quiet \in 0..Idle /\ closed \in BOOLEAN
    /\ guard # NoGuard => guard.lease \in Leases /\ guard.trip \in Trips
    /\ trips \subseteq Trips /\ tripped \subseteq Trips
    /\ outcome \in LS!Outcomes \cup {"open"}

\* The operation the handler is blocked in, by what would end it.
Awaited == IF pc \in {"relay", "answer"} THEN CloseBody(recoveries) ELSE CancelDial(recoveries)

\* The handler never waits on an upstream unwatched: while it reads a body or
\* waits for a hop's headers, either the window is live and its guard ends
\* exactly that operation, with a timer pending or a callback under way, or
\* the window is shut and that operation has been, or is about to be, ended
\* (recoveryWindow: progress, armBody, bind and promote racing fire).
NoUnguardedWait ==
    pc \in {"relay", "answer", "claim", "dial"} =>
        IF closed THEN Awaited \in trips \cup tripped
        ELSE guard # NoGuard /\ guard.trip = Awaited /\ guard.id \in timers \cup runnable

\* The window measures the upstream's silence and nothing else: what is left
\* of it is what the silence has not used, whichever hops, resets and stale
\* callbacks lie in between; it is shut only after a whole interval of
\* silence, only a shut window ends an operation, and never one of another
\* pass than the one under way.
CutsOnlySilence ==
    /\ left = Idle - quiet
    /\ closed => quiet = Idle
    /\ \A t \in trips \cup tripped : closed /\ t[2] = recoveries

\* The assistant text a continuation asks the upstream to go on from.
AskedFrom ==
    IF Surface = "chat" THEN hopBody.turns[Len(hopBody.turns)].text
    ELSE hopBody.turns[Len(hopBody.turns) - 1].text

Prefill ==
    LET n == Len(body.turns)
    IN  IF Surface = "chat" /\ n > 0 /\ body.turns[n].role = "assistant"
        THEN body.turns[n].text ELSE <<>>

\* Everything in s is in t, in the same order.
InOrder(s, t) ==
    \E at \in [1..Len(s) -> 1..Len(t)] :
        /\ \A i \in 1..Len(s) : s[i] = t[at[i]]
        /\ \A i, j \in 1..Len(s) : i < j => at[i] < at[j]

\* A hop never asks the upstream to say again what the client already reads:
\* every piece of text the client could read, over all the passes, is in the
\* text it asks to be continued, in order and after the client's own prefill
\* - although the accumulator reads every line before the strip and before
\* its event is dispatched, so it may hold more.  It holds no more than the
\* event the client has not dispatched yet, unless a strip path reaches
\* streamed text or an event was joined to another where a pass broke off.
\* And a hop is only requested while nothing but text of one output per pass,
\* and on Chat refusals, went to the client (partialText, the continuation
\* builders and the order of CopySSE's observe and rewrite).
PrefixHoldsWhatClientSaw ==
    pc \in {"hop", "claim", "dial", "answer"} =>
        /\ InOrder(Prefill \o shown.text, AskedFrom)
        /\ ~body.strips /\ ~shown.lost => AskedFrom = Prefill \o shown.text \o HeldText(shown)
        /\ shown.plain
        /\ shown.refusal => Surface = "chat"

\* A stream the proxy's own window cut before its marker is recorded as the
\* recovery's timeout, never as a failure of the upstream or of the client
\* (the order of the loop's gates and of dialContinuation's failure switch).
OwnCutNotBlamed ==
    pc = "done" /\ ~marker /\ cause \in {"closed", "expired", "cancelled"} =>
        /\ phase = "recovery" /\ stopReason = "max_elapsed"
        /\ outcome = "stream_truncated"

\* The detailed recovery implements the logical stream: data is accepted and
\* hops are requested only through an open window and before the marker, at
\* most MaxRecoveries times, and the stream ends once.
ImplementsLogicalStream == LS!LSpec

\* An upstream that has been silent for a whole interval holds the client no
\* longer: the handler returns (the watchdog's closing of a body and
\* cancelling of a dial, through early callbacks and hops).  A Write to a
\* client that has stopped reading is no wait on the upstream, and the window
\* does not bound it: the handler is taken not to be blocked in one.
SilenceEnds == quiet = Idle ~> pc = "done"
=============================================================================
