--------------------------- MODULE MessagesStream ---------------------------
(***************************************************************************)
(* The translator of the Anthropic Messages surface                        *)
(* (inject.ChatToMessagesStream): a pure state machine that is fed the     *)
(* payload of every data line of an upstream Chat stream and answers with  *)
(* the Anthropic events owed to the client.                                *)
(*                                                                         *)
(* A payload is a token.  ChunkOf maps the tokens that are JSON objects to *)
(* what the translator reads in them; every other token except [DONE] is   *)
(* a payload it ignores.  The lines of an event are sequences of tokens,   *)
(* one line per element, as writeFrames hands them to the client's writer. *)
(***************************************************************************)
EXTENDS Integers, SequencesExt

CONSTANT ChunkOf  \* what the translator reads in a payload token

\* The empty payload is no JSON object.
ASSUME ChunkAssumption ==
    /\ "" \notin DOMAIN ChunkOf
    /\ \A p \in DOMAIN ChunkOf :
         ChunkOf[p] \in [text : BOOLEAN, calls : Seq([announced : BOOLEAN, args : BOOLEAN]),
                         finish : BOOLEAN, usage : BOOLEAN, error : BOOLEAN]

LF == "LF"
CR == "CR"

\* A fresh translator: one per upstream response.
NewChatToMessagesStream ==
    [started |-> FALSE, stopped |-> FALSE, failed |-> FALSE,
     finish |-> FALSE, usage |-> FALSE,
     nextIndex |-> 0, openIndex |-> 0, openKind |-> "none"]

\* The three lines of one event: its name, its data, the blank line.
appendEventFrame(name, data) ==
    << <<"event:", name, LF>>, <<"data:">> \o data \o <<LF>>, <<LF>> >>

\* A block's index, in unary.
Index(n) == [i \in 1..n |-> "I"]

\* A translation in progress: the translator's state and the lines so far.
Emit(r, name, data) == [r EXCEPT !.out = @ \o appendEventFrame(name, data)]

appendClose(r) ==
    IF r.s.openKind = "none"
    THEN r
    ELSE [Emit(r, "content_block_stop", <<"block">> \o Index(r.s.openIndex))
              EXCEPT !.s.openKind = "none"]

\* A block of the given kind opens under the next index, after closing the
\* one that is open.
OpenBlockForgetful(r, kind) ==
    [Emit(r, "content_block_start", <<kind>> \o Index(r.s.nextIndex))
        EXCEPT !.s.openIndex = r.s.nextIndex, !.s.openKind = kind,
               !.s.nextIndex = @ + 1]

OpenBlock(r, kind) ==
    LET c == appendClose(r)
    IN  [Emit(c, "content_block_start", <<kind>> \o Index(c.s.nextIndex))
            EXCEPT !.s.openIndex = c.s.nextIndex, !.s.openKind = kind,
                   !.s.nextIndex = @ + 1]

Delta(r) == Emit(r, "content_block_delta", <<r.s.openKind>> \o Index(r.s.openIndex))

\* One tool call of a delta: an announced call opens its block; a fragment
\* that finds no open tool block is dropped.
ToolCall(r, call) ==
    LET opened == IF call.announced THEN OpenBlock(r, "tool") ELSE r
    IN  IF opened.s.openKind = "tool" /\ call.args THEN Delta(opened) ELSE opened

appendContent(r, chunk) ==
    LET texted == IF ~chunk.text THEN r
                  ELSE IF r.s.openKind = "text" THEN Delta(r)
                  ELSE Delta(OpenBlock(r, "text"))
        after[k \in 0..Len(chunk.calls)] ==
            IF k = 0 THEN texted ELSE ToolCall(after[k - 1], chunk.calls[k])
    IN  after[Len(chunk.calls)]

appendTerminate(r) ==
    IF r.s.stopped
    THEN r
    ELSE LET c == appendClose([r EXCEPT !.s.stopped = TRUE])
         IN  Emit(Emit(c, "message_delta", <<"stop_reason">>), "message_stop", <<"stop">>)

\* Frame: what one payload owes the client.  finish and usage are latched
\* before anything is emitted; both known is what ends the message.
Frame(s, payload) ==
    LET nothing == [s |-> s, out |-> <<>>]
    IN  IF s.stopped \/ s.failed THEN nothing
        ELSE IF payload = "[DONE]"
        THEN IF s.finish THEN appendTerminate(nothing) ELSE nothing
        ELSE IF payload \notin DOMAIN ChunkOf THEN nothing
        ELSE LET chunk   == ChunkOf[payload]
                 latched == [s EXCEPT !.usage = @ \/ chunk.usage,
                                      !.finish = @ \/ chunk.finish,
                                      !.started = TRUE]
                 begun   == IF s.started THEN [s |-> latched, out |-> <<>>]
                            ELSE Emit([s |-> latched, out |-> <<>>],
                                      "message_start", <<"message">>)
                 body    == appendContent(begun, chunk)
             IN  IF chunk.error
                 THEN Emit([nothing EXCEPT !.s.failed = TRUE], "error", <<"api_error">>)
                 ELSE IF latched.finish /\ latched.usage THEN appendTerminate(body)
                 ELSE body

\* Finish: what a clean end of input owes.
Finish(s) ==
    LET nothing == [s |-> s, out |-> <<>>]
    IN  IF s.stopped \/ s.failed \/ ~s.finish THEN nothing ELSE appendTerminate(nothing)

\* The Anthropic event grammar, over a sequence of dispatched events
\* [name, data]: message_start opens the message and occurs once; blocks are
\* numbered from 0 and never overlap; a delta names the open block and its
\* kind; message_delta and message_stop come last, in that order, with every
\* block closed; an error event is the last one.
WellFormedMessage(ev) ==
    LET Named(n, i) == {j \in 1..i : ev[j].name = n}
        Starts(i)   == Cardinality(Named("content_block_start", i))
        Stops(i)    == Cardinality(Named("content_block_stop", i))
        Opened(i)   == CHOOSE j \in Named("content_block_start", i) :
                           \A k \in Named("content_block_start", i) : k <= j
    IN  \A i \in 1..Len(ev) :
           CASE ev[i].name = "message_start" -> i = 1
             [] ev[i].name = "error" -> i = Len(ev)
             [] ev[i].name = "content_block_start" ->
                    /\ i > 1
                    /\ Starts(i - 1) = Stops(i - 1)
                    /\ Tail(ev[i].data) = Index(Starts(i - 1))
             [] ev[i].name = "content_block_delta" ->
                    /\ Starts(i) = Stops(i) + 1
                    /\ ev[i].data = ev[Opened(i)].data
             [] ev[i].name = "content_block_stop" ->
                    /\ Starts(i) = Stops(i)
                    /\ Tail(ev[i].data) = Tail(ev[Opened(i)].data)
             [] ev[i].name = "message_delta" ->
                    i > 1 /\ Starts(i) = Stops(i) /\ Named("message_delta", i) = {i}
             [] ev[i].name = "message_stop" ->
                    i = Len(ev) /\ i > 1 /\ ev[i - 1].name = "message_delta"
             [] OTHER -> FALSE
=============================================================================
