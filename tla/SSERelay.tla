------------------------------ MODULE SSERelay ------------------------------
(***************************************************************************)
(* The relay of one upstream event stream to the client (proxy.CopySSE,    *)
(* CopyMessagesSSE) and the keep-alive heartbeat that shares its writer    *)
(* (pingWriter).                                                           *)
(*                                                                         *)
(* The upstream's bytes are a sequence of tokens: line terminators CR and  *)
(* LF, the field names "data:" and "event:", and field values.  The        *)
(* transport hands them over in reads of arbitrary size.  The relay frames *)
(* them into lines, hands the data lines to the observer, and writes one   *)
(* line per Write; the heartbeat's goroutine may write a comment event     *)
(* between any two of those writes.                                        *)
(***************************************************************************)
EXTENDS MessagesStream, FiniteSets

CONSTANTS Inputs,         \* the upstream streams, reads being the sizes one
                          \* transport read may have
          MaxLineBytes,   \* tokens of one line, its terminator included
          MaxEventBytes,  \* tokens of one event in flight
          MaxPings        \* bound: pings of one stream

\* The token ":ping" is the heartbeat's comment; an upstream's own comments
\* are other tokens.
ASSUME RelayAssumption ==
    /\ MaxLineBytes \in Nat \ {0} /\ MaxEventBytes \in Nat \ {0} /\ MaxPings \in Nat
    /\ \A i \in Inputs :
         /\ i.surface \in {"openai", "messages"} /\ i.ending \in {"eof", "reset"}
         /\ i.reads \subseteq Nat \ {0} /\ i.reads # {}
         /\ i.wire \in Seq(STRING) /\ \A k \in DOMAIN i.wire : i.wire[k] # ":ping"

VARIABLES input,    \* the upstream's stream, fixed at the start
          got,      \* wire tokens the transport has delivered
          used,     \* wire tokens taken out of the read buffer
          acc,      \* the last acc of those are an unterminated line so far
          frame,    \* the event in flight: its name, its size, a CR just relayed
          tr,       \* the translator (Messages surface)
          frames,   \* translated lines still to be written
          result,   \* "run", or how the copy returned
          stats,    \* StreamStats: events, terminal
          obs,      \* what the observer was handed: <<name, payload>>
          out,      \* what the client's connection accepted
          hb,       \* pingWriter: boundary, finished, its goroutine, its pings
          gone,     \* the client's connection is broken
          stage     \* the handler: "relay", "stopping", "done"

vars == <<input, got, used, acc, frame, tr, frames, result, stats, obs, out,
          hb, gone, stage>>

wire == input.wire
NoName == "none"
noFrame == [name |-> NoName, pending |-> 0, crlf |-> FALSE]

-----------------------------------------------------------------------------
(* Lines.                                                                  *)

Terminators == {CR, LF}

\* Position of the first t in b, 0 when there is none.
IndexByte(b, t) ==
    IF \E i \in 1..Len(b) : b[i] = t
    THEN CHOOSE i \in 1..Len(b) : b[i] = t /\ \A j \in 1..(i - 1) : b[j] # t
    ELSE 0

\* readToLineEnd: where the buffered bytes are cut - at the earliest
\* terminator, whichever kind it is; 0 when they hold none.
readToLineEndLFFirst(b) ==
    IF IndexByte(b, LF) > 0 THEN IndexByte(b, LF) ELSE IndexByte(b, CR)

readToLineEnd(b) ==
    LET lf == IndexByte(b, LF)
        cr == IndexByte(IF lf > 0 THEN SubSeq(b, 1, lf - 1) ELSE b, CR)
    IN  IF cr > 0 THEN cr ELSE lf

splitSSELineTerminator(line) ==
    LET n == Len(line)
    IN  IF n >= 2 /\ line[n - 1] = CR /\ line[n] = LF THEN SubSeq(line, 1, n - 2)
        ELSE IF n >= 1 /\ line[n] \in Terminators THEN SubSeq(line, 1, n - 1)
        ELSE line

isEventBoundary(line) == line \in {<<LF>>, <<CR>>, <<CR, LF>>}

isTerminalSSELine(line) ==
    splitSSELineTerminator(line) \in {<<"data:", "[DONE]">>,
        <<"event:", "response.completed">>, <<"event:", "message_stop">>}

IsField(line, field) ==
    LET c == splitSSELineTerminator(line) IN c # <<>> /\ c[1] = field

\* sseDataPayload, sseEventName: the value of a data or an event line.
FieldValue(line) ==
    LET c == splitSSELineTerminator(line) IN IF Len(c) > 1 THEN c[2] ELSE ""

\* The rewriter's effect on one payload: the upstream's model alias "m"
\* becomes the public name "M"; nothing else is in its scope.
rewriteOut(payload) == IF payload = "m" THEN "M" ELSE payload

rewriteSSELine(line) ==
    IF IsField(line, "data:") THEN [i \in DOMAIN line |-> rewriteOut(line[i])] ELSE line

-----------------------------------------------------------------------------
(* The client's writer.                                                    *)

\* endsWithBlankLine: the text between the last two LF of the buffer.
endsWithBlankLine(b) ==
    /\ \E i \in 1..Len(b) : b[i] = LF
    /\ LET i == CHOOSE i \in 1..Len(b) : b[i] = LF /\ \A k \in (i + 1)..Len(b) : b[k] # LF
           before == {k \in 1..(i - 1) : b[k] = LF}
           j == IF before = {} THEN 0
                ELSE CHOOSE k \in before : \A m \in before : m <= k
       IN  SubSeq(b, j + 1, i - 1) \in {<<>>, <<CR>>}

\* pingWriter.Write of the n tokens the connection accepted.
WriteKeepsPinging(n, b) ==
    /\ out' = out \o SubSeq(b, 1, n)
    /\ hb' = IF n = 0 THEN hb
             ELSE [hb EXCEPT !.boundary = endsWithBlankLine(SubSeq(b, 1, n))]

Write(n, b) ==
    /\ out' = out \o SubSeq(b, 1, n)
    /\ hb' = IF n = 0 THEN hb
             ELSE [hb EXCEPT !.boundary = endsWithBlankLine(SubSeq(b, 1, n)),
                             !.finished = @ \/ isTerminalSSELine(SubSeq(b, 1, n))]

\* How many tokens a Write gets through: all of them while the client is
\* there, a torn line once it is not.
Accepted(b) == IF gone THEN 0..(Len(b) - 1) ELSE {Len(b)}

-----------------------------------------------------------------------------
(* CopySSE and CopyMessagesSSE.                                            *)

Running == stage = "relay" /\ result = "run"
buffered == SubSeq(wire, used + 1, got)

\* The transport returns a read: the buffer is filled only when it is empty.
Fill(k) ==
    /\ Running /\ frames = <<>> /\ used = got /\ got < Len(wire)
    /\ got' = IF got + k > Len(wire) THEN Len(wire) ELSE got + k
    /\ UNCHANGED <<input, used, acc, frame, tr, frames, result, stats, obs, out, hb, gone, stage>>

\* The event's accounting of one line: a boundary ends it, any other line
\* joins its budget and may state its name.
FrameAfter(line) ==
    IF isEventBoundary(line)
    THEN [frame EXCEPT !.name = NoName,
                       !.pending = IF input.surface = "messages" THEN 0 ELSE @]
    ELSE [frame EXCEPT !.pending = @ + Len(line),
                       !.name = IF IsField(line, "event:") THEN FieldValue(line) ELSE @]

Observed(line, f) ==
    IF IsField(line, "data:") THEN Append(obs, <<f.name, FieldValue(line)>>) ELSE obs

\* One line of a passthrough stream.  The LF of a CRLF whose CR was already
\* relayed is forwarded and nothing else.
RelayLine(line, after) ==
    LET swallowed == frame.crlf /\ line = <<LF>>
        f         == FrameAfter(line)
        text      == rewriteSSELine(line)
        boundary  == isEventBoundary(line)
    IN  IF ~swallowed /\ f.pending > MaxEventBytes
        THEN /\ result' = "event_cap"
             /\ UNCHANGED <<frame, stats, obs, out, hb, tr, frames>>
        ELSE \E n \in Accepted(text) :
               /\ Write(n, text)
               /\ obs' = IF swallowed THEN obs ELSE Observed(line, f)
               /\ result' = IF n < Len(text) THEN "write_err" ELSE after
               /\ stats' = IF swallowed \/ n < Len(text) THEN stats
                           ELSE [events   |-> stats.events + (IF boundary THEN 1 ELSE 0),
                                 terminal |-> stats.terminal \/ isTerminalSSELine(text)]
               /\ frame' = IF swallowed THEN [frame EXCEPT !.crlf = FALSE]
                           ELSE [f EXCEPT !.crlf = (line[Len(line)] = CR),
                                          !.pending = IF boundary THEN 0 ELSE @]
               /\ UNCHANGED <<tr, frames>>

\* One line of a translated stream: it is counted and observed, and a data
\* line's payload goes through the translator; the lines it owes are written
\* one by one (WriteFrame).
TranslateLine(line, after) ==
    LET f == FrameAfter(line)
        t == Frame(tr, rewriteOut(FieldValue(line)))
    IN  IF f.pending > MaxEventBytes
        THEN /\ result' = "event_cap"
             /\ UNCHANGED <<frame, stats, obs, out, hb, tr, frames>>
        ELSE /\ frame' = f
             /\ obs' = Observed(line, f)
             /\ IF IsField(line, "data:")
                THEN tr' = t.s /\ frames' = t.out
                ELSE UNCHANGED <<tr, frames>>
             /\ result' = after
             /\ UNCHANGED <<stats, out, hb>>

TakeLine(line, after) ==
    IF input.surface = "messages" THEN TranslateLine(line, after) ELSE RelayLine(line, after)

\* A line completes inside the buffered bytes, or all of them join the line
\* under construction; past the cap the copy stops.
ReadLine ==
    /\ Running /\ frames = <<>> /\ used < got
    /\ LET c == readToLineEnd(buffered)
           n == IF c = 0 THEN Len(buffered) ELSE c
       IN  IF acc + n > MaxLineBytes
           THEN /\ result' = "line_cap"
                /\ UNCHANGED <<used, acc, frame, tr, frames, stats, obs, out, hb>>
           ELSE /\ used' = used + n
                /\ IF c = 0
                   THEN /\ acc' = acc + n
                        /\ UNCHANGED <<frame, tr, frames, result, stats, obs, out, hb>>
                   ELSE /\ acc' = 0
                        /\ TakeLine(SubSeq(wire, used - acc + 1, used + n), "run")
    /\ UNCHANGED <<input, got, gone, stage>>

\* The upstream ended, cleanly or not: an unterminated last line is relayed
\* before the copy returns.
ReadEnd ==
    /\ Running /\ frames = <<>> /\ used = got /\ got = Len(wire) /\ acc > 0
    /\ acc' = 0
    /\ TakeLine(SubSeq(wire, used - acc + 1, used), "run")
    /\ UNCHANGED <<input, got, used, gone, stage>>

\* The copy returns.  A translated stream that ended cleanly owes its
\* terminal frames first.
CopyReturns ==
    /\ Running /\ frames = <<>> /\ used = got /\ got = Len(wire) /\ acc = 0
    /\ LET t == Finish(tr)
       IN  IF input.surface = "messages" /\ input.ending = "eof" /\ t.out # <<>>
           THEN /\ tr' = t.s /\ frames' = t.out /\ UNCHANGED result
           ELSE /\ result' = input.ending /\ UNCHANGED <<tr, frames>>
    /\ UNCHANGED <<input, got, used, acc, frame, stats, obs, out, hb, gone, stage>>

\* writeFrames: one translated line per Write.
WriteFrame ==
    /\ Running /\ frames # <<>>
    /\ LET line == Head(frames)
       IN  \E n \in Accepted(line) :
             /\ Write(n, line)
             /\ IF n < Len(line)
                THEN result' = "write_err" /\ UNCHANGED <<stats, frames>>
                ELSE /\ frames' = Tail(frames)
                     /\ stats' = [events   |-> stats.events + (IF isEventBoundary(line) THEN 1 ELSE 0),
                                  terminal |-> stats.terminal \/ isTerminalSSELine(line)]
                     /\ UNCHANGED result
    /\ UNCHANGED <<input, got, used, acc, frame, tr, obs, gone, stage>>

-----------------------------------------------------------------------------
(* The heartbeat and the handler.                                          *)

Ping == <<":ping", LF, LF>>

\* runKeepAlive's tick: the silence is the upstream's and the client's to
\* choose, so a tick that finds the interval elapsed may come at any moment.
maybePingAnywhere ==
    /\ stage # "done" /\ hb.live /\ ~hb.finished
    /\ hb.pings < MaxPings
    /\ IF gone THEN hb' = [hb EXCEPT !.live = FALSE] /\ UNCHANGED out
       ELSE /\ out' = out \o Ping
            /\ hb' = [hb EXCEPT !.pings = @ + 1]
    /\ UNCHANGED <<input, got, used, acc, frame, tr, frames, result, stats, obs, gone, stage>>

maybePing ==
    /\ stage # "done" /\ hb.live /\ ~hb.finished /\ hb.boundary
    /\ hb.pings < MaxPings
    /\ IF gone THEN hb' = [hb EXCEPT !.live = FALSE] /\ UNCHANGED out
       ELSE /\ out' = out \o Ping
            /\ hb' = [hb EXCEPT !.pings = @ + 1]
    /\ UNCHANGED <<input, got, used, acc, frame, tr, frames, result, stats, obs, gone, stage>>

\* stopAndWait, first half: the stream is over and the stop channel closed.
StopHeartbeat ==
    /\ stage = "relay" /\ result # "run"
    /\ stage' = "stopping"
    /\ hb' = [hb EXCEPT !.finished = TRUE]
    /\ UNCHANGED <<input, got, used, acc, frame, tr, frames, result, stats, obs, out, gone>>

HeartbeatExits ==
    /\ stage = "stopping" /\ hb.live
    /\ hb' = [hb EXCEPT !.live = FALSE]
    /\ UNCHANGED <<input, got, used, acc, frame, tr, frames, result, stats, obs, out, gone, stage>>

\* stopAndWait, second half: the goroutine is joined and the handler returns.
Join ==
    /\ stage = "stopping" /\ ~hb.live
    /\ stage' = "done"
    /\ UNCHANGED <<input, got, used, acc, frame, tr, frames, result, stats, obs, out, hb, gone>>

\* The client's connection breaks: every later Write fails.
ClientLeaves ==
    /\ stage = "relay" /\ ~gone
    /\ gone' = TRUE
    /\ UNCHANGED <<input, got, used, acc, frame, tr, frames, result, stats, obs, out, hb, stage>>

Done == stage = "done" /\ UNCHANGED vars

Init ==
    /\ input \in Inputs
    /\ got = 0 /\ used = 0 /\ acc = 0
    /\ frame = noFrame
    /\ tr = NewChatToMessagesStream /\ frames = <<>>
    /\ result = "run"
    /\ stats = [events |-> 0, terminal |-> FALSE]
    /\ obs = <<>> /\ out = <<>>
    /\ hb = [boundary |-> TRUE, finished |-> FALSE, live |-> TRUE, pings |-> 0]
    /\ gone = FALSE /\ stage = "relay"

Next ==
    \/ \E k \in input.reads : Fill(k)
    \/ ReadLine
    \/ ReadEnd
    \/ CopyReturns
    \/ WriteFrame
    \/ maybePing
    \/ StopHeartbeat
    \/ HeartbeatExits
    \/ Join
    \/ ClientLeaves
    \/ Done

Spec == Init /\ [][Next]_vars

-----------------------------------------------------------------------------
(* The reference: what an EventSource client makes of a byte stream.       *)

\* One token of the EventSource parser.  A blank line dispatches the event
\* when it carries data; a line that is neither data nor event is ignored.
ParseToken(p, t) ==
    LET line == p.line
        ended == [p EXCEPT !.line = <<>>, !.cr = (t = CR)]
    IN  IF t = LF /\ p.cr THEN [p EXCEPT !.cr = FALSE]
        ELSE IF t \notin Terminators THEN [p EXCEPT !.line = Append(@, t), !.cr = FALSE]
        ELSE IF line = <<>>
        THEN [ended EXCEPT !.blanks = @ + 1, !.name = NoName, !.data = <<>>,
                 !.events = IF p.data = <<>> THEN @
                            ELSE Append(@, [name |-> p.name, data |-> p.data])]
        ELSE IF line[1] = "data:"
        THEN [ended EXCEPT !.data = @ \o Tail(line),
                 !.seen = Append(@, <<p.name, IF Len(line) > 1 THEN line[2] ELSE "">>)]
        ELSE IF line[1] = "event:"
        THEN [ended EXCEPT !.name = IF Len(line) > 1 THEN line[2] ELSE ""]
        ELSE ended

\* The parser before the first token.
ParseStart ==
    [line |-> <<>>, cr |-> FALSE, name |-> NoName, data |-> <<>>,
     blanks |-> 0, seen |-> <<>>, events |-> <<>>]

Parse(s) ==
    LET after[n \in 0..Len(s)] ==
            IF n = 0 THEN ParseStart ELSE ParseToken(after[n - 1], s[n])
    IN  after[Len(s)]

\* The wire tokens whose lines the copy has dealt with.
consumed == SubSeq(wire, 1, used - acc)

\* Some line of s is one of the terminal markers.
Markers == {<<"data:", "[DONE]">>, <<"event:", "response.completed">>, <<"event:", "message_stop">>}

MarkerLine(s) ==
    \E i \in 1..(Len(s) - 1) :
        /\ <<s[i], s[i + 1]>> \in Markers
        /\ i = 1 \/ s[i - 1] \in Terminators
        /\ i + 2 > Len(s) \/ s[i + 2] \in Terminators

HasCRLF == \E i \in 1..(Len(wire) - 1) : wire[i] = CR /\ wire[i + 1] = LF

\* The events a client is owed for those of the upstream.
RewrittenEvents(events) ==
    [i \in DOMAIN events |->
        [name |-> events[i].name,
         data |-> [k \in DOMAIN events[i].data |-> rewriteOut(events[i].data[k])]]]

-----------------------------------------------------------------------------
(* Properties.                                                             *)

\* However the transport splits its reads, the observer is handed exactly
\* the data lines of the byte stream, each with the name its own frame
\* stated, and a passthrough stream's event count and terminal flag are
\* those of the bytes: no line or boundary is ever derived from a read
\* boundary (readToLineEnd, CopySSE).  A last line without a terminator and
\* a line the copy refused or could not write are outside the comparison.
FramingIsByteFunction ==
    (/\ result \in {"run", "eof", "reset"}
     /\ consumed # <<>> => consumed[Len(consumed)] \in Terminators) =>
        LET p == Parse(consumed)
        IN  /\ Len(obs) = Len(p.seen)
            /\ \A i \in 1..Len(obs) : obs[i][2] = p.seen[i][2]
            /\ input.surface = "openai" =>
                 /\ obs = p.seen
                 /\ stats.events = p.blanks
                 /\ stats.terminal <=> MarkerLine(consumed)

\* The heartbeat is invisible: the events a client dispatches from what it
\* received are those of the upstream's bytes with their data rewritten, for
\* streams that do not use CRLF, and no comment follows the terminal marker
\* on any surface (pingWriter.maybePing, pingWriter.Write).
PingsInvisible ==
    /\ (input.surface = "openai" /\ ~HasCRLF) =>
          LET seen == Parse(out).events
              sent == RewrittenEvents(Parse(consumed).events)
          IN  /\ IsPrefix(seen, sent)
              /\ result \notin {"write_err", "event_cap"} => seen = sent
    /\ \A j \in 1..Len(out) :
          out[j] = ":ping" => ~MarkerLine(SubSeq(out, 1, j - 1))

\* What keepalive.go and the README promise of every stream: a ping goes out
\* at an event boundary and never splits an event.
PingsAtBoundaries ==
    \A j \in 1..Len(out) :
        out[j] = ":ping" =>
            LET p == Parse(SubSeq(out, 1, j - 1))
            IN  p.line = <<>> /\ p.data = <<>> /\ p.name = NoName

\* Whatever the upstream sends and wherever the stream is cut, what the
\* client of the Messages surface has received when the copy returns is a
\* prefix of a well-formed Anthropic message, and it ends in message_stop only when the upstream
\* stated a finish reason (ChatToMessagesStream, writeFrames).
MessagesWellFormed ==
    (input.surface = "messages" /\ result # "run" /\ stage = "relay") =>
        LET ev == Parse(out).events
        IN  /\ WellFormedMessage(ev)
            /\ (\E i \in 1..Len(ev) : ev[i].name = "message_stop") =>
                 \E i \in 1..Len(wire) :
                    LET payload == rewriteOut(wire[i])
                    IN  payload \in DOMAIN ChunkOf /\ ChunkOf[payload].finish
            /\ (\E i \in 1..Len(ev) : ev[i].name = "message_stop") => stats.terminal
=============================================================================
