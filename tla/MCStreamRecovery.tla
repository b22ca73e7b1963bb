--------------------------- MODULE MCStreamRecovery ---------------------------
(* StreamRecovery on short streams: a few data lines of each dialect, and    *)
(* client bodies with and without a prefill.                                 *)
EXTENDS StreamRecovery

Chat(text, index, call, refusal, fin) ==
    [kind |-> "chat", type |-> "choice", id |-> 0, out |-> index, part |-> 0,
     text |-> text, call |-> call, refusal |-> refusal, finish |-> fin, item |-> "none"]
Resp(type, id, text, item) ==
    [kind |-> "responses", type |-> type, id |-> id, out |-> 0, part |-> 0,
     text |-> text, call |-> FALSE, finish |-> FALSE, item |-> item]
Bare(kind) == [kind |-> kind]

\* A delta; a delta of another choice; a refusal; the finish reason; the
\* marker.
ChatEvents ==
    {Chat(<<"a">>, 0, FALSE, FALSE, FALSE), Chat(<<"b">>, 1, FALSE, FALSE, FALSE),
     Chat(Unstated, 0, FALSE, TRUE, FALSE), Chat(Unstated, 0, FALSE, FALSE, TRUE),
     Bare("done")}

\* Deltas of two items; the text in full; a refusal; the marker.
ResponsesEvents ==
    {Resp("output_text.delta", 1, <<"a">>, "none"), Resp("output_text.delta", 2, <<"b">>, "none"),
     Resp("output_text.done", 1, <<"a">>, "none"), Resp("refusal.delta", 1, Unstated, "none"),
     Resp("completed", 0, Unstated, "none")}

\* A delta and the finish reason.
MessagesEvents == {Chat(<<"a">>, 0, FALSE, FALSE, FALSE), Chat(Unstated, 0, FALSE, FALSE, TRUE)}

MCEventsOf ==
    [s \in {"chat", "responses", "messages"} |->
        CASE s = "chat" -> ChatEvents
          [] s = "responses" -> ResponsesEvents
          [] s = "messages" -> MessagesEvents]

\* What may be broken off unended: a delta; the marker; a finish reason; a
\* line that is no data line.
MCTailsOf ==
    [s \in {"chat", "responses", "messages"} |->
        CASE s = "chat" -> {Chat(<<"a">>, 0, FALSE, FALSE, FALSE), Bare("done")}
          [] s = "responses" -> {Resp("output_text.delta", 1, <<"a">>, "none")}
          [] s = "messages" -> MessagesEvents \cup {OtherLine}]

Turn(role, text) == [role |-> role, text |-> text]
Request(surface, shape, strips, turns) ==
    [surface |-> surface, shape |-> shape, strips |-> strips, turns |-> turns]

\* Chat with a prefill, Chat whose text is stripped, Responses, and Messages,
\* from which no continuation can be built.
MCBodies ==
    {Request("chat", "conversation", FALSE, <<Turn("user", <<"q">>), Turn("assistant", <<"p">>)>>),
     Request("chat", "conversation", TRUE, <<Turn("user", <<"q">>)>>),
     Request("responses", "conversation", FALSE, <<Turn("user", <<"q">>)>>),
     Request("messages", "conversation", FALSE, <<Turn("user", <<"q">>)>>)}
=============================================================================
