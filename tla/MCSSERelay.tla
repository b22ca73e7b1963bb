----------------------------- MODULE MCSSERelay -----------------------------
(* SSERelay on short streams: every combination of a few lines, line        *)
(* terminators and payloads.                                                *)
EXTENDS SSERelay

Call(announced, args) == [announced |-> announced, args |-> args]
Chunk(text, calls, finish, usage, error) ==
    [text |-> text, calls |-> calls, finish |-> finish, usage |-> usage, error |-> error]

\* The Chat chunks of the Messages surface: text; one announced call; a
\* fragment; two calls in one chunk; a finish reason, alone and with text;
\* usage, alone and with the finish reason; an in-band error.
MCChunkOf ==
    [p \in {"x", "call", "args", "two", "fin", "xfin", "use", "finuse", "err"} |->
        CASE p = "x"      -> Chunk(TRUE, <<>>, FALSE, FALSE, FALSE)
          [] p = "call"   -> Chunk(FALSE, <<Call(TRUE, TRUE)>>, FALSE, FALSE, FALSE)
          [] p = "args"   -> Chunk(FALSE, <<Call(FALSE, TRUE)>>, FALSE, FALSE, FALSE)
          [] p = "two"    -> Chunk(FALSE, <<Call(TRUE, FALSE), Call(TRUE, TRUE)>>, FALSE, FALSE, FALSE)
          [] p = "fin"    -> Chunk(FALSE, <<>>, TRUE, FALSE, FALSE)
          [] p = "xfin"   -> Chunk(TRUE, <<>>, TRUE, FALSE, FALSE)
          [] p = "use"    -> Chunk(FALSE, <<>>, FALSE, TRUE, FALSE)
          [] p = "finuse" -> Chunk(FALSE, <<>>, TRUE, TRUE, FALSE)
          [] p = "err"    -> Chunk(FALSE, <<>>, FALSE, FALSE, TRUE)]

Reads == {1, 4}
Ends == {<<LF>>, <<CR>>, <<CR, LF>>}
Lines(contents) == {c \o e : c \in contents, e \in Ends}

\* Passthrough: three lines in every mix of terminators, the last one blank,
\* and a tail without a terminator.
First == Lines({<<>>, <<"data:", "m">>, <<"event:", "m">>, <<"event:", "response.completed">>})
Second == Lines({<<>>, <<"data:", "x">>, <<"data:", "[DONE]">>})
Blank == Lines({<<>>})
Tails == {<<>>, <<"data:", "[DONE]">>}

OpenAIInputs ==
    {[surface |-> "openai", wire |-> a \o b \o c \o t, ending |-> "eof", reads |-> Reads] :
        a \in First, b \in Second, c \in Blank, t \in Tails}
    \cup {[surface |-> "openai", wire |-> a \o t, ending |-> "reset", reads |-> Reads] : a \in First, t \in Tails}
    \cup {[surface |-> "openai", wire |-> <<"data:", "x", LF, "data:", "x", LF, "data:", "x", LF, LF>>, ending |-> "eof", reads |-> Reads],
          [surface |-> "openai", wire |-> <<"data:", "x", "x", "x", LF, LF>>, ending |-> "eof", reads |-> Reads]}

\* Messages: three payloads on data lines, the first one that opens the
\* message in some way; a stream that is reset; one in CRLF framing.
Payloads == DOMAIN MCChunkOf \cup {"[DONE]", "junk"}
DataLine(p) == <<"data:", p, LF>>
MessagesInputs ==
    {[surface |-> "messages", wire |-> DataLine(a) \o DataLine(b) \o DataLine(c) \o DataLine("[DONE]"), ending |-> "eof", reads |-> {50}] :
        a \in {"x", "call"}, b \in Payloads, c \in Payloads}
    \cup {[surface |-> "messages", wire |-> DataLine(a) \o DataLine(b) \o <<LF>>, ending |-> e, reads |-> {50}] :
             a \in {"call", "xfin"}, b \in Payloads, e \in {"eof", "reset"}}
    \cup {[surface |-> "messages", wire |-> <<"event:", "a", CR, LF, "data:", p, CR, LF, CR, LF>>, ending |-> "eof", reads |-> {50}] :
             p \in {"x", "err"}}

MCInputs == OpenAIInputs \cup MessagesInputs

\* The stream of the ping counterexample: one event in CRLF framing.
CRLFInputs ==
    {[surface |-> "openai", wire |-> <<"event:", "a", CR, LF, "data:", "x", CR, LF, CR, LF>>, ending |-> "eof", reads |-> Reads],
     [surface |-> "openai", wire |-> <<"event:", "a", LF, "data:", "x", LF, LF>>, ending |-> "eof", reads |-> Reads]}
=============================================================================
