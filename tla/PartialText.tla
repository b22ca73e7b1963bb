----------------------------- MODULE PartialText -----------------------------
(***************************************************************************)
(* The accumulator of a committed stream (proxy.partialText) and the       *)
(* builders of a continuation request (package inject).                    *)
(*                                                                         *)
(* The accumulator is fed the payload of every data line, decides whether  *)
(* the stream may be continued, and holds the assistant text the client    *)
(* has been sent.  It lives for the whole logical stream; its identities   *)
(* live for one upstream response.  Text is a sequence of units, an event  *)
(* a record of what the accumulator reads in it:                           *)
(*   kind    "done", "junk", "error", "chat" or "responses"                *)
(*   type    the shape of a chat chunk or the event type of a Responses    *)
(*           frame (a class of types that are treated alike)               *)
(*   id, out, part   the identity members; Absent when missing             *)
(*   text    the text stated, a sequence; Unstated when missing            *)
(*   call, finish    a tool call, a finish reason (chat)                   *)
(*   item    the type of the item or part announced or closed              *)
(***************************************************************************)
EXTENDS Integers, Sequences

CONSTANT MaxPartialBytes  \* max-partial-bytes, in units of text

ASSUME PartialAssumption == MaxPartialBytes \in Nat

Absent == -1
Unstated == <<"unstated">>

newPartialText ==
    [text |-> <<>>, unsafe |-> "none", terminal |-> FALSE, passStart |-> 0,
     itemSeen |-> FALSE, item |-> <<Absent, Absent>>, part |-> Absent]

\* A new upstream response: the identities start afresh, the text and the
\* latches stay.
beginUpstreamStream(p) ==
    [p EXCEPT !.passStart = Len(p.text), !.itemSeen = FALSE,
              !.item = <<Absent, Absent>>, !.part = Absent]

passText(p) == SubSeq(p.text, p.passStart + 1, Len(p.text))

\* The first refusal is final and releases the text; so does the declared
\* end of the generation.
refuse(p, reason) ==
    [p EXCEPT !.unsafe = IF @ = "none" THEN reason ELSE @, !.text = <<>>, !.passStart = 0]

finish(p) == [p EXCEPT !.terminal = TRUE, !.text = <<>>, !.passStart = 0]

append(p, t) ==
    IF t = <<>> \/ p.unsafe # "none" \/ p.terminal THEN p
    ELSE IF Len(p.text) + Len(t) >= MaxPartialBytes THEN refuse(p, "oversize")
    ELSE [p EXCEPT !.text = @ \o t]

-----------------------------------------------------------------------------
(* Chat.                                                                   *)

\* bindChoiceIndex: only the first choice, index 0, may be accumulated.
bindChoiceIndex(p, index) ==
    IF index = Absent THEN refuse(p, "unknown_shape")
    ELSE IF index # 0 THEN refuse(p, "multiple_outputs")
    ELSE p

observeChatChunk(p, ev) ==
    IF ev.type = "no_choices" THEN p
    ELSE IF ev.type = "choices" THEN refuse(p, "multiple_outputs")
    ELSE IF ev.call THEN refuse(p, "tool_calls")
    ELSE IF ev.type = "unreadable" THEN refuse(p, "unknown_shape")
    ELSE LET bound == bindChoiceIndex(p, ev.out)
             grown == IF ev.text = Unstated THEN bound ELSE append(bound, ev.text)
         IN  IF grown.unsafe = "none" /\ ev.finish THEN finish(grown) ELSE grown

-----------------------------------------------------------------------------
(* Responses.                                                              *)

\* Mutant: text of another output is taken for the same one.
bindItemIdentityTrusting(p, id, out) == [p EXCEPT !.item = <<id, out>>]

bindItemIdentity(p, id, out) ==
    IF p.item = <<Absent, Absent>> THEN [p EXCEPT !.item = <<id, out>>]
    ELSE IF p.item # <<id, out>> THEN refuse(p, "multiple_outputs")
    ELSE p

bindTextStream(p, ev) ==
    IF Absent \in {ev.id, ev.out, ev.part} THEN refuse(p, "unknown_shape")
    ELSE LET q == bindItemIdentity(p, ev.id, ev.out)
         IN  IF q.unsafe # "none" THEN q
             ELSE IF q.part = Absent THEN [q EXCEPT !.part = ev.part]
             ELSE IF q.part # ev.part THEN refuse(q, "multiple_outputs")
             ELSE q

bindMessageItem(p, ev) ==
    IF Absent \in {ev.id, ev.out} THEN refuse(p, "unknown_shape")
    ELSE bindItemIdentity(p, ev.id, ev.out)

appendDelta(p, ev) ==
    IF ev.text = Unstated THEN p
    ELSE LET q == bindTextStream(p, ev)
         IN  IF q.unsafe # "none" THEN q ELSE append(q, ev.text)

\* The output text in full: it must be what this response streamed, and it
\* ends the generation.
observeResponsesTextDone(p, ev) ==
    LET q == bindTextStream(p, ev)
        r == IF ev.text = Unstated THEN refuse(q, "unknown_shape")
             ELSE IF passText(q) = <<>> THEN append(q, ev.text)
             ELSE IF passText(q) # ev.text THEN refuse(q, "unknown_shape")
             ELSE q
    IN  IF q.unsafe # "none" THEN q ELSE IF r.unsafe = "none" THEN finish(r) ELSE r

observeResponsesRefusalDone(p, ev) ==
    IF ev.text \in {Unstated, <<>>} THEN p ELSE refuse(p, "refusal")

\* An announced message is counted, its completion is not.
observeResponseItem(p, ev) ==
    CASE ev.item = "message" ->
             IF p.itemSeen THEN refuse(p, "multiple_outputs")
             ELSE bindMessageItem([p EXCEPT !.itemSeen = TRUE], ev)
      [] ev.item = "reasoning" -> p
      [] ev.item = "unreadable" -> refuse(p, "unknown_shape")
      [] OTHER -> refuse(p, "tool_calls")

observeResponseItemDone(p, ev) ==
    CASE ev.item = "message" -> bindMessageItem(p, ev)
      [] ev.item = "reasoning" -> p
      [] ev.item = "unreadable" -> refuse(p, "unknown_shape")
      [] OTHER -> refuse(p, "tool_calls")

\* A closing part may state its text: a check, never a source.
verifyPartText(p, ev) ==
    IF ev.text \in {Unstated, <<>>, passText(p)} THEN p ELSE refuse(p, "unknown_shape")

observeContentPart(p, ev, done) ==
    LET q == bindTextStream(p, ev)
    IN  IF q.unsafe # "none" THEN q
        ELSE CASE ev.item = "none" -> q
               [] ev.item = "output_text" -> IF done THEN verifyPartText(q, ev) ELSE q
               [] ev.item = "refusal" -> refuse(q, "refusal")
               [] OTHER -> refuse(q, "unknown_shape")

observeResponsesEvent(p, ev) ==
    CASE ev.type = "output_text.delta"  -> appendDelta(p, ev)
      [] ev.type = "output_text.done"   -> observeResponsesTextDone(p, ev)
      [] ev.type = "refusal.delta"      -> refuse(p, "refusal")
      [] ev.type = "refusal.done"       -> observeResponsesRefusalDone(p, ev)
      [] ev.type = "output_item.added"  -> observeResponseItem(p, ev)
      [] ev.type = "output_item.done"   -> observeResponseItemDone(p, ev)
      [] ev.type = "call_arguments"     -> refuse(p, "tool_calls")
      [] ev.type = "failed"             -> refuse(p, "upstream_terminal")
      [] ev.type = "content_part.added" -> observeContentPart(p, ev, FALSE)
      [] ev.type = "content_part.done"  -> observeContentPart(p, ev, TRUE)
      [] ev.type = "annotation.added"   -> bindTextStream(p, ev)
      [] ev.type = "metadata"           -> p
      [] OTHER                          -> refuse(p, "unknown_shape")

\* Observe: one data line.  A Responses frame whose event line does not
\* agree with its payload arrives here as type "misnamed" and is refused.
Observe(p, ev) ==
    IF p.unsafe # "none" \/ p.terminal THEN p
    ELSE CASE ev.kind = "done"      -> p
           [] ev.kind = "junk"      -> refuse(p, "not_object")
           [] ev.kind = "error"     -> refuse(p, "upstream_terminal")
           [] ev.kind = "chat"      -> observeChatChunk(p, ev)
           [] ev.kind = "responses" -> observeResponsesEvent(p, ev)

Verdict(p) ==
    IF p.unsafe # "none" THEN [kind |-> "unsafe", reason |-> p.unsafe]
    ELSE IF p.terminal THEN [kind |-> "terminal", reason |-> "none"]
    ELSE IF p.text = <<>> THEN [kind |-> "unsafe", reason |-> "no_prefix"]
    ELSE [kind |-> "recoverable", reason |-> "none"]

-----------------------------------------------------------------------------
(* The continuation request.  A client body is a conversation, a sequence  *)
(* of turns [role, text], or a shape the builder refuses.                  *)

Refused(reason) == [ok |-> FALSE, reason |-> reason, turns |-> <<>>]
Built(turns) == [ok |-> TRUE, reason |-> "none", turns |-> turns]

\* Chat: the text extends a final assistant turn or becomes one.
BuildContinuationChat(body, prefix) ==
    LET n == Len(body.turns)
    IN  IF body.shape # "conversation" THEN Refused(body.shape)
        ELSE IF prefix = <<>> THEN Refused("no_op")
        ELSE IF n = 0 THEN Refused("no_messages")
        ELSE IF body.turns[n].role = "assistant"
        THEN Built([body.turns EXCEPT ![n].text = @ \o prefix])
        ELSE Built(Append(body.turns, [role |-> "assistant", text |-> prefix]))

\* Responses: the text and then the fixed instruction, as two items.
BuildContinuationResponses(body, prefix) ==
    IF body.shape # "conversation" THEN Refused(body.shape)
    ELSE IF prefix = <<>> THEN Refused("no_op")
    ELSE Built(body.turns \o <<[role |-> "assistant", text |-> prefix],
                              [role |-> "user", text |-> <<"continue">>]>>)

BuildContinuationMessages(body, prefix) == Refused("unsupported_shape")
=============================================================================
