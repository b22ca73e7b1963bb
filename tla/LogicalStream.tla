---------------------------- MODULE LogicalStream ----------------------------
(***************************************************************************)
(* What stream recovery promises about one committed stream, whatever the  *)
(* upstream, the client and the timers do: data is accepted only while the *)
(* idle window is open; the window, once shut, stays shut; a continuation  *)
(* is requested at most MaxRecoveries times, only while the window is open *)
(* and only for an answer that has not reached its terminal marker; and    *)
(* the stream ends once, as completed only with the marker.                *)
(***************************************************************************)
EXTENDS Integers

CONSTANT MaxRecoveries

VARIABLES accepted,  \* source reads relayed to the client
          marker,    \* the terminal marker reached the client
          hops,      \* continuations requested
          cut,       \* the idle window is shut
          outcome    \* "open", then the outcome of the completion record

lvars == <<accepted, marker, hops, cut, outcome>>

Outcomes == {"completed", "stream_truncated", "client_disconnected", "stream_limit_exceeded"}

LInit == accepted = 0 /\ marker = FALSE /\ hops = 0 /\ cut = FALSE /\ outcome = "open"

Accept ==
    /\ outcome = "open" /\ ~cut
    /\ accepted' = accepted + 1
    /\ marker' \in BOOLEAN /\ (marker => marker')
    /\ UNCHANGED <<hops, cut, outcome>>

\* A translated stream that ends cleanly is given its marker by the proxy.
Mark ==
    /\ outcome = "open" /\ ~marker
    /\ marker' = TRUE
    /\ UNCHANGED <<accepted, hops, cut, outcome>>

Continue ==
    /\ outcome = "open" /\ ~cut /\ ~marker /\ hops < MaxRecoveries
    /\ hops' = hops + 1
    /\ UNCHANGED <<accepted, marker, cut, outcome>>

\* What was accepted before the window shut may still hold the marker.
Shut ==
    /\ ~cut
    /\ cut' = TRUE
    /\ marker' \in BOOLEAN /\ (marker => marker') /\ (outcome # "open" => marker' = marker)
    /\ UNCHANGED <<accepted, hops, outcome>>

End ==
    /\ outcome = "open"
    /\ outcome' \in Outcomes /\ (outcome' = "completed" => marker)
    /\ UNCHANGED <<accepted, marker, hops, cut>>

LNext == Accept \/ Mark \/ Continue \/ Shut \/ End

LSpec == LInit /\ [][LNext]_lvars
=============================================================================
