---------------------------- MODULE MCEgressPool ----------------------------
(* Small instances of the egress pool for TLC. *)
EXTENDS EgressPool, TLC

CONSTANTS r1, r2

TwoRequests == {r1, r2}

(* The first member takes one request at a time, the others any number. *)
MCMaxConcurrency == [m \in Members |-> IF m = 0 THEN 1 ELSE 0]
MCWeight == [m \in Members |-> m + 1]
=============================================================================
