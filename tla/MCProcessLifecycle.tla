------------------------- MODULE MCProcessLifecycle -------------------------
(* A small instance of the process for TLC. *)
EXTENDS ProcessLifecycle
=============================================================================
