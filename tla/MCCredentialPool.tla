-------------------------- MODULE MCCredentialPool --------------------------
(* Small instances of the credential pool for TLC. *)
EXTENDS CredentialPool, TLC

CONSTANTS r1, r2

TwoRequests == {r1, r2}
Interchangeable == Permutations(TwoRequests)
=============================================================================
