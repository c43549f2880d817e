---------------------------- MODULE MCSecretKeys ----------------------------
(* Two users for model-checking SecretKeys; the proofs are about any number. *)
EXTENDS SecretKeys

CONSTANTS a, b

TwoUsers == {a, b}
=============================================================================
