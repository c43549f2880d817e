--------------------------- MODULE MCVerification ---------------------------
(* Two users, two regions and a few cards for TLC. *)
EXTENDS Verification, TLC

CONSTANTS ann, bob, first, second

AnnAndBob   == {ann, bob}
TwoHandlers == {first, second}

\* Handlers, regions and the ids of cards are interchangeable.
Symmetry == Permutations(Handlers) \cup Permutations(Regions) \cup Permutations(Cards)
=============================================================================
