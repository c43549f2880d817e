---------------------------- MODULE MCConnections ----------------------------
(* Small sets of groups for TLC. *)
EXTENDS Connections, TLC

CONSTANTS north, south, east, first, second

ThreeGroups == {north, south, east}
TwoHandlers == {first, second}

\* Handlers, and the ids of proposals and connections, are interchangeable.
Symmetry == Permutations(Handlers) \cup Permutations(Proposals) \cup Permutations(Connections)
=============================================================================
