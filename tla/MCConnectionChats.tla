------------------------- MODULE MCConnectionChats -------------------------
(* Small sets of groups for TLC. *)
EXTENDS ConnectionChats, TLC

CONSTANTS north, south, east

ThreeGroups == {north, south, east}
Reachable    == {ThreeGroups}
Symmetry    == Permutations(Handlers) \cup Permutations(Chats) \cup Permutations(Proposals)
=============================================================================
