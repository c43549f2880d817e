---------------------------- MODULE MCGroupPages ----------------------------
(* Small sets of users for TLC. *)
EXTENDS GroupPages

CONSTANTS ada, root

TwoUsers == {ada, root}

TwoTiers == [resource |-> {"resident", "member"}, chat |-> {"member"}, channel |-> {"resident"}]
=============================================================================
