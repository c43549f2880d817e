-------------------------- MODULE MCGroupMembership --------------------------
(* Small groups for TLC. *)
EXTENDS GroupMembership

CONSTANTS founder, ann

TwoUsers == {founder, ann}
=============================================================================
