-------------------------- MODULE MCNotifications --------------------------
(* Small sets of users and resources for TLC. *)
EXTENDS Notifications, TLC

CONSTANTS ada, bob, rotated, north, south

TwoUsers == {ada, bob}
Shared   == rotated :> {ada, bob}
Namesakes == [t \in {north, south} |-> "Springfield"]
=============================================================================
