------------------------------ MODULE Accounts ------------------------------
(***************************************************************************)
(* The accounts that the modules of one group speak of.  Superusers may do *)
(* what admins of the group may, without belonging to it.                  *)
(***************************************************************************)
CONSTANTS
    Users,      \* accounts
    Superusers  \* users with is_superuser

ASSUME SuperusersAssumption == Superusers \subseteq Users
=============================================================================
