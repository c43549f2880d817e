----------------------------- MODULE GroupRules -----------------------------
(***************************************************************************)
(* What the group endpoints promise of admissions, as single steps: the    *)
(* specification GroupMembership implements with transactions on a         *)
(* database.  Nobody is admitted twice; an admission by link spends one    *)
(* use of a link that has one left; an admission by invitation answers it  *)
(* with "accepted" in the same step, and nothing else does; only a group   *)
(* of a school admits anybody without a ticket.  Who is removed may keep    *)
(* the invitations they have; whose account is deleted does not.           *)
(***************************************************************************)
EXTENDS Naturals

CONSTANTS Users, Links, MaxUses, Invitations, OfSchool

VARIABLES
    members,  \* users in the group
    spent,    \* uses of each invite link
    answer,   \* status of each invitation, "none" before it is sent
    invitee,  \* whom it invites
    active    \* the group has graduated

vars == <<members, spent, answer, invitee, active>>

Init ==
    /\ members \in SUBSET Users
    /\ spent = [l \in Links |-> 0]
    /\ answer = [i \in Invitations |-> "none"]
    /\ invitee \in [Invitations -> Users]
    /\ active = FALSE

Admit(u) == u \notin members /\ members' = members \cup {u}

AdmitByLink(u, l) ==
    /\ spent[l] < MaxUses
    /\ Admit(u)
    /\ spent' = [spent EXCEPT ![l] = @ + 1]
    /\ UNCHANGED <<answer, invitee, active>>

AdmitByInvitation(i) ==
    /\ answer[i] = "pending"
    /\ Admit(invitee[i])
    /\ answer' = [answer EXCEPT ![i] = "accepted"]
    /\ UNCHANGED <<spent, invitee, active>>

AdmitBySchool(u) ==
    /\ OfSchool
    /\ Admit(u)
    /\ UNCHANGED <<spent, answer, invitee, active>>

Remove(u) ==
    /\ members' = members \ {u}
    /\ UNCHANGED <<spent, answer, invitee, active>>

Forget(u) ==
    /\ members' = members \ {u}
    /\ answer' = [i \in Invitations |->
          IF invitee[i] = u /\ answer[i] # "none" THEN "gone" ELSE answer[i]]
    /\ UNCHANGED <<spent, invitee, active>>

\* A user who is a member when the invitation arrives was admitted meanwhile.
Invite(i, u) ==
    /\ answer[i] = "none"
    /\ answer' = [answer EXCEPT ![i] = "pending"]
    /\ invitee' = [invitee EXCEPT ![i] = u]
    /\ UNCHANGED <<members, spent, active>>

\* Once sent, an invitation may be declined; that an accepted one may be
\* declined too comes of DeclineInvitation not locking the row.
Decline(i) ==
    /\ answer[i] \notin {"none", "gone"}
    /\ answer' = [answer EXCEPT ![i] = "declined"]
    /\ UNCHANGED <<members, spent, invitee, active>>

Graduate ==
    /\ ~active
    /\ active' = TRUE
    /\ UNCHANGED <<members, spent, answer, invitee>>

Next ==
    \/ \E u \in Users, l \in Links : AdmitByLink(u, l)
    \/ \E i \in Invitations : AdmitByInvitation(i) \/ Decline(i)
    \/ \E i \in Invitations, u \in Users : Invite(i, u)
    \/ \E u \in Users : AdmitBySchool(u) \/ Remove(u) \/ Forget(u)
    \/ Graduate

Spec == Init /\ [][Next]_vars
=============================================================================
