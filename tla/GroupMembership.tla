-------------------------- MODULE GroupMembership --------------------------
(***************************************************************************)
(* Members of one group: the tables groups, group_members,                 *)
(* group_invite_links, group_invitations, group_blocked_users and          *)
(* group_trust_vouches, and the endpoints that change them.                *)
(*                                                                         *)
(* A request that reads in one statement and writes in a later one is two  *)
(* actions: the first adds to requests what it found, the second writes.   *)
(* Inside a transaction the database (MariaDB, REPEATABLE READ) gives      *)
(* plain SELECTs a snapshot, so reading early in a transaction is no       *)
(* different from reading outside it, but SELECT ... FOR UPDATE keeps its  *)
(* row locked: the operators LinkLocked and InvitationLocked.  A permission *)
(* that is only read (is the caller an admin, a member) is checked with    *)
(* the write: the same writes could have come right after the read.        *)
(*                                                                         *)
(* A column of group_members that is a flag is the set of users whose row  *)
(* has it.  Time only passes a link's or an invitation's expiry.  An       *)
(* account that is deleted is gone for good: a user who registers again is *)
(* another user.                                                           *)
(***************************************************************************)
EXTENDS Accounts, Naturals, FiniteSets

CONSTANTS
    Creator,            \* the user who created the group
    Links,              \* invite links that may be created
    MaxUses,            \* max_uses of each link
    Invitations,        \* ids of the invitations that may be sent
    FoundingThreshold,  \* members a provisional group needs to graduate: 3
    TrustThreshold,     \* trusted_vouch_threshold, a column nothing sets: 2
    OfSchool,           \* whether the group is linked to a school
    MaxVouches,         \* bound: vouches recorded
    MaxRequests         \* bound: requests between their read and their write

ASSUME UsersAssumption == IsFiniteSet(Users)
ASSUME CreatorAssumption == Creator \in Users
ASSUME MaxUsesAssumption == MaxUses \in Nat \ {0}
ASSUME ThresholdAssumption ==
    FoundingThreshold \in Nat \ {0, 1} /\ TrustThreshold \in Nat \ {0, 1}
ASSUME OfSchoolAssumption == OfSchool \in BOOLEAN
ASSUME BoundsAssumption == MaxVouches \in Nat /\ MaxRequests \in Nat

VARIABLES
    accounts,     \* users with a users row
    members,      \* users with a group_members row
    admins,       \* rows with is_admin
    founding,     \* rows with is_founding_member
    trusted,      \* rows with trust_level = 'trusted'
    banned,       \* users with a group_blocked_users row
    active,       \* groups.status = 'active' rather than 'provisional'
    linkState,    \* "none", "open" or "expired"
    useCount,     \* use_count of each link
    invitations,  \* rows of group_invitations
    vouches,      \* <<voucher, vouched>>
    requests,     \* requests between their read and their write
    \* History, read by the properties only.
    exposed,      \* users whose ban an admission of theirs overlooked
    unchecked     \* an admission was not followed by a graduation check

rows    == <<members, admins, founding, trusted>>
links   == <<linkState, useCount>>
history == <<exposed, unchecked>>
vars    == <<rows, accounts, banned, active, links, invitations, vouches, requests, history>>

Status == {"none", "pending", "accepted", "declined", "gone"}

Invitation == [status : Status, user : Users, by : Users, expired : BOOLEAN]

\* Requests in flight, with what they have read.
Join(u, l)      == [op |-> "join", user |-> u, link |-> l]
Accept(i)       == [op |-> "accept", user |-> invitations[i].user, invitation |-> i]
Decline(i)      == [op |-> "decline", invitation |-> i]
Invite(c, u)    == [op |-> "invite", by |-> c, user |-> u]
Leave(u)        == [op |-> "leave", user |-> u]
Vouch(c, u, n)  == [op |-> "vouch", by |-> c, user |-> u, count |-> n]
Check(u)        == [op |-> "check", user |-> u]
Graduation(u)   == [op |-> "graduation", user |-> u]

Of(op) == {r \in requests : r.op = op}

Begin(r) ==
    /\ Cardinality(requests) < MaxRequests
    /\ r \notin requests
    /\ requests' = requests \cup {r}

End(r) == requests' = requests \ {r}

LinkLocked(l)       == \E r \in Of("join") : r.link = l
InvitationLocked(i) == \E r \in Of("accept") : r.invitation = i

\* requireGroupAdmin
MayAdminister(c) == c \in admins \cup Superusers
-----------------------------------------------------------------------------
\* Create: the creator is the only member, founding and admin.
Init ==
    /\ accounts = Users
    /\ members = {Creator}
    /\ admins = {Creator}
    /\ founding = {Creator}
    /\ trusted = {}
    /\ banned = {}
    /\ active = FALSE
    /\ linkState = [l \in Links |-> "none"]
    /\ useCount = [l \in Links |-> 0]
    /\ invitations = [i \in Invitations |->
          [status |-> "none", user |-> Creator, by |-> Creator, expired |-> FALSE]]
    /\ vouches = {}
    /\ requests = {}
    /\ exposed = {}
    /\ unchecked = FALSE

\* INSERT INTO group_members, which the foreign key refuses without an account;
\* the caller has dealt with an existing row.
InsertMember(u) ==
    /\ u \in accounts
    /\ members' = members \cup {u}
    /\ UNCHANGED <<admins, founding, trusted>>

\* DELETE FROM group_members (the revocation of keys is in SecretKeys).
DeleteMember(u) ==
    /\ members' = members \ {u}
    /\ admins' = admins \ {u}
    /\ founding' = founding \ {u}
    /\ trusted' = trusted \ {u}
-----------------------------------------------------------------------------
(* Invite links.                                                           *)

CreateInviteLink(c, l) ==
    /\ MayAdminister(c)
    /\ linkState[l] = "none"
    /\ linkState' = [linkState EXCEPT ![l] = "open"]
    /\ UNCHANGED <<rows, accounts, banned, active, useCount, invitations, vouches,
                   requests, history>>

ExpireLink(l) ==
    /\ linkState[l] = "open"
    /\ linkState' = [linkState EXCEPT ![l] = "expired"]
    /\ UNCHANGED <<rows, accounts, banned, active, useCount, invitations, vouches,
                   requests, history>>

\* Mutant of BeginJoin: the link is read without FOR UPDATE.
BeginJoinUnlocked(u, l) ==
    /\ linkState[l] = "open"
    /\ useCount[l] < MaxUses
    /\ u \notin banned
    /\ u \notin members
    /\ Begin(Join(u, l))
    /\ UNCHANGED <<rows, accounts, banned, active, links, invitations, vouches, history>>

\* JoinViaInviteLink up to its writes: the link is locked, the rest is read
\* from the snapshot.
BeginJoin(u, l) ==
    /\ ~LinkLocked(l)
    /\ linkState[l] = "open"
    /\ useCount[l] < MaxUses
    /\ u \notin banned
    /\ u \notin members
    /\ Begin(Join(u, l))
    /\ UNCHANGED <<rows, accounts, banned, active, links, invitations, vouches, history>>

\* Its writes commit; the handler goes on to check for graduation.
CommitJoin(r) ==
    /\ r \in Of("join")
    /\ r.user \notin members
    /\ InsertMember(r.user)
    /\ useCount' = [useCount EXCEPT ![r.link] = @ + 1]
    /\ requests' = (requests \ {r}) \cup {Check(r.user)}
    /\ UNCHANGED <<accounts, banned, active, linkState, invitations, vouches, history>>
-----------------------------------------------------------------------------
(* Invitations.                                                            *)

Live(i) == invitations[i].status = "pending" /\ ~invitations[i].expired

\* The handler's checks and the repository's check for a pending one.
BeginInvite(c, u) ==
    /\ c \in members \cup Superusers
    /\ u \notin banned
    /\ u \notin members
    /\ \A i \in Invitations : ~(Live(i) /\ invitations[i].user = u)
    /\ Begin(Invite(c, u))
    /\ UNCHANGED <<rows, accounts, banned, active, links, invitations, vouches, history>>

\* The table after an UPDATE of the row of i; the expiry of a row that is not
\* pending is never looked at.
Updated(i, status, expired) ==
    [invitations EXCEPT ![i] =
        [status |-> status, user |-> @.user, by |-> @.by, expired |-> expired]]

\* The unique key (group_id, user_id, status) leaves room for the row of i.
UniqueStatus(i, u, status) ==
    \A j \in Invitations \ {i} :
        ~(invitations[j].user = u /\ invitations[j].status = status)

CommitInvite(r, i) ==
    /\ r \in Of("invite")
    /\ invitations[i].status = "none"
    /\ {r.user, r.by} \subseteq accounts
    /\ UniqueStatus(i, r.user, "pending")
    /\ invitations' = [invitations EXCEPT ![i] =
          [status |-> "pending", user |-> r.user, by |-> r.by, expired |-> FALSE]]
    /\ End(r)
    /\ UNCHANGED <<rows, accounts, banned, active, links, vouches, history>>

ExpireInvitation(i) ==
    /\ Live(i)
    /\ invitations' = Updated(i, "pending", TRUE)
    /\ UNCHANGED <<rows, accounts, banned, active, links, vouches, requests, history>>

\* DeclineInvitation reads the row without locking it.
BeginDecline(i) ==
    /\ Live(i)
    /\ Begin(Decline(i))
    /\ UNCHANGED <<rows, accounts, banned, active, links, invitations, vouches, history>>

\* UPDATE ... WHERE id = ?, whatever the status has become; if the row is gone,
\* the request changes nothing, as in Abort.
CommitDecline(r) ==
    /\ r \in Of("decline")
    /\ ~InvitationLocked(r.invitation)
    /\ invitations[r.invitation].status # "gone"
    /\ UniqueStatus(r.invitation, invitations[r.invitation].user, "declined")
    /\ invitations' = Updated(r.invitation, "declined", FALSE)
    /\ End(r)
    /\ UNCHANGED <<rows, accounts, banned, active, links, vouches, history>>

\* The inviter must still be a member; one whose account is gone is NULL, and
\* then is not asked for.
InviterCounts(i) ==
    invitations[i].by \in accounts => invitations[i].by \in members \cup Superusers

\* Mutant of BeginAccept: the check of the ban is forgotten.
BeginAcceptBanned(i) ==
    /\ ~InvitationLocked(i)
    /\ Live(i)
    /\ InviterCounts(i)
    /\ Begin(Accept(i))
    /\ UNCHANGED <<rows, accounts, banned, active, links, invitations, vouches, history>>

\* AcceptInvitation up to its writes.
BeginAccept(i) ==
    /\ ~InvitationLocked(i)
    /\ Live(i)
    /\ invitations[i].user \notin banned
    /\ InviterCounts(i)
    /\ Begin(Accept(i))
    /\ UNCHANGED <<rows, accounts, banned, active, links, invitations, vouches, history>>

\* Its writes commit; the handler goes on to check for graduation.
CommitAccept(r) ==
    /\ r \in Of("accept")
    /\ UniqueStatus(r.invitation, r.user, "accepted")
    /\ r.user \notin members
    /\ invitations' = Updated(r.invitation, "accepted", FALSE)
    /\ InsertMember(r.user)
    /\ requests' = (requests \ {r}) \cup {Check(r.user)}
    /\ UNCHANGED <<accounts, banned, active, links, vouches, history>>
-----------------------------------------------------------------------------
(* The school page.                                                        *)

\* Join of handlers/schools.go: no ban is looked at, no graduation checked.
JoinSchool(u) ==
    /\ OfSchool
    /\ u \notin members
    /\ InsertMember(u)
    /\ exposed' = IF u \in banned THEN exposed \cup {u} ELSE exposed
    /\ unchecked' = TRUE
    /\ UNCHANGED <<accounts, banned, active, links, invitations, vouches, requests>>
-----------------------------------------------------------------------------
(* Graduation.                                                             *)

\* Mutant of CheckGraduation: the threshold has to be exceeded.
CheckGraduationLate(r) ==
    /\ r \in Of("check")
    /\ requests' = (requests \ {r}) \cup
          (IF ~active /\ Cardinality(members) > FoundingThreshold
           THEN {Graduation(r.user)} ELSE {})
    /\ unchecked' = FALSE
    /\ UNCHANGED <<rows, accounts, banned, active, links, invitations, vouches, exposed>>

\* CheckAndGraduate reads the status, the threshold and the member count.
CheckGraduation(r) ==
    /\ r \in Of("check")
    /\ requests' = (requests \ {r}) \cup
          (IF ~active /\ Cardinality(members) >= FoundingThreshold
           THEN {Graduation(r.user)} ELSE {})
    /\ unchecked' = FALSE
    /\ UNCHANGED <<rows, accounts, banned, active, links, invitations, vouches, exposed>>

\* Mutant of PromoteFounders: every member is promoted.
PromoteEverybody == admins' = members

PromoteFounders == admins' = admins \cup founding

\* Its transaction; WHERE status = 'provisional' lets one of several do it.
Graduate(r) ==
    /\ r \in Of("graduation")
    /\ active' = TRUE
    /\ IF active THEN UNCHANGED admins ELSE PromoteFounders
    /\ End(r)
    /\ UNCHANGED <<accounts, members, founding, trusted, banned, links,
                   invitations, vouches, history>>
-----------------------------------------------------------------------------
(* Leaving and bans.                                                       *)

\* Mutant of MayLeave: the count of admins includes the one who leaves.
MayLeaveAlways(u) == u \in admins => Cardinality(admins) >= 1

MayLeave(u) == u \in admins => Cardinality(admins) > 1

BeginLeave(u) ==
    /\ u \in members
    /\ MayLeave(u)
    /\ Begin(Leave(u))
    /\ UNCHANGED <<rows, accounts, banned, active, links, invitations, vouches, history>>

RemoveMember(r) ==
    /\ r \in Of("leave")
    /\ DeleteMember(r.user)
    /\ End(r)
    /\ UNCHANGED <<accounts, banned, active, links, invitations, vouches, history>>

\* Users with an admission whose look at the bans is behind it.
BeingAdmitted == {r.user : r \in Of("join") \cup Of("accept")}

\* BlockAndRemoveMember: ban and removal commit together.
BlockMember(c, u) ==
    /\ MayAdminister(c)
    /\ c # u
    /\ u \in accounts
    /\ banned' = banned \cup {u}
    /\ DeleteMember(u)
    /\ exposed' = IF u \in BeingAdmitted THEN exposed \cup {u} ELSE exposed \ {u}
    /\ UNCHANGED <<accounts, active, links, invitations, vouches, requests, unchecked>>

UnblockMember(c, u) ==
    /\ MayAdminister(c)
    /\ banned' = banned \ {u}
    /\ UNCHANGED <<rows, accounts, active, links, invitations, vouches, requests,
                   history>>
-----------------------------------------------------------------------------
(* Trust vouches.                                                          *)

\* Mutant of VouchCount: the vouch about to be inserted is counted twice.
VouchCountTwice(u) == 1 + Cardinality({v \in Users : <<v, u>> \in vouches})

VouchCount(u) == Cardinality({v \in Users : <<v, u>> \in vouches})

MayVouch(c) == c \in trusted \cup admins

\* VouchForMember and CreateTrustVouch up to the INSERT; the count that
\* follows the INSERT sees the snapshot and the transaction's own row.
BeginVouch(c, u) ==
    /\ c # u
    /\ Cardinality(vouches) < MaxVouches
    /\ u \notin banned
    /\ MayVouch(c)
    /\ u \in members
    /\ Begin(Vouch(c, u, VouchCount(u)))
    /\ UNCHANGED <<rows, accounts, banned, active, links, invitations, vouches, history>>

CommitVouch(r) ==
    /\ r \in Of("vouch")
    /\ <<r.by, r.user>> \notin vouches
    /\ {r.by, r.user} \subseteq accounts
    /\ vouches' = vouches \cup {<<r.by, r.user>>}
    /\ trusted' = IF r.count + 1 >= TrustThreshold
                  THEN trusted \cup ({r.user} \cap members) ELSE trusted
    /\ End(r)
    /\ UNCHANGED <<members, admins, founding, accounts, banned, active, links,
                   invitations, history>>
-----------------------------------------------------------------------------
(* Accounts.                                                               *)

\* DeleteAccount of somebody whom no block of IsUserBlockedAnywhere, which does
\* not look at the bans of groups, keeps in the table, or DeleteUser by a
\* superuser.  The foreign keys take the user's rows, and wait for a locked one.
DeleteAccount(u) ==
    /\ u \in accounts \ Superusers
    /\ \A i \in Invitations :
          u \in {invitations[i].user, invitations[i].by} => ~InvitationLocked(i)
    /\ accounts' = accounts \ {u}
    /\ DeleteMember(u)
    /\ banned' = banned \ {u}
    /\ invitations' = [i \in Invitations |->
          IF invitations[i].user = u /\ invitations[i].status # "none"
          THEN [invitations[i] EXCEPT !.status = "gone"] ELSE invitations[i]]
    /\ vouches' = {v \in vouches : u \notin {v[1], v[2]}}
    /\ UNCHANGED <<active, links, requests, history>>
-----------------------------------------------------------------------------
\* The write fails on a unique key and rolls back, the request is cancelled,
\* or the process dies.
Abort(r) ==
    /\ r \in requests
    /\ End(r)
    /\ unchecked' = (unchecked \/ r.op \in {"check", "graduation"})
    /\ UNCHANGED <<rows, accounts, banned, active, links, invitations, vouches, exposed>>

Next ==
    \/ \E l \in Links : ExpireLink(l) \/ \E u \in Users : CreateInviteLink(u, l)
                                                          \/ BeginJoin(u, l)
    \/ \E i \in Invitations : ExpireInvitation(i) \/ BeginDecline(i) \/ BeginAccept(i)
    \/ \E u \in Users : JoinSchool(u) \/ BeginLeave(u) \/ DeleteAccount(u)
    \/ \E c, u \in Users :
           \/ BeginInvite(c, u)
           \/ BlockMember(c, u)
           \/ UnblockMember(c, u)
           \/ BeginVouch(c, u)
    \/ \E r \in requests :
           \/ CommitJoin(r)
           \/ \E i \in Invitations : CommitInvite(r, i)
           \/ CommitDecline(r)
           \/ CommitAccept(r)
           \/ CheckGraduation(r)
           \/ Graduate(r)
           \/ RemoveMember(r)
           \/ CommitVouch(r)
           \/ Abort(r)

Spec == Init /\ [][Next]_vars
-----------------------------------------------------------------------------
Request ==
    [op : {"join"}, user : Users, link : Links]
    \cup [op : {"accept"}, user : Users, invitation : Invitations]
    \cup [op : {"decline"}, invitation : Invitations]
    \cup [op : {"invite"}, by : Users, user : Users]
    \cup [op : {"leave", "check", "graduation"}, user : Users]
    \cup [op : {"vouch"}, by : Users, user : Users, count : Nat]

\* The types, among them that rows are of accounts there are; no link is used
\* more often than it may be, whichever joins overlap.
TypeOK ==
    /\ accounts \in SUBSET Users
    /\ members \in SUBSET accounts
    /\ admins \in SUBSET members
    /\ founding \in SUBSET members
    /\ trusted \in SUBSET members
    /\ banned \in SUBSET accounts
    /\ active \in BOOLEAN
    /\ linkState \in [Links -> {"none", "open", "expired"}]
    /\ useCount \in [Links -> 0..MaxUses]
    /\ invitations \in [Invitations -> Invitation]
    /\ vouches \in SUBSET (accounts \X accounts)
    /\ requests \in SUBSET Request
    /\ exposed \in SUBSET Users
    /\ unchecked \in BOOLEAN

\* A banned user is a member only through an admission that had looked at the
\* bans before this one was committed, or through the school page, which does
\* not look: no sequence of bans, unbans, invitations, joins and leaves, in
\* any overlap, lets a banned user in otherwise.
BannedStayOut == banned \cap members \subseteq exposed

\* The group has one admin at most, the founder: no admission, graduation,
\* ban or return makes another one.
AdminIsFounder == admins = founding /\ founding \subseteq {Creator}

\* An admin ceases to be one only by the ban of a superuser or with the account
\* itself, which the endpoints delete without a look at groups: no sequence of
\* leaves, graduations and bans by the admin ends in a group without admin.
OnlyBanOrDeletionUnseats ==
    [][\/ admins \subseteq admins'
       \/ \E u \in admins : DeleteAccount(u) \/ \E s \in Superusers : BlockMember(s, u)]_vars

\* A provisional group with enough members is about to graduate: each
\* admission checks after it has committed, so however admissions overlap the
\* last one sees enough members.  The exceptions are a check that was lost
\* and the school page.
GraduationIsOwed ==
    ~active /\ Cardinality(members) >= FoundingThreshold
        => unchecked \/ Of("check") # {} \/ Of("graduation") # {}

\* Nobody ever becomes trusted: the voucher must be trusted or an admin, the
\* founder is the only admin, and one voucher counts once for each member,
\* however vouches overlap and whoever leaves and returns.
TrustOutOfReach == trusted = {}

\* Every step is one of GroupRules.
Rules == INSTANCE GroupRules WITH
    spent <- useCount,
    answer <- [i \in Invitations |-> invitations[i].status],
    invitee <- [i \in Invitations |-> invitations[i].user]

ImplementsRules == Rules!Spec
=============================================================================
