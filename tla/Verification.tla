---------------------------- MODULE Verification ----------------------------
(***************************************************************************)
(* Verification of a user: postcards that prove an address and vouches     *)
(* that a superuser grants or revokes.  Both end in two flags of the users *)
(* table and in the rows of user_regions, whose is_admin flag belongs to   *)
(* users who hold both and to those who made the region themselves.        *)
(*                                                                         *)
(* A handler serves one request and may die between two statements.  A     *)
(* transaction that locks what it reads is one action: the locking count   *)
(* of RequestPostcardVerification keeps others from inserting for the user *)
(* (two that overlap deadlock, and the loser ends with an error).          *)
(***************************************************************************)
EXTENDS Naturals, FiniteSets

CONSTANTS
    Users,
    Regions,
    Cards,        \* bound: rows verification_requests ever holds
    Handlers,     \* bound: requests in flight at a time
    Vouchees,     \* bound: users that superusers grant and revoke
    Superusers,
    Former,       \* bound: users with memberships from the time of mutual vouches
    MaxRecent,    \* maxVerificationRequestsPer30Days
    Threshold,    \* verificationCodeLockoutThreshold
    MaxTried,     \* bound: attempts of others with a code
    Nobody

ASSUME CardsAssumption == IsFiniteSet(Cards)
ASSUME VoucheesAssumption == Vouchees \subseteq Users
ASSUME NobodyAssumption == Nobody \notin Users
ASSUME LimitAssumption == MaxRecent \in Nat /\ Threshold \in Nat /\ MaxTried \in Nat

VARIABLES
    vouch,     \* users.vouch_verified
    postcard,  \* users.postcard_verified
    belongs,   \* user_regions.verification_status
    admin,     \* user_regions.is_admin
    claim,     \* users whose token says they are vouched for
    status,    \* verification_requests.status, "none" or "deleted"
    owner,     \* user_id
    place,     \* region_id
    attempts,  \* failed_verification_attempts
    aged,      \* cards of more than 30 days: expired, and outside the quota
    posted,    \* cards the provider has taken
    request,   \* what each handler is doing
    \* History, read by the properties only.
    tried,     \* attempts of other users with a card's code
    missed     \* users a grant overlooked the postcard of or ended early for, or joined partly

users   == <<vouch, postcard, belongs, admin, claim>>
cards   == <<status, owner, place, attempts, aged, posted>>
history == <<tried, missed>>
vars    == <<users, cards, request, history>>

Idle == [op |-> "idle"]
Apply(u, r)    == [op |-> "apply", user |-> u, region |-> r]
Send(c)        == [op |-> "send", card |-> c]
CleanUp(c)     == [op |-> "cleanup", card |-> c]
Redeemed(c)    == [op |-> "redeemed", card |-> c]
Grant(u, f)    == [op |-> "grant", user |-> u, full |-> f]
Granted(u, f)  == [op |-> "granted", user |-> u, full |-> f]
Upgrade(u, f)  == [op |-> "upgrade", user |-> u, full |-> f]
Promote(u)     == [op |-> "promote", user |-> u, full |-> TRUE]
Revoked(u)     == [op |-> "revoked", user |-> u]
Created(u, r)  == [op |-> "created", user |-> u, region |-> r]

Granting == {"grant", "granted", "upgrade", "promote"}

Requests ==
    {Idle} \cup [op : {"apply", "created"}, user : Users, region : Regions]
    \cup [op : {"send", "cleanup", "redeemed"}, card : Cards]
    \cup [op : Granting \ {"promote"}, user : Users, full : BOOLEAN]
    \cup [op : {"promote"}, user : Users, full : {TRUE}]
    \cup [op : {"revoked"}, user : Users]

Grants(u) == {h \in Handlers : request[h].op \in Granting /\ request[h].user = u}

Turn(h, r) == request' = [request EXCEPT ![h] = r]

\* CountRecentByUser: every row counts, whatever its status.
Recent(u) == {c \in Cards \ aged : status[c] \in {"mailed", "verified"} /\ owner[c] = u}
-----------------------------------------------------------------------------
\* Pending memberships are left from the time users vouched for each other.
Init ==
    /\ vouch = {}
    /\ postcard = {}
    /\ belongs \in [Users -> [Regions -> {"none", "pending"}]]
    /\ \A u \in Users \ Former, r \in Regions : belongs[u][r] = "none"
    /\ admin = [u \in Users |-> {}]
    /\ claim = {}
    /\ status = [c \in Cards |-> "none"]
    /\ owner = [c \in Cards |-> Nobody]
    /\ place = [c \in Cards |-> Nobody]
    /\ attempts = [c \in Cards |-> 0]
    /\ aged = {}
    /\ posted = {}
    /\ request = [h \in Handlers |-> Idle]
    /\ tried = [c \in Cards |-> 0]
    /\ missed = {}
-----------------------------------------------------------------------------
(* Postcards.                                                              *)

\* The token decides who may ask; the region is any that holds the address.
BeginRequest(h, u, r) ==
    /\ request[h] = Idle
    /\ u \in claim
    /\ Cardinality(Recent(u)) < MaxRecent
    /\ Turn(h, Apply(u, r))
    /\ UNCHANGED <<users, cards, history>>

\* Mutant of InsertRequest: only the count before the external calls is made.
InsertUncounted(h, c) ==
    /\ request[h].op = "apply"
    /\ status[c] = "none"
    /\ status' = [status EXCEPT ![c] = "mailed"]
    /\ owner' = [owner EXCEPT ![c] = request[h].user]
    /\ place' = [place EXCEPT ![c] = request[h].region]
    /\ Turn(h, Send(c))
    /\ UNCHANGED <<users, attempts, aged, posted, history>>

\* Mutant of InsertRequest: the row is made without its region.
InsertRegionless(h, c) ==
    /\ request[h].op = "apply"
    /\ status[c] = "none"
    /\ Cardinality(Recent(request[h].user)) < MaxRecent
    /\ status' = [status EXCEPT ![c] = "mailed"]
    /\ owner' = [owner EXCEPT ![c] = request[h].user]
    /\ Turn(h, Send(c))
    /\ UNCHANGED <<users, place, attempts, aged, posted, history>>

\* The count is repeated with a lock, in the transaction of the insert.
InsertRequest(h, c) ==
    /\ request[h].op = "apply"
    /\ status[c] = "none"
    /\ Cardinality(Recent(request[h].user)) < MaxRecent
    /\ status' = [status EXCEPT ![c] = "mailed"]
    /\ owner' = [owner EXCEPT ![c] = request[h].user]
    /\ place' = [place EXCEPT ![c] = request[h].region]
    /\ Turn(h, Send(c))
    /\ UNCHANGED <<users, attempts, aged, posted, history>>

\* ErrRateLimited, or the loser of a deadlock.
RefuseRequest(h) ==
    /\ request[h].op = "apply"
    /\ Turn(h, Idle)
    /\ UNCHANGED <<users, cards, history>>

\* The provider's answer may be lost after it took the order.
SendPostcard(h) ==
    /\ request[h].op = "send"
    /\ \/ posted' = posted \cup {request[h].card} /\ Turn(h, Idle)
       \/ posted' \in {posted, posted \cup {request[h].card}}
          /\ Turn(h, CleanUp(request[h].card))
    /\ UNCHANGED <<users, status, owner, place, attempts, aged, history>>

\* The row of a card that was not sent is deleted; an error is ignored.
DeleteUnsent(h) ==
    /\ request[h].op = "cleanup"
    /\ \/ status' = [status EXCEPT ![request[h].card] = "deleted"]
       \/ UNCHANGED status
    /\ Turn(h, Idle)
    /\ UNCHANGED <<users, owner, place, attempts, aged, posted, history>>

\* Mutant of Join: only the region of the card is administered.
JoinOne(u, r) ==
    /\ belongs' = [belongs EXCEPT ![u][r] = "verified"]
    /\ admin' = [admin EXCEPT ![u] = @ \cup IF u \in vouch THEN {r} ELSE {}]

\* AddUserToRegionTx, then UpgradeVerifiedUserRegionsToAdminTx for a full user.
Join(u, r) ==
    /\ belongs' = [belongs EXCEPT ![u][r] = "verified"]
    /\ admin' = [admin EXCEPT ![u] =
          @ \cup IF u \in vouch THEN {q \in Regions : belongs'[u][q] = "verified"} ELSE {}]

\* The same when the error of one of the two statements, or of both, is only logged.
JoinPartly(u, r) ==
    /\ \E joined \in {{}, {r}} :
        /\ belongs' = [belongs EXCEPT ![u] =
              [q \in Regions |-> IF q \in joined THEN "verified" ELSE @[q]]]
        /\ \E S \in {joined, {q \in Regions : belongs'[u][q] = "verified"}} :
              admin' = [admin EXCEPT ![u] = @ \cup IF u \in vouch THEN S ELSE {}]
    /\ missed' = missed \cup {u}

\* A code is known to who holds the card, so to nobody before it is posted.
Usable(c) ==
    /\ c \in posted
    /\ status[c] \in {"mailed", "verified"}
    /\ attempts[c] < Threshold

\* Mutant of VerifyCode: whose card it is goes unchecked.
VerifyAnyCode(h, u, c) ==
    /\ request[h] = Idle
    /\ Usable(c)
    /\ c \notin aged
    /\ status[c] = "mailed"
    /\ status' = [status EXCEPT ![c] = "verified"]
    /\ postcard' = postcard \cup {u}
    /\ (Join(u, place[c]) /\ UNCHANGED missed) \/ JoinPartly(u, place[c])
    /\ Turn(h, Redeemed(c))
    /\ UNCHANGED <<vouch, claim, owner, place, attempts, aged, posted, tried>>

VerifyCode(h, u, c) ==
    /\ request[h] = Idle
    /\ Usable(c)
    /\ owner[c] = u
    /\ c \notin aged
    /\ status[c] = "mailed"
    /\ status' = [status EXCEPT ![c] = "verified"]
    /\ postcard' = postcard \cup {u}
    /\ (Join(u, place[c]) /\ UNCHANGED missed) \/ JoinPartly(u, place[c])
    /\ Turn(h, Redeemed(c))
    /\ UNCHANGED <<vouch, claim, owner, place, attempts, aged, posted, tried>>

\* The increment of failed_verification_attempts is rolled back by the error
\* that the transaction then returns.
VerifyOthersCode(u, c) ==
    /\ Usable(c)
    /\ owner[c] # u
    /\ tried[c] < MaxTried
    /\ tried' = [tried EXCEPT ![c] = @ + 1]
    /\ UNCHANGED <<users, cards, request, missed>>

\* A fresh token, and the row is deleted; an error of either is ignored.
FinishVerify(h) ==
    /\ request[h].op = "redeemed"
    /\ LET c == request[h].card IN
       /\ \/ status' = [status EXCEPT ![c] = "deleted"]
          \/ UNCHANGED status
       /\ \/ claim' = IF owner[c] \in vouch THEN claim \cup {owner[c]} ELSE claim \ {owner[c]}
          \/ UNCHANGED claim
    /\ Turn(h, Idle)
    /\ UNCHANGED <<vouch, postcard, belongs, admin, owner, place, attempts, aged, posted, history>>

\* Thirty days pass.
Age(c) ==
    /\ status[c] # "none"
    /\ c \notin aged
    /\ aged' = aged \cup {c}
    /\ UNCHANGED <<users, status, owner, place, attempts, posted, request, history>>
-----------------------------------------------------------------------------
(* Regions made by hand.                                                   *)

\* A region that nobody belongs to and no card or request names is as good as new.
Unused(r) ==
    /\ \A u \in Users : belongs[u][r] = "none"
    /\ \A c \in Cards : place[c] # r
    /\ \A h \in Handlers : request[h].op \in {"apply", "created"} => request[h].region # r

\* Create of RegionHandler.  Who redeemed a card can have a token that says so, and
\* postcard_verified is never cleared; the region lies within one he administers.
CreateRegion(h, u, r) ==
    /\ request[h] = Idle
    /\ u \in postcard
    /\ u \in Superusers \/ admin[u] # {}
    /\ Unused(r)
    /\ Turn(h, Created(u, r))
    /\ UNCHANGED <<users, cards, history>>

\* AddUserToRegion, as a verified member and as an administrator, vouched for or
\* not; an error is only logged.
AddCreator(h) ==
    /\ request[h].op = "created"
    /\ LET u == request[h].user
           r == request[h].region IN
       \/ /\ belongs' = [belongs EXCEPT ![u][r] = "verified"]
          /\ admin' = [admin EXCEPT ![u] = @ \cup {r}]
       \/ UNCHANGED <<belongs, admin>>
    /\ Turn(h, Idle)
    /\ UNCHANGED <<vouch, postcard, claim, cards, history>>
-----------------------------------------------------------------------------
(* Vouches.                                                                *)

\* A new token says what the users row says.
Login(u) ==
    /\ u \in vouch
    /\ claim' = claim \cup {u}
    /\ UNCHANGED <<vouch, postcard, belongs, admin, cards, request, history>>

\* The users row is read: whether u is full is decided here.
BeginGrant(h, u) ==
    /\ request[h] = Idle
    /\ Turn(h, Grant(u, u \in postcard))
    /\ UNCHANGED <<users, cards, history>>

SetVouch(h) ==
    /\ request[h].op = "grant"
    /\ vouch' = vouch \cup {request[h].user}
    /\ Turn(h, Granted(request[h].user, request[h].full))
    /\ UNCHANGED <<postcard, belongs, admin, claim, cards, history>>

RevokeVouchVerification(h, u) ==
    /\ request[h] = Idle
    /\ vouch' = vouch \ {u}
    /\ Turn(h, Revoked(u))
    /\ UNCHANGED <<postcard, belongs, admin, claim, cards, history>>

\* InvalidateTokens; an error is only logged.
Invalidate(h) ==
    /\ \/ request[h].op = "granted" /\ Turn(h, Upgrade(request[h].user, request[h].full))
       \/ request[h].op = "revoked" /\ Turn(h, Idle)
    /\ claim' \in {claim, claim \ {request[h].user}}
    /\ UNCHANGED <<vouch, postcard, belongs, admin, cards, history>>

Pending(u) == {r \in Regions : belongs[u][r] = "pending"}

\* How a grant ends: it overlooked the postcard, or completed for a full user.
Overlooked(u, full) ==
    missed' = IF full THEN missed \ {u}
              ELSE IF u \in postcard THEN missed \cup {u} ELSE missed

\* Mutant of UpgradePending: every membership it upgrades is administered.
UpgradePendingAdmins(h) ==
    /\ request[h].op = "upgrade"
    /\ LET u == request[h].user
           full == request[h].full IN
       /\ belongs' = [belongs EXCEPT ![u] =
                   [r \in Regions |-> IF @[r] = "pending" THEN "verified" ELSE @[r]]]
       /\ admin' = [admin EXCEPT ![u] = @ \cup Pending(u)]
       /\ IF full THEN Turn(h, Promote(u)) /\ UNCHANGED missed
                  ELSE Turn(h, Idle) /\ Overlooked(u, FALSE)
    /\ UNCHANGED <<vouch, postcard, claim, cards, tried>>

\* UpgradeAllPendingUserRegions; an error is only logged.
UpgradePending(h) ==
    /\ request[h].op = "upgrade"
    /\ LET u == request[h].user
           full == request[h].full IN
       /\ \/ /\ belongs' = [belongs EXCEPT ![u] =
                   [r \in Regions |-> IF @[r] = "pending" THEN "verified" ELSE @[r]]]
             /\ admin' = [admin EXCEPT ![u] = IF full THEN @ \cup Pending(u) ELSE @]
          \/ UNCHANGED <<belongs, admin>>
       /\ IF full THEN Turn(h, Promote(u)) /\ UNCHANGED missed
                  ELSE Turn(h, Idle) /\ Overlooked(u, FALSE)
    /\ UNCHANGED <<vouch, postcard, claim, cards, tried>>

\* UpgradeVerifiedUserRegionsToAdmin.
PromoteVerified(h) ==
    /\ request[h].op = "promote"
    /\ LET u == request[h].user IN
       /\ admin' = [admin EXCEPT ![u] = @ \cup {r \in Regions : belongs[u][r] = "verified"}]
       /\ Overlooked(u, TRUE)
    /\ Turn(h, Idle)
    /\ UNCHANGED <<vouch, postcard, belongs, claim, cards, tried>>

\* The process stops, or a statement whose error is only logged fails.
Die(h) ==
    /\ request[h] # Idle
    /\ Turn(h, Idle)
    /\ missed' = IF request[h].op \in Granting THEN missed \cup {request[h].user} ELSE missed
    /\ UNCHANGED <<users, cards, tried>>
-----------------------------------------------------------------------------
Next ==
    \/ \E h \in Handlers :
        \/ \E u \in Users, r \in Regions : BeginRequest(h, u, r)
        \/ \E c \in Cards : InsertRequest(h, c)
        \/ RefuseRequest(h)
        \/ SendPostcard(h)
        \/ DeleteUnsent(h)
        \/ \E u \in Users, c \in Cards : VerifyCode(h, u, c)
        \/ FinishVerify(h)
        \/ \E u \in Vouchees : BeginGrant(h, u) \/ RevokeVouchVerification(h, u)
        \/ \E u \in Users, r \in Regions : CreateRegion(h, u, r)
        \/ AddCreator(h)
        \/ SetVouch(h)
        \/ Invalidate(h)
        \/ UpgradePending(h)
        \/ PromoteVerified(h)
        \/ Die(h)
    \/ \E u \in Users, c \in Cards : VerifyOthersCode(u, c)
    \/ \E c \in Cards : Age(c)
    \/ \E u \in Users : Login(u)

Spec == Init /\ [][Next]_vars
-----------------------------------------------------------------------------
Memberships == {"none", "pending", "verified"}

\* Type invariant of the tables and of the requests in flight.
TypeOK ==
    /\ vouch \subseteq Users /\ postcard \subseteq Users /\ claim \subseteq Users
    /\ belongs \in [Users -> [Regions -> Memberships]]
    /\ admin \in [Users -> SUBSET Regions]
    /\ status \in [Cards -> {"none", "mailed", "verified", "deleted"}]
    /\ owner \in [Cards -> Users \cup {Nobody}]
    /\ place \in [Cards -> Regions \cup {Nobody}]
    /\ attempts \in [Cards -> Nat]
    /\ aged \subseteq Cards /\ posted \subseteq Cards
    /\ request \in [Handlers -> Requests]
    /\ tried \in [Cards -> Nat]
    /\ missed \subseteq Users
    /\ \A c \in Cards : status[c] # "none" => owner[c] \in Users /\ place[c] \in Regions

\* However many requests of a user overlap (verification.go:290), no more than
\* three cards of the last 30 days stand in the table.
Quota == \A u \in Users : Cardinality(Recent(u)) <= MaxRecent

\* Nobody administers a region without ever having redeemed a postcard: neither
\* a grant that upgrades old pending memberships, nor one that overlaps a
\* redemption (admin.go:190), nor the making of a region (regions.go:337) makes an
\* admin of a user without one.
AdminNeedsPostcard == \A u \in Users : admin[u] # {} => u \in postcard

\* A user with both verifications administers every region he is a verified
\* member of, once no grant to him is in progress, unless the last grant read his
\* row before the redemption committed (admin.go:190) or ended early, or a statement
\* of the redemption failed unnoticed (verification.go:458).
FullUsersAdminister ==
    \A u \in (vouch \cap postcard) \ missed :
        Grants(u) = {} => {r \in Regions : belongs[u][r] = "verified"} \subseteq admin[u]

\* A region gains a verified member only by a card posted to him for that region,
\* not older than 30 days, redeemed in that very step (verification.go:409), when a
\* grant upgrades a membership that was pending, or because he made the region
\* (regions.go:337): who did has redeemed a card, and is a superuser or already the
\* administrator of a region.
Founded(u, r) ==
    /\ \E h \in Handlers :
        request[h].op = "created" /\ request[h].user = u /\ request[h].region = r
    /\ u \in postcard
    /\ u \in Superusers \/ admin[u] # {}

Earned(u, r) ==
    \/ belongs[u][r] = "pending" /\ Grants(u) # {}
    \/ \E c \in posted \ aged :
        /\ owner[c] = u /\ place[c] = r
        /\ status[c] = "mailed" /\ status'[c] = "verified"
    \/ Founded(u, r)
MembershipIsEarned ==
    [][\A u \in Users, r \in Regions :
        belongs[u][r] # "verified" /\ belongs'[u][r] = "verified" => Earned(u, r)]_vars

\* What the handler tells users (verification.go:481): a code is locked after too
\* many failed attempts.
LockedAfterFailures ==
    [][\A c \in Cards :
        status[c] = "mailed" /\ status'[c] = "verified" => tried[c] < Threshold]_vars
=============================================================================
