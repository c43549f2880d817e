----------------------- MODULE GroupMembershipProofs -----------------------
(***************************************************************************)
(* Proofs about GroupMembership: its types, that bans hold but for the     *)
(* named windows, that the founder is the only admin and nobody becomes    *)
(* trusted, that graduation is not forgotten, and that every step is a     *)
(* step of GroupRules.  Then proofs about GroupPages, what members of the  *)
(* same group share: its limits and who is shown a row or handed a key.    *)
(***************************************************************************)
EXTENDS GroupMembership, GroupPages, TLAPS, FiniteSetTheorems, WellFoundedInduction

\* The requests in flight are well-formed, each carries a user and an object
\* of the types its kind has.
RequestsOK == requests \in SUBSET Request

\* What a request in flight on a link or an invitation relies on: its row is
\* locked, so what it has read of that row still holds when it writes.
LocksHeld ==
    /\ \A r, q \in Of("join") : r.link = q.link => r = q
    /\ \A r \in Of("join") : useCount[r.link] < MaxUses
    /\ \A r, q \in Of("accept") : r.invitation = q.invitation => r = q
    /\ \A r \in Of("accept") :
          /\ invitations[r.invitation].status = "pending"
          /\ invitations[r.invitation].user = r.user
    /\ \A r \in Of("decline") : invitations[r.invitation].status # "none"

TypeInv == TypeOK /\ LocksHeld

\* Who writes what: the vocabulary of requests, so that a step needs no more
\* than its own kind.
LEMMA JoinType ==
    ASSUME NEW r \in Request, r.op = "join"
    PROVE  r.user \in Users /\ r.link \in Links /\ r = Join(r.user, r.link)
BY DEF Request, Join

LEMMA AcceptType ==
    ASSUME NEW r \in Request, r.op = "accept"
    PROVE  r.user \in Users /\ r.invitation \in Invitations
BY DEF Request

LEMMA DeclineType ==
    ASSUME NEW r \in Request, r.op = "decline"
    PROVE  r.invitation \in Invitations
BY DEF Request

LEMMA InviteType ==
    ASSUME NEW r \in Request, r.op = "invite"
    PROVE  r.user \in Users /\ r.by \in Users
BY DEF Request

LEMMA UserType ==
    ASSUME NEW r \in Request, r.op \in {"leave", "check", "graduation"}
    PROVE  r.user \in Users
BY DEF Request

LEMMA VouchType ==
    ASSUME NEW r \in Request, r.op = "vouch"
    PROVE  r.user \in Users /\ r.by \in Users /\ r.count \in Nat
BY DEF Request
-----------------------------------------------------------------------------
(* Types and locks.                                                        *)

LEMMA InitTypeInv == Init => TypeInv
<1> SUFFICES ASSUME Init PROVE TypeInv
  OBVIOUS
<1>1. requests \in SUBSET Request /\ \A op : Of(op) = {}
  BY DEF Init, Of
<1>2. invitations \in [Invitations -> Invitation]
  BY CreatorAssumption DEF Init, Invitation, Status
<1>3. useCount \in [Links -> 0..MaxUses]
  BY MaxUsesAssumption DEF Init
<1>4. linkState \in [Links -> {"none", "open", "expired"}]
  BY DEF Init
<1>5. TypeOK
  BY <1>1, <1>2, <1>3, <1>4, CreatorAssumption DEF Init, TypeOK
<1> QED BY <1>1, <1>5 DEF TypeInv, LocksHeld

LEMMA LinkSteps ==
    ASSUME TypeInv, NEW l \in Links,
           \/ ExpireLink(l)
           \/ \E c \in Users : CreateInviteLink(c, l)
    PROVE  TypeInv'
<1>1. TypeOK'
  BY DEF TypeInv, TypeOK, ExpireLink, CreateInviteLink, rows, history
<1>2. LocksHeld'
  BY DEF TypeInv, LocksHeld, Of, ExpireLink, CreateInviteLink
<1> QED BY <1>1, <1>2 DEF TypeInv

LEMMA BeginJoinStep ==
    ASSUME TypeInv, NEW u \in Users, NEW l \in Links, BeginJoin(u, l)
    PROVE  TypeInv'
<1>1. Join(u, l) \in Request
  BY DEF Join, Request
<1>2. TypeOK'
  BY <1>1 DEF TypeInv, TypeOK, BeginJoin, Begin, rows, links, history
<1>3. Of("join")' = Of("join") \cup {Join(u, l)}
  BY DEF BeginJoin, Begin, Of, Join
<1>4. Of("accept")' = Of("accept") /\ Of("decline")' = Of("decline")
  BY DEF BeginJoin, Begin, Of, Join
<1>5. \A r \in Of("join") : r.link # l
  BY DEF BeginJoin, LinkLocked
<1>6. useCount[l] < MaxUses /\ useCount' = useCount /\ invitations' = invitations
  BY DEF BeginJoin, links
<1>7. LocksHeld'
  BY <1>3, <1>4, <1>5, <1>6 DEF TypeInv, LocksHeld, Join
<1> QED BY <1>2, <1>7 DEF TypeInv

LEMMA CommitJoinStep ==
    ASSUME TypeInv, NEW r \in requests, CommitJoin(r)
    PROVE  TypeInv'
<1>1. r \in Request /\ r \in Of("join") /\ r.op = "join"
  BY DEF TypeInv, TypeOK, CommitJoin, Of
<1>2. r.user \in Users /\ r.link \in Links
  BY <1>1, JoinType
<1>3. Check(r.user) \in Request
  BY <1>2 DEF Check, Request
<1>4. useCount[r.link] < MaxUses
  BY <1>1 DEF TypeInv, LocksHeld
<1>5. useCount' \in [Links -> 0..MaxUses]
  BY <1>2, <1>4, MaxUsesAssumption DEF TypeInv, TypeOK, CommitJoin
<1>6. TypeOK'
  BY <1>2, <1>3, <1>5 DEF TypeInv, TypeOK, CommitJoin, InsertMember, history
<1>7. Of("join")' = Of("join") \ {r}
  BY <1>1 DEF CommitJoin, Of, Check
<1>8. Of("accept")' = Of("accept") /\ Of("decline")' = Of("decline")
  BY <1>1 DEF CommitJoin, Of, Check
<1>9. \A q \in Of("join")' : q.link # r.link
  BY <1>1, <1>7 DEF TypeInv, LocksHeld
<1>10. \A q \in Of("join")' : useCount'[q.link] = useCount[q.link]
  <2> SUFFICES ASSUME NEW q \in Of("join")' PROVE useCount'[q.link] = useCount[q.link]
    OBVIOUS
  <2>1. q \in Request /\ q.op = "join"
    BY <1>7 DEF TypeInv, TypeOK, Of
  <2>2. q.link \in Links /\ q.link # r.link
    BY <2>1, <1>9, JoinType
  <2> QED BY <2>2, <1>2 DEF CommitJoin, TypeInv, TypeOK
<1>11. LocksHeld'
  BY <1>7, <1>8, <1>10 DEF TypeInv, LocksHeld, CommitJoin
<1> QED BY <1>6, <1>11 DEF TypeInv

\* An UPDATE of one row leaves the others, and the types, as they are.
LEMMA UpdatedRow ==
    ASSUME TypeInv, NEW i \in Invitations, NEW answer \in Status,
           NEW expired \in BOOLEAN, invitations' = Updated(i, answer, expired)
    PROVE  /\ invitations' \in [Invitations -> Invitation]
           /\ invitations'[i].status = answer
           /\ \A j \in Invitations :
                 /\ invitations'[j].user = invitations[j].user
                 /\ j # i => invitations'[j] = invitations[j]
<1>1. invitations \in [Invitations -> Invitation]
  BY DEF TypeInv, TypeOK
<1>2. invitations[i].user \in Users /\ invitations[i].by \in Users
  BY <1>1 DEF Invitation
<1> DEFINE sent == [status |-> answer, user |-> invitations[i].user,
                   by |-> invitations[i].by, expired |-> expired]
<1>3. sent \in Invitation /\ sent.status = answer /\ sent.user = invitations[i].user
  BY <1>2 DEF Invitation
<1>4. invitations' = [invitations EXCEPT ![i] = sent]
  BY <1>1 DEF Updated
<1> HIDE DEF sent
<1> QED BY <1>1, <1>3, <1>4

LEMMA BeginInviteStep ==
    ASSUME TypeInv, NEW c \in Users, NEW u \in Users, BeginInvite(c, u)
    PROVE  TypeInv'
<1>1. Invite(c, u) \in Request
  BY DEF Invite, Request
<1>2. TypeOK'
  BY <1>1 DEF TypeInv, TypeOK, BeginInvite, Begin, rows, links, history
<1>3. \A op \in {"join", "accept", "decline"} : Of(op)' = Of(op)
  BY DEF BeginInvite, Begin, Of, Invite
<1>4. LocksHeld'
  BY <1>3 DEF TypeInv, LocksHeld, BeginInvite, links
<1> QED BY <1>2, <1>4 DEF TypeInv

LEMMA CommitInviteStep ==
    ASSUME TypeInv, NEW r \in requests, NEW i \in Invitations, CommitInvite(r, i)
    PROVE  TypeInv'
<1>1. r \in Request /\ r.op = "invite"
  BY DEF TypeInv, TypeOK, CommitInvite, Of
<1>2. r.user \in Users /\ r.by \in Users
  BY <1>1, InviteType
<1> DEFINE sent == [status |-> "pending", user |-> r.user, by |-> r.by,
                   expired |-> FALSE]
<1>3. sent \in Invitation /\ sent.status = "pending"
  BY <1>2 DEF Invitation, Status
<1>4. invitations' = [invitations EXCEPT ![i] = sent]
  BY DEF CommitInvite
<1> HIDE DEF sent
<1>5. TypeOK'
  BY <1>3, <1>4 DEF TypeInv, TypeOK, CommitInvite, End, rows, links, history
<1>6. \A op \in {"join", "accept", "decline"} : Of(op)' = Of(op)
  BY <1>1 DEF CommitInvite, End, Of
<1>7. \A q \in Of("accept") : q.invitation \in Invitations /\ q.invitation # i
  <2> SUFFICES ASSUME NEW q \in Of("accept")
               PROVE  q.invitation \in Invitations /\ q.invitation # i
    OBVIOUS
  <2>1. q.invitation \in Invitations
    BY AcceptType DEF TypeInv, TypeOK, Of
  <2> QED BY <2>1 DEF TypeInv, LocksHeld, CommitInvite
<1>8. \A q \in Of("decline") : q.invitation \in Invitations /\ q.invitation # i
  <2> SUFFICES ASSUME NEW q \in Of("decline")
               PROVE  q.invitation \in Invitations /\ q.invitation # i
    OBVIOUS
  <2>1. q.invitation \in Invitations
    BY DeclineType DEF TypeInv, TypeOK, Of
  <2> QED BY <2>1 DEF TypeInv, LocksHeld, CommitInvite
<1>9. \A j \in Invitations : j # i => invitations'[j] = invitations[j]
  BY <1>4 DEF TypeInv, TypeOK
<1>10. LocksHeld'
  BY <1>6, <1>7, <1>8, <1>9 DEF TypeInv, LocksHeld, CommitInvite, links
<1> QED BY <1>5, <1>10 DEF TypeInv

LEMMA ExpireInvitationStep ==
    ASSUME TypeInv, NEW i \in Invitations, ExpireInvitation(i)
    PROVE  TypeInv'
<1>1. invitations' = Updated(i, "pending", TRUE) /\ invitations[i].status = "pending"
  BY DEF ExpireInvitation, Live
<1>2. /\ invitations' \in [Invitations -> Invitation]
      /\ \A j \in Invitations : /\ invitations'[j].user = invitations[j].user
                                /\ invitations'[j].status = invitations[j].status
  BY <1>1, UpdatedRow DEF Status
<1>3. TypeOK'
  BY <1>2 DEF TypeInv, TypeOK, ExpireInvitation, rows, links, history
<1>4. \A op : Of(op)' = Of(op)
  BY DEF ExpireInvitation, Of
<1>5. \A q \in Of("accept") \cup Of("decline") : q.invitation \in Invitations
  BY AcceptType, DeclineType DEF TypeInv, TypeOK, Of
<1>6. LocksHeld'
  BY <1>2, <1>4, <1>5 DEF TypeInv, LocksHeld, ExpireInvitation, links
<1> QED BY <1>3, <1>6 DEF TypeInv

LEMMA BeginDeclineStep ==
    ASSUME TypeInv, NEW i \in Invitations, BeginDecline(i)
    PROVE  TypeInv'
<1>1. Decline(i) \in Request
  BY DEF Decline, Request
<1>2. TypeOK'
  BY <1>1 DEF TypeInv, TypeOK, BeginDecline, Begin, rows, links, history
<1>3. /\ \A op \in {"join", "accept"} : Of(op)' = Of(op)
      /\ Of("decline")' = Of("decline") \cup {Decline(i)}
  BY DEF BeginDecline, Begin, Of, Decline
<1>4. LocksHeld'
  BY <1>3 DEF TypeInv, LocksHeld, BeginDecline, Live, Decline, links
<1> QED BY <1>2, <1>4 DEF TypeInv

LEMMA CommitDeclineStep ==
    ASSUME TypeInv, NEW r \in requests, CommitDecline(r)
    PROVE  TypeInv'
<1>1. r \in Request /\ r.op = "decline"
  BY DEF TypeInv, TypeOK, CommitDecline, Of
<1>2. r.invitation \in Invitations
  BY <1>1, DeclineType
<1>3. /\ invitations' \in [Invitations -> Invitation]
      /\ invitations'[r.invitation].status = "declined"
      /\ \A j \in Invitations :
            /\ invitations'[j].user = invitations[j].user
            /\ j # r.invitation => invitations'[j] = invitations[j]
  BY <1>2, UpdatedRow DEF CommitDecline, Status
<1>4. TypeOK'
  BY <1>3 DEF TypeInv, TypeOK, CommitDecline, End, rows, links, history
<1>5. /\ \A op \in {"join", "accept"} : Of(op)' = Of(op)
      /\ Of("decline")' = Of("decline") \ {r}
  BY <1>1 DEF CommitDecline, End, Of
<1>6. \A q \in Of("accept") \cup Of("decline") : q.invitation \in Invitations
  BY AcceptType, DeclineType DEF TypeInv, TypeOK, Of
<1>7. \A q \in Of("accept") : q.invitation # r.invitation
  BY DEF CommitDecline, InvitationLocked
<1>8. \A q \in Of("accept") : invitations'[q.invitation] = invitations[q.invitation]
  BY <1>3, <1>6, <1>7
<1>9. \A q \in Of("decline") : invitations'[q.invitation].status # "none"
  <2> SUFFICES ASSUME NEW q \in Of("decline")
               PROVE  invitations'[q.invitation].status # "none"
    OBVIOUS
  <2>1. CASE q.invitation = r.invitation
    BY <2>1, <1>3
  <2>2. CASE q.invitation # r.invitation
    BY <2>2, <1>3, <1>6 DEF TypeInv, LocksHeld
  <2> QED BY <2>1, <2>2
<1>10. useCount' = useCount
  BY DEF CommitDecline, links
<1>11. LocksHeld'
  BY <1>5, <1>8, <1>9, <1>10 DEF TypeInv, LocksHeld
<1> QED BY <1>4, <1>11 DEF TypeInv

LEMMA BeginAcceptStep ==
    ASSUME TypeInv, NEW i \in Invitations, BeginAccept(i)
    PROVE  TypeInv'
<1>1. Accept(i) \in Request
  BY DEF Accept, Request, TypeInv, TypeOK, Invitation
<1>2. TypeOK'
  BY <1>1 DEF TypeInv, TypeOK, BeginAccept, Begin, rows, links, history
<1>3. /\ \A op \in {"join", "decline"} : Of(op)' = Of(op)
      /\ Of("accept")' = Of("accept") \cup {Accept(i)}
  BY DEF BeginAccept, Begin, Of, Accept
<1>4. \A q \in Of("accept") : q.invitation # i
  BY DEF BeginAccept, InvitationLocked
<1>5. Accept(i).invitation = i /\ Accept(i).user = invitations[i].user
  BY DEF Accept
<1>6. LocksHeld'
  BY <1>3, <1>4, <1>5 DEF TypeInv, LocksHeld, BeginAccept, Live, links
<1> QED BY <1>2, <1>6 DEF TypeInv

LEMMA CommitAcceptStep ==
    ASSUME TypeInv, NEW r \in requests, CommitAccept(r)
    PROVE  TypeInv'
<1>1. r \in Request /\ r \in Of("accept") /\ r.op = "accept"
  BY DEF TypeInv, TypeOK, CommitAccept, Of
<1>2. r.invitation \in Invitations /\ r.user \in Users
  BY <1>1, AcceptType
<1>3. /\ invitations' \in [Invitations -> Invitation]
      /\ invitations'[r.invitation].status = "accepted"
      /\ \A j \in Invitations :
            /\ invitations'[j].user = invitations[j].user
            /\ j # r.invitation => invitations'[j] = invitations[j]
  BY <1>2, UpdatedRow DEF CommitAccept, Status
<1>4. Check(r.user) \in Request
  BY <1>2 DEF Check, Request
<1>5. TypeOK'
  BY <1>2, <1>3, <1>4 DEF TypeInv, TypeOK, CommitAccept, InsertMember, links, history
<1>6. /\ \A op \in {"join", "decline"} : Of(op)' = Of(op)
      /\ Of("accept")' = Of("accept") \ {r}
  BY <1>1 DEF CommitAccept, Check, Of
<1>7. \A q \in Of("accept") \cup Of("decline") : q.invitation \in Invitations
  BY AcceptType, DeclineType DEF TypeInv, TypeOK, Of
<1>8. \A q \in Of("accept") \ {r} : q.invitation # r.invitation
  BY <1>1 DEF TypeInv, LocksHeld
<1>9. \A q \in Of("accept") \ {r} :
          invitations'[q.invitation] = invitations[q.invitation]
  BY <1>3, <1>7, <1>8
<1>10. \A q \in Of("decline") : invitations'[q.invitation].status # "none"
  <2> SUFFICES ASSUME NEW q \in Of("decline")
               PROVE  invitations'[q.invitation].status # "none"
    OBVIOUS
  <2>1. CASE q.invitation = r.invitation
    BY <2>1, <1>3
  <2>2. CASE q.invitation # r.invitation
    BY <2>2, <1>3, <1>7 DEF TypeInv, LocksHeld
  <2> QED BY <2>1, <2>2
<1>11. useCount' = useCount
  BY DEF CommitAccept, links
<1>12. LocksHeld'
  BY <1>6, <1>9, <1>10, <1>11 DEF TypeInv, LocksHeld
<1> QED BY <1>5, <1>12 DEF TypeInv

\* The steps that leave links, invitations and the requests about them alone.
LEMMA OtherSteps ==
    ASSUME TypeInv, TypeOK', UNCHANGED <<links, invitations>>,
           \A op \in {"join", "accept", "decline"} : Of(op)' \subseteq Of(op)
    PROVE  TypeInv'
BY DEF TypeInv, LocksHeld, links

LEMMA MemberSteps ==
    ASSUME TypeInv, NEW u \in Users,
           \/ JoinSchool(u)
           \/ BeginLeave(u)
           \/ \E c \in Users : BlockMember(c, u) \/ UnblockMember(c, u)
    PROVE  TypeInv'
<1>1. Leave(u) \in Request
  BY DEF Leave, Request
<1>2. CASE JoinSchool(u)
  <2>1. TypeOK'
    BY <1>2 DEF TypeInv, TypeOK, JoinSchool, InsertMember, links
  <2>2. \A op : Of(op)' = Of(op)
    BY <1>2 DEF JoinSchool, Of
  <2> QED BY <1>2, <2>1, <2>2, OtherSteps DEF JoinSchool
<1>3. CASE BeginLeave(u)
  <2>1. TypeOK'
    BY <1>1, <1>3 DEF TypeInv, TypeOK, BeginLeave, Begin, rows, links, history
  <2>2. \A op \in {"join", "accept", "decline"} : Of(op)' = Of(op)
    BY <1>3 DEF BeginLeave, Begin, Leave, Of
  <2> QED BY <1>3, <2>1, <2>2, OtherSteps DEF BeginLeave
<1>4. CASE \E c \in Users : BlockMember(c, u)
  <2>1. TypeOK'
    BY <1>4 DEF TypeInv, TypeOK, BlockMember, DeleteMember, links
  <2>2. \A op : Of(op)' = Of(op)
    BY <1>4 DEF BlockMember, Of
  <2> QED BY <1>4, <2>1, <2>2, OtherSteps DEF BlockMember
<1>5. CASE \E c \in Users : UnblockMember(c, u)
  <2>1. TypeOK'
    BY <1>5 DEF TypeInv, TypeOK, UnblockMember, rows, links, history
  <2>2. \A op : Of(op)' = Of(op)
    BY <1>5 DEF UnblockMember, Of
  <2> QED BY <1>5, <2>1, <2>2, OtherSteps DEF UnblockMember
<1> QED BY <1>2, <1>3, <1>4, <1>5

LEMMA DeleteAccountStep ==
    ASSUME TypeInv, NEW u \in Users, DeleteAccount(u)
    PROVE  TypeInv'
<1>1. invitations \in [Invitations -> Invitation]
  BY DEF TypeInv, TypeOK
<1>2. ASSUME NEW i \in Invitations
      PROVE  /\ invitations'[i] \in Invitation
             /\ invitations'[i].user = invitations[i].user
             /\ invitations[i].status # "none" => invitations'[i].status # "none"
             /\ invitations[i].user # u => invitations'[i] = invitations[i]
  <2>1. invitations[i] \in Invitation
    BY <1>1
  <2> DEFINE gone == [invitations[i] EXCEPT !.status = "gone"]
  <2>2. gone \in Invitation /\ gone.status = "gone" /\ gone.user = invitations[i].user
    BY <2>1 DEF Invitation, Status
  <2>3. invitations'[i] = IF invitations[i].user = u /\ invitations[i].status # "none"
                          THEN gone ELSE invitations[i]
    BY DEF DeleteAccount
  <2> HIDE DEF gone
  <2> QED BY <2>1, <2>2, <2>3
<1>3. invitations' \in [Invitations -> Invitation]
  <2>1. invitations' = [i \in Invitations |-> invitations'[i]]
    BY DEF DeleteAccount
  <2> QED BY <2>1, <1>2
<1>4. TypeOK'
  <2>1. /\ accounts' = accounts \ {u} /\ banned' = banned \ {u}
        /\ members' = members \ {u} /\ admins' = admins \ {u}
        /\ founding' = founding \ {u} /\ trusted' = trusted \ {u}
    BY DEF DeleteAccount, DeleteMember
  <2>2. vouches' \in SUBSET (accounts' \X accounts')
    BY <2>1 DEF DeleteAccount, TypeInv, TypeOK
  <2>3. UNCHANGED <<active, linkState, useCount, requests, exposed, unchecked>>
    BY DEF DeleteAccount, links, history
  <2> QED BY <1>3, <2>1, <2>2, <2>3 DEF TypeInv, TypeOK
<1>5. \A op : Of(op)' = Of(op)
  BY DEF DeleteAccount, Of
<1>6. \A q \in Of("accept") \cup Of("decline") : q.invitation \in Invitations
  BY AcceptType, DeclineType DEF TypeInv, TypeOK, Of
<1>7. \A q \in Of("accept") : invitations'[q.invitation] = invitations[q.invitation]
  BY <1>2, <1>6 DEF DeleteAccount, InvitationLocked
<1>8. \A q \in Of("decline") : invitations'[q.invitation].status # "none"
  BY <1>2, <1>6 DEF TypeInv, LocksHeld
<1>9. useCount' = useCount
  BY DEF DeleteAccount, links
<1>10. LocksHeld'
  BY <1>5, <1>7, <1>8, <1>9 DEF TypeInv, LocksHeld
<1> QED BY <1>4, <1>10 DEF TypeInv

LEMMA VouchCountType ==
    ASSUME NEW u
    PROVE  VouchCount(u) \in Nat
<1>1. IsFiniteSet({v \in Users : <<v, u>> \in vouches})
  BY UsersAssumption, FS_Subset
<1> QED BY <1>1, FS_CardinalityType DEF VouchCount

LEMMA BeginVouchStep ==
    ASSUME TypeInv, NEW c \in Users, NEW u \in Users, BeginVouch(c, u)
    PROVE  TypeInv'
<1>1. Vouch(c, u, VouchCount(u)) \in Request
  BY VouchCountType DEF Vouch, Request
<1>2. TypeOK'
  BY <1>1 DEF TypeInv, TypeOK, BeginVouch, Begin, rows, links, history
<1>3. \A op \in {"join", "accept", "decline"} : Of(op)' = Of(op)
  BY DEF BeginVouch, Begin, Vouch, Of
<1> QED BY <1>2, <1>3, OtherSteps DEF BeginVouch

LEMMA RequestSteps ==
    ASSUME TypeInv, NEW r \in requests,
           \/ CheckGraduation(r)
           \/ Graduate(r)
           \/ RemoveMember(r)
           \/ CommitVouch(r)
           \/ Abort(r)
    PROVE  TypeInv'
<1>1. r \in Request
  BY DEF TypeInv, TypeOK
<1>2. CASE CheckGraduation(r)
  <2>1. r.op = "check" /\ Graduation(r.user) \in Request
    BY <1>1, <1>2, UserType DEF CheckGraduation, Of, Graduation, Request
  <2>2. TypeOK'
    BY <1>2, <2>1 DEF TypeInv, TypeOK, CheckGraduation, rows, links
  <2>3. \A op \in {"join", "accept", "decline"} : Of(op)' = Of(op)
    BY <1>2, <2>1 DEF CheckGraduation, Graduation, Of
  <2> QED BY <1>2, <2>2, <2>3, OtherSteps DEF CheckGraduation
<1>3. CASE Graduate(r)
  <2>1. TypeOK'
    BY <1>3 DEF TypeInv, TypeOK, Graduate, PromoteFounders, End, links, history
  <2>2. \A op : Of(op)' \subseteq Of(op)
    BY <1>3 DEF Graduate, End, Of
  <2> QED BY <1>3, <2>1, <2>2, OtherSteps DEF Graduate
<1>4. CASE RemoveMember(r)
  <2>1. TypeOK'
    BY <1>4 DEF TypeInv, TypeOK, RemoveMember, DeleteMember, End, links, history
  <2>2. \A op : Of(op)' \subseteq Of(op)
    BY <1>4 DEF RemoveMember, End, Of
  <2> QED BY <1>4, <2>1, <2>2, OtherSteps DEF RemoveMember
<1>5. CASE CommitVouch(r)
  <2>1. r.user \in Users /\ r.by \in Users
    BY <1>1, <1>5, VouchType DEF CommitVouch, Of
  <2>2. trusted' \in SUBSET members
    BY <1>5 DEF TypeInv, TypeOK, CommitVouch
  <2>3. TypeOK'
    BY <1>5, <2>1, <2>2 DEF TypeInv, TypeOK, CommitVouch, End, links, history
  <2>4. \A op : Of(op)' \subseteq Of(op)
    BY <1>5 DEF CommitVouch, End, Of
  <2> QED BY <1>5, <2>3, <2>4, OtherSteps DEF CommitVouch
<1>6. CASE Abort(r)
  <2>1. TypeOK'
    BY <1>6 DEF TypeInv, TypeOK, Abort, End, rows, links
  <2>2. \A op : Of(op)' \subseteq Of(op)
    BY <1>6 DEF Abort, End, Of
  <2> QED BY <1>6, <2>1, <2>2, OtherSteps DEF Abort
<1> QED BY <1>2, <1>3, <1>4, <1>5, <1>6

LEMMA StutterStep ==
    ASSUME TypeInv, UNCHANGED vars
    PROVE  TypeInv'
<1>1. TypeOK'
  BY DEF vars, rows, links, history, TypeInv, TypeOK
<1>2. \A op : Of(op)' = Of(op)
  BY DEF vars, Of
<1> QED BY <1>1, <1>2, OtherSteps DEF vars

LEMMA StepTypeInv == TypeInv /\ [Next]_vars => TypeInv'
<1> SUFFICES ASSUME TypeInv, [Next]_vars PROVE TypeInv'
  OBVIOUS
<1>1. CASE \E l \in Links : ExpireLink(l) \/ \E u \in Users : CreateInviteLink(u, l)
                                                        \/ BeginJoin(u, l)
  BY <1>1, LinkSteps, BeginJoinStep
<1>2. CASE \E i \in Invitations : ExpireInvitation(i) \/ BeginDecline(i) \/ BeginAccept(i)
  BY <1>2, ExpireInvitationStep, BeginDeclineStep, BeginAcceptStep
<1>3. CASE \E u \in Users : JoinSchool(u) \/ BeginLeave(u) \/ DeleteAccount(u)
  BY <1>3, MemberSteps, DeleteAccountStep
<1>4. CASE \E c, u \in Users : BeginInvite(c, u) \/ BlockMember(c, u)
                                 \/ UnblockMember(c, u) \/ BeginVouch(c, u)
  BY <1>4, BeginInviteStep, MemberSteps, BeginVouchStep
<1>5. CASE \E r \in requests : CommitJoin(r) \/ CommitDecline(r) \/ CommitAccept(r)
                                 \/ \E i \in Invitations : CommitInvite(r, i)
  BY <1>5, CommitJoinStep, CommitDeclineStep, CommitAcceptStep, CommitInviteStep
<1>6. CASE \E r \in requests : CheckGraduation(r) \/ Graduate(r) \/ RemoveMember(r)
                                 \/ CommitVouch(r) \/ Abort(r)
  BY <1>6, RequestSteps
<1>7. CASE UNCHANGED vars
  BY <1>7, StutterStep
<1> QED BY <1>1, <1>2, <1>3, <1>4, <1>5, <1>6, <1>7 DEF Next

\* Every reachable state is of its type, use counts within their maximum, and
\* the rows a request has locked are as it has read them: the inductive
\* invariant of the other proofs.
THEOREM TypeLocksInvariant == Spec => []TypeInv
BY InitTypeInv, StepTypeInv, PTL DEF Spec

\* No interleaving of joins overuses a link, and every value has its type.
THEOREM GroupTypeInvariant == Spec => []TypeOK
<1>1. TypeInv => TypeOK
  BY DEF TypeInv
<1> QED BY <1>1, TypeLocksInvariant, PTL
-----------------------------------------------------------------------------
(* The founder is the only admin and the only voucher.                     *)

\* A vouch that can still be recorded is the founder's and counts those the same
\* voucher has not given: none, unless the one it is about to record is there
\* already.
CountsNone(r) ==
    /\ r.by = Creator
    /\ r.by \in accounts /\ r.user \in accounts
           => r.count = 0 \/ <<r.by, r.user>> \in vouches

FounderInv ==
    /\ AdminIsFounder
    /\ TrustOutOfReach
    /\ \A v \in vouches : v[1] = Creator
    /\ \A r \in Of("vouch") : CountsNone(r)

LEMMA NoVouchesYet ==
    ASSUME TypeInv, FounderInv, NEW u, <<Creator, u>> \notin vouches
    PROVE  VouchCount(u) = 0
<1>1. {v \in Users : <<v, u>> \in vouches} = {}
  BY DEF FounderInv
<1> QED BY <1>1, FS_EmptySet DEF VouchCount

LEMMA BeginVouchFounder ==
    ASSUME TypeInv, FounderInv, NEW c \in Users, NEW u \in Users, BeginVouch(c, u)
    PROVE  FounderInv'
<1>1. c = Creator
  BY DEF FounderInv, AdminIsFounder, TrustOutOfReach, BeginVouch, MayVouch
<1>2. PICK n : n = VouchCount(u)
  OBVIOUS
<1>3. n = 0 \/ <<Creator, u>> \in vouches
  BY <1>2, NoVouchesYet
<1>4. Of("vouch")' = Of("vouch") \cup {Vouch(c, u, n)}
  BY <1>2 DEF BeginVouch, Begin, Of, Vouch
<1>5. UNCHANGED <<rows, accounts, vouches>>
  BY DEF BeginVouch
<1>6. ASSUME NEW r, CountsNone(r) PROVE CountsNone(r)'
  BY <1>5, <1>6 DEF CountsNone
<1>7. CountsNone(Vouch(c, u, n))
  BY <1>1, <1>3 DEF CountsNone, Vouch
<1>8. ASSUME NEW r \in Of("vouch")' PROVE CountsNone(r)
  BY <1>4, <1>7, <1>8 DEF FounderInv
<1> QED BY <1>5, <1>6, <1>8 DEF FounderInv, AdminIsFounder, TrustOutOfReach, rows

LEMMA CommitVouchFounder ==
    ASSUME TypeInv, FounderInv, NEW r \in requests, CommitVouch(r)
    PROVE  FounderInv'
<1>1. r.by = Creator /\ r.count = 0
  BY DEF FounderInv, CountsNone, CommitVouch
<1>2. ~(r.count + 1 >= TrustThreshold)
  BY <1>1, ThresholdAssumption
<1>3. trusted' = trusted /\ UNCHANGED <<members, admins, founding, accounts>>
  BY <1>2 DEF CommitVouch
<1>4. vouches' = vouches \cup {<<r.by, r.user>>}
  BY DEF CommitVouch
<1>5. Of("vouch")' \subseteq Of("vouch")
  BY DEF CommitVouch, End, Of
<1>6. \A v \in vouches' : v[1] = Creator
  BY <1>1, <1>4 DEF FounderInv
<1> QED BY <1>3, <1>4, <1>5, <1>6 DEF FounderInv, AdminIsFounder, TrustOutOfReach,
                                       CountsNone

\* Steps that add no vouch and no request to record one.
LEMMA FounderKept ==
    ASSUME FounderInv, AdminIsFounder', TrustOutOfReach', UNCHANGED <<accounts, vouches>>,
           Of("vouch")' \subseteq Of("vouch")
    PROVE  FounderInv'
BY DEF FounderInv, CountsNone

\* The deletion of an account takes the vouches by it and for it, and those
\* under way fail.
LEMMA DeleteAccountFounder ==
    ASSUME FounderInv, NEW u \in Users, DeleteAccount(u)
    PROVE  FounderInv'
<1>1. AdminIsFounder' /\ TrustOutOfReach'
  BY DEF DeleteAccount, DeleteMember, FounderInv, AdminIsFounder, TrustOutOfReach
<1>2. Of("vouch")' = Of("vouch")
  BY DEF DeleteAccount, Of
<1>3. \A v \in vouches' : v[1] = Creator
  BY DEF DeleteAccount, FounderInv
<1>4. ASSUME NEW r \in Of("vouch") PROVE CountsNone(r)'
  <2>1. CountsNone(r)
    BY <1>4 DEF FounderInv
  <2>2. accounts' = accounts \ {u}
    BY DEF DeleteAccount
  <2>3. ASSUME <<r.by, r.user>> \in vouches, u \notin {r.by, r.user}
        PROVE  <<r.by, r.user>> \in vouches'
    BY <2>3 DEF DeleteAccount
  <2> QED BY <2>1, <2>2, <2>3 DEF CountsNone
<1> QED BY <1>1, <1>2, <1>3, <1>4 DEF FounderInv

LEMMA StepFounder == TypeInv /\ FounderInv /\ [Next]_vars => FounderInv'
<1> SUFFICES ASSUME TypeInv, FounderInv, [Next]_vars PROVE FounderInv'
  OBVIOUS
<1> USE DEF AdminIsFounder, TrustOutOfReach
<1>1. ASSUME NEW l \in Links
      PROVE  /\ ExpireLink(l) => FounderInv'
             /\ \A u \in Users : CreateInviteLink(u, l) => FounderInv'
             /\ \A u \in Users : BeginJoin(u, l) => FounderInv'
  <2>1. CASE ExpireLink(l) \/ \E u \in Users : CreateInviteLink(u, l)
    BY <2>1, FounderKept DEF ExpireLink, CreateInviteLink, Of, rows, FounderInv
  <2>2. ASSUME NEW u \in Users, BeginJoin(u, l) PROVE FounderInv'
    BY <2>2, FounderKept DEF BeginJoin, Begin, Join, Of, rows, FounderInv
  <2> QED BY <2>1, <2>2
<1>2. ASSUME NEW i \in Invitations
      PROVE  /\ ExpireInvitation(i) => FounderInv'
             /\ BeginDecline(i) => FounderInv'
             /\ BeginAccept(i) => FounderInv'
  <2>1. CASE ExpireInvitation(i)
    BY <2>1, FounderKept DEF ExpireInvitation, Of, rows, FounderInv
  <2>2. CASE BeginDecline(i)
    BY <2>2, FounderKept DEF BeginDecline, Begin, Decline, Of, rows, FounderInv
  <2>3. CASE BeginAccept(i)
    BY <2>3, FounderKept DEF BeginAccept, Begin, Accept, Of, rows, FounderInv
  <2> QED BY <2>1, <2>2, <2>3
<1>3. ASSUME NEW u \in Users, JoinSchool(u) \/ BeginLeave(u) \/ DeleteAccount(u)
      PROVE  FounderInv'
  <2>1. CASE JoinSchool(u) \/ BeginLeave(u)
    BY <2>1, FounderKept DEF JoinSchool, InsertMember, BeginLeave, Begin, Leave, Of,
                             rows, FounderInv
  <2> QED BY <1>3, <2>1, DeleteAccountFounder
<1>4. ASSUME NEW c \in Users, NEW u \in Users
      PROVE  /\ BeginInvite(c, u) => FounderInv'
             /\ BlockMember(c, u) => FounderInv'
             /\ UnblockMember(c, u) => FounderInv'
             /\ BeginVouch(c, u) => FounderInv'
  <2>1. CASE BeginInvite(c, u)
    BY <2>1, FounderKept DEF BeginInvite, Begin, Invite, Of, rows, FounderInv
  <2>2. CASE BlockMember(c, u)
    BY <2>2, FounderKept DEF BlockMember, DeleteMember, Of, FounderInv
  <2>3. CASE UnblockMember(c, u)
    BY <2>3, FounderKept DEF UnblockMember, Of, rows, FounderInv
  <2> QED BY <2>1, <2>2, <2>3, BeginVouchFounder
<1>5. ASSUME NEW r \in requests
      PROVE  /\ CommitJoin(r) => FounderInv'
             /\ \A i \in Invitations : CommitInvite(r, i) => FounderInv'
             /\ CommitDecline(r) => FounderInv'
             /\ CommitAccept(r) => FounderInv'
  <2>1. CASE CommitJoin(r)
    BY <2>1, FounderKept DEF CommitJoin, InsertMember, Check, Of, FounderInv
  <2>2. CASE CommitAccept(r)
    BY <2>2, FounderKept DEF CommitAccept, InsertMember, Check, Of, FounderInv
  <2>3. CASE CommitDecline(r) \/ \E i \in Invitations : CommitInvite(r, i)
    BY <2>3, FounderKept DEF CommitDecline, CommitInvite, End, Of, rows, FounderInv
  <2> QED BY <2>1, <2>2, <2>3
<1>6. ASSUME NEW r \in requests
      PROVE  /\ CheckGraduation(r) => FounderInv'
             /\ Graduate(r) => FounderInv'
             /\ RemoveMember(r) => FounderInv'
             /\ CommitVouch(r) => FounderInv'
             /\ Abort(r) => FounderInv'
  <2>1. CASE CheckGraduation(r)
    BY <2>1, FounderKept DEF CheckGraduation, Graduation, Of, rows, FounderInv
  <2>2. CASE Graduate(r)
    BY <2>2, FounderKept DEF Graduate, PromoteFounders, End, Of, FounderInv
  <2>3. CASE RemoveMember(r)
    BY <2>3, FounderKept DEF RemoveMember, DeleteMember, End, Of, FounderInv
  <2>4. CASE Abort(r)
    BY <2>4, FounderKept DEF Abort, End, Of, rows, FounderInv
  <2> QED BY <2>1, <2>2, <2>3, <2>4, CommitVouchFounder
<1>7. CASE UNCHANGED vars
  BY <1>7, FounderKept DEF vars, rows, Of, FounderInv
<1> QED BY <1>1, <1>2, <1>3, <1>4, <1>5, <1>6, <1>7 DEF Next

LEMMA FounderInvariant == Spec => []FounderInv
<1>1. Init => FounderInv
  BY DEF Init, FounderInv, AdminIsFounder, TrustOutOfReach, Of
<1> QED BY <1>1, StepFounder, TypeLocksInvariant, PTL DEF Spec

\* No admission, graduation, ban or return makes a second admin.
THEOREM FounderTheorem == Spec => []AdminIsFounder
<1>1. FounderInv => AdminIsFounder
  BY DEF FounderInv
<1> QED BY <1>1, FounderInvariant, PTL

\* With a threshold of two or more, as the column's default is, nobody ever
\* becomes trusted.
THEOREM TrustTheorem == Spec => []TrustOutOfReach
<1>1. FounderInv => TrustOutOfReach
  BY DEF FounderInv
<1> QED BY <1>1, FounderInvariant, PTL
-----------------------------------------------------------------------------
(* Bans.                                                                   *)

\* A banned user whose admission is under way is exposed already.
BanInv ==
    /\ BannedStayOut
    /\ BeingAdmitted \cap banned \subseteq exposed

LEMMA AdmissionBan ==
    ASSUME BanInv, NEW r, r \in Of("join") \cup Of("accept"),
           members' = members \cup {r.user}, UNCHANGED <<banned, exposed>>,
           BeingAdmitted' \subseteq BeingAdmitted
    PROVE  BanInv'
BY DEF BanInv, BannedStayOut, BeingAdmitted

\* Steps that admit nobody, ban nobody and begin no admission.
LEMMA BanKept ==
    ASSUME BanInv, members' \subseteq members, UNCHANGED <<banned, exposed>>,
           BeingAdmitted' \subseteq BeingAdmitted
    PROVE  BanInv'
BY DEF BanInv, BannedStayOut

\* A deletion takes the ban and the row together.
LEMMA DeleteAccountBan ==
    ASSUME BanInv, NEW u \in Users, DeleteAccount(u)
    PROVE  BanInv'
<1>1. BeingAdmitted' = BeingAdmitted
  BY DEF DeleteAccount, BeingAdmitted, Of
<1> QED BY <1>1 DEF DeleteAccount, DeleteMember, history, BanInv, BannedStayOut

LEMMA StepBan == TypeInv /\ BanInv /\ [Next]_vars => BanInv'
<1> SUFFICES ASSUME TypeInv, BanInv, [Next]_vars PROVE BanInv'
  OBVIOUS
<1>1. ASSUME NEW l \in Links
      PROVE  /\ ExpireLink(l) => BanInv'
             /\ \A u \in Users : CreateInviteLink(u, l) => BanInv'
             /\ \A u \in Users : BeginJoin(u, l) => BanInv'
  <2>1. CASE ExpireLink(l) \/ \E u \in Users : CreateInviteLink(u, l)
    BY <2>1, BanKept DEF ExpireLink, CreateInviteLink, Of, BeingAdmitted, rows, history
  <2>2. ASSUME NEW u \in Users, BeginJoin(u, l) PROVE BanInv'
    <3>1. BeingAdmitted' \subseteq BeingAdmitted \cup {u}
      BY <2>2 DEF BeginJoin, Begin, Join, Of, BeingAdmitted
    <3> QED BY <2>2, <3>1 DEF BeginJoin, rows, history, BanInv, BannedStayOut
  <2> QED BY <2>1, <2>2
<1>2. ASSUME NEW i \in Invitations
      PROVE  /\ ExpireInvitation(i) => BanInv'
             /\ BeginDecline(i) => BanInv'
             /\ BeginAccept(i) => BanInv'
  <2>1. CASE ExpireInvitation(i)
    BY <2>1, BanKept DEF ExpireInvitation, Of, BeingAdmitted, rows, history
  <2>2. CASE BeginDecline(i)
    BY <2>2, BanKept DEF BeginDecline, Begin, Decline, Of, BeingAdmitted, rows, history
  <2>3. CASE BeginAccept(i)
    <3>1. BeingAdmitted' \subseteq BeingAdmitted \cup {invitations[i].user}
      BY <2>3 DEF BeginAccept, Begin, Accept, Of, BeingAdmitted
    <3> QED BY <2>3, <3>1 DEF BeginAccept, rows, history, BanInv, BannedStayOut
  <2> QED BY <2>1, <2>2, <2>3
<1>3. ASSUME NEW u \in Users
      PROVE  /\ JoinSchool(u) => BanInv'
             /\ BeginLeave(u) => BanInv'
             /\ DeleteAccount(u) => BanInv'
  <2>1. CASE JoinSchool(u)
    BY <2>1 DEF JoinSchool, InsertMember, BanInv, BannedStayOut, BeingAdmitted, Of
  <2>2. CASE BeginLeave(u)
    BY <2>2, BanKept DEF BeginLeave, Begin, Leave, Of, BeingAdmitted, rows, history
  <2> QED BY <2>1, <2>2, DeleteAccountBan
<1>4. ASSUME NEW c \in Users, NEW u \in Users
      PROVE  /\ BeginInvite(c, u) => BanInv'
             /\ BlockMember(c, u) => BanInv'
             /\ UnblockMember(c, u) => BanInv'
             /\ BeginVouch(c, u) => BanInv'
  <2>1. CASE BeginInvite(c, u)
    BY <2>1, BanKept DEF BeginInvite, Begin, Invite, Of, BeingAdmitted, rows, history
  <2>2. CASE BlockMember(c, u)
    <3>1. BeingAdmitted' = BeingAdmitted
      BY <2>2 DEF BlockMember, BeingAdmitted, Of
    <3> QED BY <2>2, <3>1 DEF BlockMember, DeleteMember, BanInv, BannedStayOut
  <2>3. CASE UnblockMember(c, u)
    <3>1. BeingAdmitted' = BeingAdmitted
      BY <2>3 DEF UnblockMember, BeingAdmitted, Of
    <3> QED BY <2>3, <3>1 DEF UnblockMember, rows, history, BanInv, BannedStayOut
  <2>4. CASE BeginVouch(c, u)
    BY <2>4, BanKept DEF BeginVouch, Begin, Vouch, Of, BeingAdmitted, rows, history
  <2> QED BY <2>1, <2>2, <2>3, <2>4
<1>5. ASSUME NEW r \in requests
      PROVE  /\ CommitJoin(r) => BanInv'
             /\ \A i \in Invitations : CommitInvite(r, i) => BanInv'
             /\ CommitDecline(r) => BanInv'
             /\ CommitAccept(r) => BanInv'
  <2>1. CASE CommitJoin(r)
    <3>1. BeingAdmitted' \subseteq BeingAdmitted
      BY <2>1 DEF CommitJoin, Check, Of, BeingAdmitted
    <3> QED BY <2>1, <3>1, AdmissionBan DEF CommitJoin, InsertMember, history
  <2>2. CASE CommitAccept(r)
    <3>1. BeingAdmitted' \subseteq BeingAdmitted
      BY <2>2 DEF CommitAccept, Check, Of, BeingAdmitted
    <3> QED BY <2>2, <3>1, AdmissionBan DEF CommitAccept, InsertMember, history
  <2>3. CASE CommitDecline(r) \/ \E i \in Invitations : CommitInvite(r, i)
    BY <2>3, BanKept DEF CommitDecline, CommitInvite, End, Of, BeingAdmitted, rows,
                         history
  <2> QED BY <2>1, <2>2, <2>3
<1>6. ASSUME NEW r \in requests
      PROVE  /\ CheckGraduation(r) => BanInv'
             /\ Graduate(r) => BanInv'
             /\ RemoveMember(r) => BanInv'
             /\ CommitVouch(r) => BanInv'
             /\ Abort(r) => BanInv'
  <2>1. CASE CheckGraduation(r)
    <3>1. BeingAdmitted' \subseteq BeingAdmitted
      BY <2>1 DEF CheckGraduation, Graduation, Of, BeingAdmitted
    <3> QED BY <2>1, <3>1, BanKept DEF CheckGraduation, rows
  <2>2. CASE Graduate(r) \/ RemoveMember(r) \/ CommitVouch(r) \/ Abort(r)
    <3>1. BeingAdmitted' \subseteq BeingAdmitted
      BY <2>2 DEF Graduate, RemoveMember, CommitVouch, Abort, End, Of, BeingAdmitted
    <3> QED BY <2>2, <3>1, BanKept DEF Graduate, RemoveMember, CommitVouch, Abort,
                                       DeleteMember, rows, history
  <2> QED BY <2>1, <2>2
<1>7. CASE UNCHANGED vars
  BY <1>7, BanKept DEF vars, rows, history, Of, BeingAdmitted
<1> QED BY <1>1, <1>2, <1>3, <1>4, <1>5, <1>6, <1>7 DEF Next

\* A banned user is a member through a named window or the school page only.
THEOREM BanTheorem == Spec => []BannedStayOut
<1>1. Init => BanInv
  BY DEF Init, BanInv, BannedStayOut, BeingAdmitted, Of
<1>2. BanInv => BannedStayOut
  BY DEF BanInv
<1> QED BY <1>1, <1>2, StepBan, TypeLocksInvariant, PTL DEF Spec
-----------------------------------------------------------------------------
(* Graduation.                                                             *)

\* Somebody leaves or nobody moves: what was owed before is owed after, as
\* long as the requests that pay it are still there.
LEMMA OwedKept ==
    ASSUME TypeInv, GraduationIsOwed, members' \subseteq members,
           active => active', unchecked => unchecked',
           Of("check") \subseteq Of("check")', Of("graduation") \subseteq Of("graduation")'
    PROVE  GraduationIsOwed'
<1>1. IsFiniteSet(members) /\ IsFiniteSet(members')
  BY UsersAssumption, FS_Subset DEF TypeInv, TypeOK
<1>2. /\ Cardinality(members') <= Cardinality(members)
      /\ Cardinality(members') \in Nat /\ Cardinality(members) \in Nat
  BY <1>1, FS_Subset, FS_CardinalityType
<1> QED BY <1>2, ThresholdAssumption DEF GraduationIsOwed

\* An admission through one of the two transactions brings its own check.
LEMMA OwedChecked ==
    ASSUME NEW u, Check(u) \in requests'
    PROVE  GraduationIsOwed'
<1>1. Check(u) \in Of("check")'
  BY DEF Of, Check
<1> QED BY <1>1 DEF GraduationIsOwed

LEMMA StepOwed == TypeInv /\ GraduationIsOwed /\ [Next]_vars => GraduationIsOwed'
<1> SUFFICES ASSUME TypeInv, GraduationIsOwed, [Next]_vars PROVE GraduationIsOwed'
  OBVIOUS
<1>1. ASSUME NEW r, Begin(r), UNCHANGED <<rows, active, history>>
      PROVE  GraduationIsOwed'
  BY <1>1, OwedKept DEF Begin, Of, rows, history
<1>2. ASSUME NEW r, End(r), r.op \notin {"check", "graduation"}, members' \subseteq members,
             UNCHANGED <<active, unchecked>>
      PROVE  GraduationIsOwed'
  BY <1>2, OwedKept DEF End, Of
<1>3. ASSUME UNCHANGED <<requests, active, unchecked>>, members' \subseteq members
      PROVE  GraduationIsOwed'
  BY <1>3, OwedKept DEF Of
<1>4. ASSUME NEW l \in Links
      PROVE  /\ ExpireLink(l) => GraduationIsOwed'
             /\ \A u \in Users : CreateInviteLink(u, l) => GraduationIsOwed'
             /\ \A u \in Users : BeginJoin(u, l) => GraduationIsOwed'
  BY <1>1, <1>3 DEF ExpireLink, CreateInviteLink, BeginJoin, rows, history
<1>5. ASSUME NEW i \in Invitations
      PROVE  /\ ExpireInvitation(i) => GraduationIsOwed'
             /\ BeginDecline(i) => GraduationIsOwed'
             /\ BeginAccept(i) => GraduationIsOwed'
  BY <1>1, <1>3 DEF ExpireInvitation, BeginDecline, BeginAccept, rows, history
<1>6. ASSUME NEW u \in Users
      PROVE  /\ JoinSchool(u) => GraduationIsOwed'
             /\ BeginLeave(u) => GraduationIsOwed'
             /\ DeleteAccount(u) => GraduationIsOwed'
  <2>1. CASE JoinSchool(u) \/ BeginLeave(u)
    BY <2>1, <1>1 DEF JoinSchool, BeginLeave, GraduationIsOwed
  <2>2. CASE DeleteAccount(u)
    BY <2>2, <1>3 DEF DeleteAccount, DeleteMember, history
  <2> QED BY <2>1, <2>2
<1>7. ASSUME NEW c \in Users, NEW u \in Users
      PROVE  /\ BeginInvite(c, u) => GraduationIsOwed'
             /\ BlockMember(c, u) => GraduationIsOwed'
             /\ UnblockMember(c, u) => GraduationIsOwed'
             /\ BeginVouch(c, u) => GraduationIsOwed'
  BY <1>1, <1>3 DEF BeginInvite, BlockMember, DeleteMember, UnblockMember, BeginVouch,
                    rows, history
<1>8. ASSUME NEW r \in requests
      PROVE  /\ CommitJoin(r) => GraduationIsOwed'
             /\ \A i \in Invitations : CommitInvite(r, i) => GraduationIsOwed'
             /\ CommitDecline(r) => GraduationIsOwed'
             /\ CommitAccept(r) => GraduationIsOwed'
  <2>1. CASE CommitJoin(r) \/ CommitAccept(r)
    BY <2>1, OwedChecked DEF CommitJoin, CommitAccept
  <2>2. CASE CommitDecline(r) \/ \E i \in Invitations : CommitInvite(r, i)
    BY <2>2, <1>2 DEF CommitDecline, CommitInvite, Of, rows, history
  <2> QED BY <2>1, <2>2
<1>9. ASSUME NEW r \in requests
      PROVE  /\ CheckGraduation(r) => GraduationIsOwed'
             /\ Graduate(r) => GraduationIsOwed'
             /\ RemoveMember(r) => GraduationIsOwed'
             /\ CommitVouch(r) => GraduationIsOwed'
             /\ Abort(r) => GraduationIsOwed'
  <2>1. CASE CheckGraduation(r)
    <3>1. ~active /\ Cardinality(members) >= FoundingThreshold
             => Graduation(r.user) \in Of("graduation")'
      BY <2>1 DEF CheckGraduation, Graduation, Of
    <3>2. UNCHANGED <<active, members>>
      BY <2>1 DEF CheckGraduation, rows
    <3> QED BY <3>1, <3>2 DEF GraduationIsOwed
  <2>2. CASE Graduate(r)
    BY <2>2 DEF Graduate, GraduationIsOwed
  <2>3. CASE RemoveMember(r) \/ CommitVouch(r)
    BY <2>3, <1>2 DEF RemoveMember, DeleteMember, CommitVouch, Of, history
  <2>4. CASE Abort(r) /\ r.op \in {"check", "graduation"}
    BY <2>4 DEF Abort, GraduationIsOwed
  <2>5. CASE Abort(r) /\ r.op \notin {"check", "graduation"}
    <3>1. unchecked' = unchecked
      BY <2>5 DEF Abort, TypeInv, TypeOK
    <3> QED BY <2>5, <3>1, <1>2 DEF Abort, rows
  <2> QED BY <2>1, <2>2, <2>3, <2>4, <2>5
<1>10. CASE UNCHANGED vars
  BY <1>10, <1>3 DEF vars, rows, history
<1> QED BY <1>4, <1>5, <1>6, <1>7, <1>8, <1>9, <1>10 DEF Next

LEMMA InitOwed == Init => GraduationIsOwed
<1>1. Cardinality({Creator}) = 1
  BY FS_Singleton
<1> QED BY <1>1, ThresholdAssumption DEF Init, GraduationIsOwed

\* However admissions overlap, the last one to reach the threshold is followed
\* by a check that sees it, unless that check is lost.
THEOREM GraduationTheorem == Spec => []GraduationIsOwed
BY InitOwed, StepOwed, TypeLocksInvariant, PTL DEF Spec
-----------------------------------------------------------------------------
(* Unseating.                                                              *)

\* An admin who begins to leave would have to see another one.
LeaveInv == \A r \in Of("leave") : r.user \notin admins

LEMMA SoleAdminStays ==
    ASSUME FounderInv, NEW u \in admins
    PROVE  ~MayLeave(u)
<1>1. admins = {Creator}
  BY DEF FounderInv, AdminIsFounder
<1>2. Cardinality(admins) = 1
  BY <1>1, FS_Singleton
<1> QED BY <1>2 DEF MayLeave

LEMMA LeaveKept ==
    ASSUME LeaveInv, admins' \subseteq admins, Of("leave")' \subseteq Of("leave")
    PROVE  LeaveInv'
BY DEF LeaveInv

LEMMA StepLeave == FounderInv /\ LeaveInv /\ [Next]_vars => LeaveInv'
<1> SUFFICES ASSUME FounderInv, LeaveInv, [Next]_vars PROVE LeaveInv'
  OBVIOUS
<1>1. ASSUME NEW r, Begin(r), UNCHANGED rows, r.op # "leave" PROVE LeaveInv'
  BY <1>1, LeaveKept DEF Begin, Of, rows
<1>2. ASSUME NEW r, End(r), admins' \subseteq admins PROVE LeaveInv'
  BY <1>2, LeaveKept DEF End, Of
<1>3. ASSUME UNCHANGED requests, admins' \subseteq admins PROVE LeaveInv'
  BY <1>3, LeaveKept DEF Of
<1>4. ASSUME NEW l \in Links
      PROVE  /\ ExpireLink(l) => LeaveInv'
             /\ \A u \in Users : CreateInviteLink(u, l) => LeaveInv'
             /\ \A u \in Users : BeginJoin(u, l) => LeaveInv'
  BY <1>1, <1>3 DEF ExpireLink, CreateInviteLink, BeginJoin, Join, rows
<1>5. ASSUME NEW i \in Invitations
      PROVE  /\ ExpireInvitation(i) => LeaveInv'
             /\ BeginDecline(i) => LeaveInv'
             /\ BeginAccept(i) => LeaveInv'
  BY <1>1, <1>3 DEF ExpireInvitation, BeginDecline, Decline, BeginAccept, Accept, rows
<1>6. ASSUME NEW u \in Users
      PROVE  /\ JoinSchool(u) => LeaveInv'
             /\ BeginLeave(u) => LeaveInv'
             /\ DeleteAccount(u) => LeaveInv'
  <2>1. CASE JoinSchool(u)
    BY <2>1, <1>3 DEF JoinSchool, InsertMember
  <2>2. CASE BeginLeave(u)
    <3>1. u \notin admins
      BY <2>2, SoleAdminStays DEF BeginLeave
    <3>2. Of("leave")' = Of("leave") \cup {Leave(u)} /\ Leave(u).user = u
      BY <2>2 DEF BeginLeave, Begin, Of, Leave
    <3>3. admins' = admins
      BY <2>2 DEF BeginLeave, rows
    <3>4. \A q \in Of("leave")' : q.user \notin admins
      BY <3>1, <3>2 DEF LeaveInv
    <3> QED BY <3>3, <3>4 DEF LeaveInv
  <2>3. CASE DeleteAccount(u)
    BY <2>3, <1>3 DEF DeleteAccount, DeleteMember
  <2> QED BY <2>1, <2>2, <2>3
<1>7. ASSUME NEW c \in Users, NEW u \in Users
      PROVE  /\ BeginInvite(c, u) => LeaveInv'
             /\ BlockMember(c, u) => LeaveInv'
             /\ UnblockMember(c, u) => LeaveInv'
             /\ BeginVouch(c, u) => LeaveInv'
  BY <1>1, <1>3 DEF BeginInvite, Invite, BlockMember, DeleteMember, UnblockMember,
                    BeginVouch, Vouch, rows
<1>8. ASSUME NEW r \in requests
      PROVE  /\ CommitJoin(r) => LeaveInv'
             /\ \A i \in Invitations : CommitInvite(r, i) => LeaveInv'
             /\ CommitDecline(r) => LeaveInv'
             /\ CommitAccept(r) => LeaveInv'
             /\ CheckGraduation(r) => LeaveInv'
  <2>1. CASE CommitJoin(r) \/ CommitAccept(r)
    <3>1. requests' = (requests \ {r}) \cup {Check(r.user)}
      BY <2>1 DEF CommitJoin, CommitAccept
    <3>2. Of("leave")' \subseteq Of("leave")
      BY <3>1 DEF Check, Of
    <3> QED BY <2>1, <3>2, LeaveKept DEF CommitJoin, CommitAccept, InsertMember
  <2>2. CASE CheckGraduation(r)
    <3>1. ASSUME NEW q \in Of("leave")' PROVE q \in Of("leave")
      BY <2>2, <3>1 DEF CheckGraduation, Graduation, Of
    <3> QED BY <2>2, <3>1, LeaveKept DEF CheckGraduation, rows
  <2>3. CASE CommitDecline(r) \/ \E i \in Invitations : CommitInvite(r, i)
    BY <2>3, <1>2 DEF CommitDecline, CommitInvite, rows
  <2> QED BY <2>1, <2>2, <2>3
<1>9. ASSUME NEW r \in requests
      PROVE  /\ Graduate(r) => LeaveInv'
             /\ RemoveMember(r) => LeaveInv'
             /\ CommitVouch(r) => LeaveInv'
             /\ Abort(r) => LeaveInv'
  BY <1>2 DEF Graduate, PromoteFounders, FounderInv, AdminIsFounder, RemoveMember,
              DeleteMember, CommitVouch, Abort, rows
<1>10. CASE UNCHANGED vars
  BY <1>10, <1>3 DEF vars, rows
<1> QED BY <1>4, <1>5, <1>6, <1>7, <1>8, <1>9, <1>10 DEF Next

\* What takes an admin's flag: a superuser's ban, or the loss of the account.
Unseated ==
    \E u \in admins : DeleteAccount(u) \/ \E s \in Superusers : BlockMember(s, u)

\* No step takes the admin's flag but these.
LEMMA StepUnseats ==
    ASSUME FounderInv, LeaveInv, [Next]_vars
    PROVE  admins \subseteq admins' \/ Unseated
<1> DEFINE Goal == admins \subseteq admins' \/ Unseated
<1>1. ASSUME UNCHANGED rows PROVE Goal
  BY <1>1 DEF rows
<1>2. ASSUME NEW u, InsertMember(u) PROVE Goal
  BY <1>2 DEF InsertMember
<1>3. ASSUME NEW l \in Links
      PROVE  /\ ExpireLink(l) => Goal
             /\ \A u \in Users : (CreateInviteLink(u, l) => Goal) /\ (BeginJoin(u, l) => Goal)
  BY <1>1 DEF ExpireLink, CreateInviteLink, BeginJoin
<1>4. ASSUME NEW i \in Invitations
      PROVE  /\ ExpireInvitation(i) => Goal
             /\ BeginDecline(i) => Goal
             /\ BeginAccept(i) => Goal
  BY <1>1 DEF ExpireInvitation, BeginDecline, BeginAccept
<1>5. ASSUME NEW u \in Users
      PROVE  /\ JoinSchool(u) => Goal
             /\ BeginLeave(u) => Goal
             /\ DeleteAccount(u) => Goal
  <2>1. CASE DeleteAccount(u)
    BY <2>1 DEF Unseated, DeleteAccount, DeleteMember
  <2> QED BY <2>1, <1>1, <1>2 DEF JoinSchool, BeginLeave
<1>6. ASSUME NEW c \in Users, NEW u \in Users
      PROVE  /\ BeginInvite(c, u) => Goal
             /\ BlockMember(c, u) => Goal
             /\ UnblockMember(c, u) => Goal
             /\ BeginVouch(c, u) => Goal
  <2>1. CASE BlockMember(c, u)
    <3>1. CASE u \in admins
      <4>1. c \in Superusers
        BY <2>1, <3>1 DEF BlockMember, MayAdminister, FounderInv, AdminIsFounder
      <4> QED BY <2>1, <3>1, <4>1 DEF Unseated
    <3>2. CASE u \notin admins
      BY <2>1, <3>2 DEF BlockMember, DeleteMember
    <3> QED BY <3>1, <3>2
  <2> QED BY <2>1, <1>1 DEF BeginInvite, UnblockMember, BeginVouch
<1>7. ASSUME NEW r \in requests
      PROVE  /\ CommitJoin(r) => Goal
             /\ \A i \in Invitations : CommitInvite(r, i) => Goal
             /\ CommitDecline(r) => Goal
             /\ CommitAccept(r) => Goal
             /\ CheckGraduation(r) => Goal
             /\ Abort(r) => Goal
  BY <1>1, <1>2 DEF CommitJoin, CommitInvite, CommitDecline, CommitAccept,
                    CheckGraduation, Abort
<1>8. ASSUME NEW r \in requests
      PROVE  (Graduate(r) => Goal) /\ (RemoveMember(r) => Goal) /\ (CommitVouch(r) => Goal)
  BY DEF Graduate, PromoteFounders, RemoveMember, DeleteMember, CommitVouch, LeaveInv
<1>9. CASE UNCHANGED vars
  BY <1>9, <1>1 DEF vars
<1> QED BY <1>3, <1>4, <1>5, <1>6, <1>7, <1>8, <1>9 DEF Next

\* The group loses its admin only by the ban of a superuser or with the
\* admin's account.
THEOREM UnseatTheorem == Spec => OnlyBanOrDeletionUnseats
<1>1. Init => LeaveInv
  BY DEF Init, LeaveInv, Of
<1>2. Spec => []LeaveInv
  BY <1>1, StepLeave, FounderInvariant, PTL DEF Spec
<1>3. FounderInv /\ LeaveInv /\ [Next]_vars
        => [\/ admins \subseteq admins'
            \/ \E u \in admins : DeleteAccount(u)
                                  \/ \E s \in Superusers : BlockMember(s, u)]_vars
  BY StepUnseats DEF Unseated
<1> QED BY <1>2, <1>3, FounderInvariant, PTL DEF Spec, OnlyBanOrDeletionUnseats
-----------------------------------------------------------------------------
(* Implementation of GroupRules.                                           *)

\* The refinement mapping.
Answer  == [i \in Invitations |-> invitations[i].status]
Invitee == [i \in Invitations |-> invitations[i].user]

RulesVars == <<members, useCount, Answer, Invitee, active>>

LEMMA InitRules == Init => Rules!Init
<1> SUFFICES ASSUME Init PROVE Rules!Init
  OBVIOUS
<1>1. Answer = [i \in Invitations |-> "none"] /\ Invitee \in [Invitations -> Users]
  BY CreatorAssumption DEF Init, Answer, Invitee
<1> QED BY <1>1, CreatorAssumption DEF Init, Rules!Init, Answer, Invitee

LEMMA RulesStutter ==
    ASSUME UNCHANGED <<members, useCount, invitations, active>>
    PROVE  UNCHANGED RulesVars
BY DEF RulesVars, Answer, Invitee

LEMMA RulesJoin ==
    ASSUME TypeInv, NEW r \in requests, CommitJoin(r)
    PROVE  \E u \in Users, l \in Links : Rules!AdmitByLink(u, l)
<1>1. r.user \in Users /\ r.link \in Links
  BY JoinType DEF TypeInv, TypeOK, CommitJoin, Of
<1>2. useCount[r.link] < MaxUses
  BY DEF TypeInv, LocksHeld, CommitJoin
<1>3. Rules!AdmitByLink(r.user, r.link)
  BY <1>2 DEF CommitJoin, InsertMember, Rules!AdmitByLink, Rules!Admit
<1> QED BY <1>1, <1>3

\* The mapping of an UPDATE of one row.
LEMMA RulesUpdate ==
    ASSUME TypeInv, NEW i \in Invitations, NEW answer \in Status,
           NEW expired \in BOOLEAN, invitations' = Updated(i, answer, expired)
    PROVE  Answer' = [Answer EXCEPT ![i] = answer] /\ Invitee' = Invitee
BY UpdatedRow DEF Answer, Invitee

LEMMA RulesAccept ==
    ASSUME TypeInv, NEW r \in requests, CommitAccept(r)
    PROVE  \E i \in Invitations : Rules!AdmitByInvitation(i)
<1>1. r \in Of("accept") /\ r.invitation \in Invitations
  BY AcceptType DEF TypeInv, TypeOK, CommitAccept, Of
<1>2. Answer[r.invitation] = "pending" /\ Invitee[r.invitation] = r.user
  BY <1>1 DEF TypeInv, LocksHeld, Answer, Invitee
<1>3. Answer' = [Answer EXCEPT ![r.invitation] = "accepted"] /\ Invitee' = Invitee
  BY <1>1, RulesUpdate DEF CommitAccept, Status
<1>4. Rules!AdmitByInvitation(r.invitation)
  BY <1>2, <1>3 DEF CommitAccept, InsertMember, links, Rules!AdmitByInvitation,
                    Rules!Admit, Answer, Invitee
<1> QED BY <1>1, <1>4

LEMMA RulesDecline ==
    ASSUME TypeInv, NEW r \in requests, CommitDecline(r)
    PROVE  \E i \in Invitations : Rules!Decline(i)
<1>1. r \in Of("decline") /\ r.invitation \in Invitations
  BY DeclineType DEF TypeInv, TypeOK, CommitDecline, Of
<1>2. Answer[r.invitation] \notin {"none", "gone"}
  BY <1>1 DEF TypeInv, LocksHeld, Answer, CommitDecline
<1>3. Answer' = [Answer EXCEPT ![r.invitation] = "declined"] /\ Invitee' = Invitee
  BY <1>1, RulesUpdate DEF CommitDecline, Status
<1>4. Rules!Decline(r.invitation)
  BY <1>2, <1>3 DEF CommitDecline, rows, links, Rules!Decline, Answer, Invitee
<1> QED BY <1>1, <1>4

LEMMA RulesForget ==
    ASSUME TypeInv, NEW u \in Users, DeleteAccount(u)
    PROVE  Rules!Forget(u)
<1>1. invitations \in [Invitations -> Invitation]
  BY DEF TypeInv, TypeOK
<1>2. ASSUME NEW i \in Invitations
      PROVE  /\ invitations'[i].user = invitations[i].user
             /\ invitations'[i].status =
                   IF invitations[i].user = u /\ invitations[i].status # "none"
                   THEN "gone" ELSE invitations[i].status
  BY <1>1 DEF DeleteAccount, Invitation
<1>3. Invitee' = Invitee
  BY <1>2 DEF Invitee
<1>4. Answer' = [i \in Invitations |->
          IF Invitee[i] = u /\ Answer[i] # "none" THEN "gone" ELSE Answer[i]]
  BY <1>2 DEF Answer, Invitee
<1>5. members' = members \ {u} /\ UNCHANGED <<useCount, active>>
  BY DEF DeleteAccount, DeleteMember, links
<1> QED BY <1>3, <1>4, <1>5 DEF Rules!Forget, Answer, Invitee

LEMMA RulesInvite ==
    ASSUME TypeInv, NEW r \in requests, NEW i \in Invitations, CommitInvite(r, i)
    PROVE  \E u \in Users : Rules!Invite(i, u)
<1>1. r.user \in Users
  BY InviteType DEF TypeInv, TypeOK, CommitInvite, Of
<1> DEFINE sent == [status |-> "pending", user |-> r.user, by |-> r.by,
                   expired |-> FALSE]
<1>2. sent.status = "pending" /\ sent.user = r.user
  OBVIOUS
<1>3. invitations' = [invitations EXCEPT ![i] = sent] /\ Answer[i] = "none"
  BY DEF CommitInvite, Answer
<1> HIDE DEF sent
<1>4. /\ Answer' = [Answer EXCEPT ![i] = "pending"]
      /\ Invitee' = [Invitee EXCEPT ![i] = r.user]
  BY <1>2, <1>3 DEF TypeInv, TypeOK, Answer, Invitee
<1>5. Rules!Invite(i, r.user)
  BY <1>3, <1>4 DEF CommitInvite, rows, links, Rules!Invite, Answer, Invitee
<1> QED BY <1>1, <1>5

LEMMA StepRules ==
    ASSUME TypeInv, [Next]_vars
    PROVE  Rules!Next \/ UNCHANGED RulesVars
<1> DEFINE Goal == Rules!Next \/ UNCHANGED RulesVars
<1>1. ASSUME UNCHANGED <<members, useCount, invitations, active>> PROVE Goal
  BY <1>1, RulesStutter
<1>2. ASSUME NEW u \in Users, DeleteMember(u), UNCHANGED <<useCount, invitations, active>>
      PROVE  Goal
  <2>1. Rules!Remove(u)
    BY <1>2 DEF DeleteMember, Rules!Remove
  <2> QED BY <2>1 DEF Rules!Next
<1>3. ASSUME NEW l \in Links
      PROVE  /\ ExpireLink(l) => Goal
             /\ \A u \in Users : (CreateInviteLink(u, l) => Goal) /\ (BeginJoin(u, l) => Goal)
  BY <1>1 DEF ExpireLink, CreateInviteLink, BeginJoin, rows, links
<1>4. ASSUME NEW i \in Invitations
      PROVE  /\ ExpireInvitation(i) => Goal
             /\ BeginDecline(i) => Goal
             /\ BeginAccept(i) => Goal
  <2>1. CASE ExpireInvitation(i)
    <3>1. Answer[i] = "pending" /\ invitations' = Updated(i, "pending", TRUE)
      BY <2>1 DEF ExpireInvitation, Live, Answer
    <3>2. Answer' = Answer /\ Invitee' = Invitee
      BY <3>1, RulesUpdate DEF Status, Answer
    <3> QED BY <2>1, <3>2 DEF ExpireInvitation, rows, links, RulesVars
  <2> QED BY <2>1, <1>1 DEF BeginDecline, BeginAccept, rows, links
<1>5. ASSUME NEW u \in Users
      PROVE  /\ JoinSchool(u) => Goal
             /\ BeginLeave(u) => Goal
             /\ DeleteAccount(u) => Goal
  <2>1. CASE JoinSchool(u)
    <3>1. Rules!AdmitBySchool(u)
      BY <2>1 DEF JoinSchool, InsertMember, links, Rules!AdmitBySchool, Rules!Admit
    <3> QED BY <3>1 DEF Rules!Next
  <2>2. CASE DeleteAccount(u)
    BY <2>2, RulesForget DEF Rules!Next
  <2> QED BY <2>1, <2>2, <1>1 DEF BeginLeave, rows, links
<1>6. ASSUME NEW c \in Users, NEW u \in Users
      PROVE  /\ BeginInvite(c, u) => Goal
             /\ BlockMember(c, u) => Goal
             /\ UnblockMember(c, u) => Goal
             /\ BeginVouch(c, u) => Goal
  BY <1>1, <1>2 DEF BeginInvite, BlockMember, UnblockMember, BeginVouch, rows, links
<1>7. ASSUME NEW r \in requests
      PROVE  /\ CommitJoin(r) => Goal
             /\ \A i \in Invitations : CommitInvite(r, i) => Goal
             /\ CommitDecline(r) => Goal
             /\ CommitAccept(r) => Goal
  BY RulesJoin, RulesInvite, RulesDecline, RulesAccept DEF Rules!Next
<1>8. ASSUME NEW r \in requests
      PROVE  /\ CheckGraduation(r) => Goal
             /\ Graduate(r) => Goal
             /\ RemoveMember(r) => Goal
             /\ CommitVouch(r) => Goal
             /\ Abort(r) => Goal
  <2>1. CASE Graduate(r)
    <3>1. CASE active
      BY <2>1, <3>1, <1>1 DEF Graduate, links, TypeInv, TypeOK
    <3>2. CASE ~active
      <4>1. Rules!Graduate
        BY <2>1, <3>2 DEF Graduate, links, Rules!Graduate
      <4> QED BY <4>1 DEF Rules!Next
    <3> QED BY <3>1, <3>2
  <2>2. CASE RemoveMember(r)
    <3>1. r.user \in Users
      BY <2>2, UserType DEF RemoveMember, Of, TypeInv, TypeOK
    <3> QED BY <2>2, <3>1, <1>2 DEF RemoveMember, links
  <2> QED BY <2>1, <2>2, <1>1 DEF CheckGraduation, CommitVouch, Abort, rows, links
<1>9. CASE UNCHANGED vars
  BY <1>9, <1>1 DEF vars, rows, links
<1> QED BY <1>3, <1>4, <1>5, <1>6, <1>7, <1>8, <1>9 DEF Next

\* The transactions implement the rules: each step is an atomic admission,
\* removal, answer, loss of an account or graduation, or changes nothing the
\* rules speak of.
THEOREM Refinement == Spec => ImplementsRules
<1>1. TypeInv /\ [Next]_vars => [Rules!Next]_(Rules!vars)
  BY StepRules DEF RulesVars, Rules!vars, Answer, Invitee
<1> QED BY <1>1, InitRules, TypeLocksInvariant, PTL DEF Spec, ImplementsRules, Rules!Spec
-----------------------------------------------------------------------------
(* GroupPages, whose users and superusers are those of this group.         *)

\* A set of natural numbers has the least element that the row to write is.
LEMMA LeastRow ==
    ASSUME NEW S \in SUBSET Nat, S # {}
    PROVE  Min(S) \in S
<1> DEFINE Below == {0 .. n : n \in S}
<1>1. Below \subseteq FiniteSubsetsOf(Nat) /\ Below # {}
  <2>1. \A n \in S : 0 .. n \in FiniteSubsetsOf(Nat)
    <3>1. TAKE n \in S
    <3>2. n \in Int /\ 0 .. n \subseteq Nat /\ IsFiniteSet(0 .. n)
      BY FS_Interval
    <3> QED BY <3>2 DEF FiniteSubsetsOf
  <2> QED BY <2>1
<1>2. PICK b \in Below : \A c \in Below : <<c, b>> \notin StrictSubsetOrdering(Nat)
  <2> HIDE DEF Below
  <2> QED BY <1>1, FS_StrictSubsetOrderingWellFounded, WFMin
<1>3. PICK x \in S : b = 0 .. x
  OBVIOUS
<1>4. \A y \in S : x <= y
  <2>1. SUFFICES ASSUME NEW y \in S, y < x PROVE FALSE
    OBVIOUS
  <2>2. (0 .. y) \subseteq (0 .. x) /\ 0 .. y # 0 .. x
    BY <2>1
  <2>3. <<0 .. y, 0 .. x>> \in StrictSubsetOrdering(Nat)
    BY <2>2 DEF StrictSubsetOrdering
  <2> QED BY <1>2, <1>3, <2>3
<1> QED BY <1>4 DEF Min

LEMMA PagesMax ==
    ASSUME NEW m \in Nat, NEW n \in Nat
    PROVE  Max({m, n}) \in Nat /\ Max({m, n}) >= m /\ Max({m, n}) >= n
<1>1. \E x \in {m, n} : \A y \in {m, n} : x >= y
  OBVIOUS
<1> QED BY <1>1 DEF Max

\* What each action of a handler leaves alone.
LEMMA PagesTurn ==
    ASSUME PagesTypeOK, NEW h \in Handlers, NEW r, Turn(h, r)
    PROVE  /\ DOMAIN request' = Handlers /\ request'[h] = r
           /\ \A g \in Handlers \ {h} : request'[g] = request[g]
BY DEF PagesTypeOK, Turn

LEMMA PagesWatch ==
    ASSUME PagesTypeOK, Watch, resident' \subseteq Users
    PROVE  met' \in [Handlers -> SUBSET (1 .. MaxItems)] /\ visible' \subseteq Handlers
<1>1. \A h \in Handlers : Allowed(request[h].user)' \subseteq 1 .. MaxItems
  BY DEF Allowed, Items
<1> QED BY <1>1 DEF Watch, PagesTypeOK, Items, Changed

\* A row, and the same row with other keys.
LEMMA PagesRekeyed ==
    ASSUME NEW r \in Row, NEW keys \in SUBSET Users
    PROVE  LET q == [r EXCEPT !.keys = keys]
           IN q \in Row /\ q.kind = r.kind /\ q.tier = r.tier /\ q.keys = keys
BY DEF Row

\* A row, and the same row without a key.
LEMMA PagesRow ==
    ASSUME NEW r \in Row, NEW u
    PROVE  LET q == [r EXCEPT !.keys = @ \ {u}]
           IN /\ q \in Row /\ q.kind = r.kind /\ q.tier = r.tier /\ q.tier \in Tier
              /\ q.keys = r.keys \ {u}
<1>1. CASE r \in [kind : {"posting"}, tier : {"admin_only"}, keys : SUBSET Users]
  BY <1>1 DEF Row, Tier, AllTiers
<1>2. CASE r \in [kind : Kinds \cup {"resource", "gone", "none"}, tier : Tier,
                  keys : SUBSET Users]
  BY <1>2 DEF Row
<1> QED BY <1>1, <1>2 DEF Row

LEMMA PagesRemoved ==
    ASSUME PagesTypeOK, NEW u, EndMembership(u), NEW i \in Items
    PROVE  /\ row'[i].kind = row[i].kind /\ row'[i].tier = row[i].tier
           /\ row'[i].keys = row[i].keys \ {u}
<1>1. row[i] \in Row /\ row'[i] = [row[i] EXCEPT !.keys = @ \ {u}]
  BY DEF PagesTypeOK, EndMembership
<1> QED BY <1>1, PagesRow

LEMMA PagesRotated ==
    ASSUME PagesTypeOK, NEW h \in Handlers, Rotate(h), NEW i \in Items
    PROVE  /\ row'[i].kind = row[i].kind /\ row'[i].tier = row[i].tier
           /\ row'[i].keys = IF i = request[h].item THEN request[h].keys ELSE row[i].keys
<1>1. request[h].item \in Items /\ request[h].keys \in SUBSET Users
  BY DEF Rotate, At, PagesTypeOK, RequestOK
<1>2. row[i] \in Row /\ row' = [row EXCEPT ![request[h].item].keys = request[h].keys]
  BY DEF PagesTypeOK, Rotate
<1>3. row'[i] = IF i = request[h].item THEN [row[i] EXCEPT !.keys = request[h].keys] ELSE row[i]
  BY <1>1, <1>2 DEF PagesTypeOK
<1>4. /\ [row[i] EXCEPT !.keys = request[h].keys].kind = row[i].kind
      /\ [row[i] EXCEPT !.keys = request[h].keys].tier = row[i].tier
      /\ [row[i] EXCEPT !.keys = request[h].keys].keys = request[h].keys
  BY <1>1, <1>2, PagesRekeyed
<1> QED BY <1>3, <1>4

LEMMA PagesFinite ==
    ASSUME PagesTypeOK, NEW k
    PROVE  /\ IsFiniteSet(Rows(k)) /\ Cardinality(Rows(k)) \in Nat
           /\ IsFiniteSet(InFlight(k)) /\ Cardinality(InFlight(k)) \in Nat
           /\ IsFiniteSet(InFlight(k)') /\ Cardinality(InFlight(k)') \in Nat
           /\ IsFiniteSet(Rows(k)') /\ Cardinality(Rows(k)') \in Nat
<1>1. MaxItems \in Nat /\ IsFiniteSet(Handlers)
  BY PagesBoundsAssumption
<1>2. IsFiniteSet(1 .. MaxItems)
  BY <1>1, FS_Interval
<1>3. /\ Rows(k) \subseteq 1 .. MaxItems /\ Rows(k)' \subseteq 1 .. MaxItems
      /\ InFlight(k) \subseteq Handlers /\ InFlight(k)' \subseteq Handlers
  BY DEF Rows, InFlight, Items
<1>4. \A S : \A T \in SUBSET S : IsFiniteSet(S) => IsFiniteSet(T) /\ Cardinality(T) \in Nat
  BY FS_Subset, FS_CardinalityType
<1> QED BY <1>1, <1>2, <1>3, <1>4
-----------------------------------------------------------------------------
(* Types.                                                                  *)

USE DEF At, Items

LEMMA PagesOpsType ==
    ASSUME PagesTypeOK, NEW h \in Handlers, NEW r, RequestOK(r), Turn(h, r)
    PROVE  DOMAIN request' = Handlers /\ \A g \in Handlers : RequestOK(request'[g])
BY PagesTurn DEF PagesTypeOK

LEMMA PagesOnly ==
    ASSUME PagesTypeOK, NEW S, Only(S),
           "group" \in S => status' \in {"provisional", "active"} /\ listed' \in BOOLEAN,
           "people" \in S => rank' \in [Users -> Standing] /\ resident' \subseteq Users,
           "row" \in S => row' \in [Items -> Row],
           "keys" \in S => owed' \subseteq Items /\ revived' \subseteq Items \X Users,
           "crowd" \in S => crowd' \in [Kinds -> Nat],
           DOMAIN request' = Handlers /\ \A g \in Handlers : RequestOK(request'[g])
    PROVE  PagesTypeOK'
<1>1. resident' \subseteq Users /\ rank' \in [Users -> Standing]
  BY DEF Only, people, PagesTypeOK
<1>2. Watch
  BY DEF Only
<1>3. met' \in [Handlers -> SUBSET Items] /\ visible' \subseteq Handlers
  BY <1>1, <1>2, PagesWatch
<1> QED BY <1>1, <1>3 DEF Only, PagesTypeOK, group, pagesKeys

LEMMA PagesViewers ==
    Viewers \subseteq Users
BY PagesUsersAssumption

LEMMA PagesIdle == RequestOK(Idle)
BY DEF RequestOK, Idle

LEMMA PagesTypeInit ==
    ASSUME PagesInit
    PROVE  PagesTypeOK
<1>1. /\ NoRow \in Row
      /\ Joiners \subseteq Users
  BY PagesUsersAssumption DEF NoRow, Row, Tier
<1> QED BY <1>1, PagesIdle DEF PagesInit, PagesTypeOK, Standing

\* A row that a request may have in hand.
LEMMA PagesRowType ==
    ASSUME NEW k \in Kinds \cup {"resource"}, NEW t \in Tiers[k],
           NEW keys \in SUBSET Joiners
    PROVE  [kind |-> k, tier |-> t, keys |-> keys] \in Row
<1>1. t \in Tier /\ keys \in SUBSET Users
  BY PagesUsersAssumption, PagesBoundsAssumption DEF Tier
<1> QED BY <1>1 DEF Row

LEMMA PagesTypeWrite ==
    ASSUME PagesTypeOK, NEW h \in Handlers, Write(h)
    PROVE  PagesTypeOK'
<1>1. ASSUME NEW r, RequestOK(r), Turn(h, r), Only({})
      PROVE  PagesTypeOK'
  BY <1>1, PagesOpsType, PagesOnly, Zenon
<1>2. ASSUME NEW u \in Users, NEW t \in Tiers["resource"], BeginResource(h, u, t)
      PROVE  PagesTypeOK'
  <2>1. RequestOK([op |-> "insert", row |-> [kind |-> "resource", tier |-> t, keys |-> {}]])
    BY PagesRowType DEF RequestOK
  <2> QED BY <1>1, <1>2, <2>1 DEF BeginResource
<1>3. ASSUME NEW k \in Kinds, NEW t \in Tiers[k], NEW keys \in SUBSET Joiners,
             Counted(h, k, t, keys)
      PROVE  PagesTypeOK'
  <2>1. RequestOK([op |-> "insert", row |-> [kind |-> k, tier |-> t, keys |-> keys]])
    BY PagesRowType DEF RequestOK
  <2>2. Cardinality(InFlight(k)) \in Nat
    BY PagesFinite
  <2>3. crowd' \in [Kinds -> Nat]
    BY <1>3, <2>2, PagesMax DEF Counted, PagesTypeOK
  <2> QED BY <1>3, <2>1, <2>3, PagesOpsType, PagesOnly DEF Counted
<1>4. ASSUME NEW u \in Users, NEW t \in Tiers["chat"], NEW keys \in SUBSET Joiners,
             "chat" \in Kinds, BeginChat(h, u, t, keys)
      PROVE  PagesTypeOK'
  BY <1>3, <1>4 DEF BeginChat
<1>5. ASSUME NEW u \in Users, NEW t \in Tiers["channel"], "channel" \in Kinds,
             BeginChannel(h, u, t)
      PROVE  PagesTypeOK'
  BY <1>3, <1>5 DEF BeginChannel
<1>6. ASSUME NEW u \in Users, NEW i \in Items
      PROVE  /\ \A t \in Tiers["resource"] :
                    BeginUpdateResource(h, u, i, t) => PagesTypeOK'
             /\ BeginDeleteResource(h, u, i) => PagesTypeOK'
  <2>1. ASSUME NEW r \in Row, r.kind \in {"resource", "gone"},
               BeginChange(h, u, i, r)
        PROVE  PagesTypeOK'
    <3>1. RequestOK([op |-> "change", item |-> i, row |-> r])
      BY <2>1 DEF RequestOK
    <3> QED BY <1>1, <2>1, <3>1 DEF BeginChange
  <2>2. Gone \in Row /\ Gone.kind = "gone"
    BY DEF Gone, Row, Tier
  <2> QED BY <2>1, <2>2, PagesRowType DEF BeginUpdateResource, BeginDeleteResource
<1>7. ASSUME NEW u \in Users, NEW v \in BOOLEAN, BeginUpdate(h, u, v)
      PROVE  PagesTypeOK'
  <2>1. RequestOK([op |-> "visibility", listed |-> v])
    BY DEF RequestOK
  <2> QED BY <1>1, <1>7, <2>1 DEF BeginUpdate
<1>8. ASSUME NEW k, Insert(h, k)
      PROVE  PagesTypeOK'
  <2>1. request[h].row \in Row
    BY <1>8 DEF Insert, PagesTypeOK, RequestOK
  <2>2. row' \in [Items -> Row]
    BY <1>8, <2>1 DEF Insert, PagesTypeOK
  <2> QED BY <1>8, <2>2, PagesIdle, PagesOpsType, PagesOnly DEF Insert
<1>9. ASSUME Change(h)
      PROVE  PagesTypeOK'
  <2>1. row' \in [Items -> Row]
    BY <1>9 DEF Change, PagesTypeOK, RequestOK
  <2> QED BY <1>9, <2>1, PagesIdle, PagesOpsType, PagesOnly DEF Change
<1>10. ASSUME Update(h)
       PROVE  PagesTypeOK'
  <2>1. status' \in {"provisional", "active"} /\ listed' \in BOOLEAN
    BY <1>10 DEF Update, PagesTypeOK, RequestOK
  <2> QED BY <1>10, <2>1, PagesIdle, PagesOpsType, PagesOnly DEF Update
<1>11. ASSUME Fail(h)
       PROVE  PagesTypeOK'
  BY <1>1, <1>11, PagesIdle DEF Fail
<1>12. ASSUME NEW u \in Users, BeginPost(h, u) \/ BeginRemovePosting(h, u)
       PROVE  PagesTypeOK'
  <2>1. ASSUME NEW op \in {"post", "unpost"}, BeginPosting(h, u, op)
        PROVE  PagesTypeOK'
    <3>1. RequestOK([op |-> op])
      BY DEF RequestOK
    <3> QED BY <1>1, <2>1, <3>1 DEF BeginPosting
  <2> QED BY <1>12, <2>1 DEF BeginPost, BeginRemovePosting
<1>13. ASSUME CreateOrUpdatePosting(h) \/ RemovePosting(h)
       PROVE  PagesTypeOK'
  <2>1. Posting \in Row /\ Gone \in Row
    BY DEF Posting, Gone, Row, Tier, AllTiers
  <2>2. row' \in [Items -> Row]
    BY <1>13, <2>1 DEF CreateOrUpdatePosting, RemovePosting, PagesTypeOK
  <2> QED BY <1>13, <2>2, PagesIdle, PagesOpsType, PagesOnly
       DEF CreateOrUpdatePosting, RemovePosting
<1>14. ASSUME NEW u \in Users, NEW i \in Items, BeginRotation(h, u, i)
       PROVE  PagesTypeOK'
  <2>1. row[i].keys \in SUBSET Users
    BY DEF PagesTypeOK, Row
  <2>2. RequestOK([op |-> "rotate", item |-> i, keys |-> row[i].keys])
    BY <2>1 DEF RequestOK
  <2> QED BY <1>1, <1>14, <2>2 DEF BeginRotation
<1>15. ASSUME Rotate(h)
       PROVE  PagesTypeOK'
  <2>1. request[h].item \in Items /\ request[h].keys \in SUBSET Users
    BY <1>15 DEF Rotate, PagesTypeOK, RequestOK
  <2>2. row' \in [Items -> Row]
    BY <1>15, <2>1, PagesRekeyed DEF Rotate, PagesTypeOK
  <2>3. owed' \subseteq Items /\ revived' \subseteq Items \X Users
    BY <1>15, <2>1 DEF Rotate, PagesTypeOK
  <2> QED BY <1>15, <2>2, <2>3, PagesIdle, PagesOpsType, PagesOnly DEF Rotate
<1> QED BY <1>2, <1>4, <1>5, <1>6, <1>7, <1>8, <1>9, <1>10, <1>11, <1>12, <1>13,
           <1>14, <1>15
     DEF Write, CreateResource, CreateChat, CreateChannel,
         UpdateResource, DeleteResource

LEMMA PagesTypeRead ==
    ASSUME PagesTypeOK, NEW h \in Handlers, Read(h)
    PROVE  PagesTypeOK'
<1>1. ASSUME NEW r, RequestOK(r), Turn(h, r), Only({})
      PROVE  PagesTypeOK'
  BY <1>1, PagesOpsType, PagesOnly, Zenon
<1>2. ASSUME NEW op \in {"guard", "rows"}, NEW u \in Users, NEW k \in {"resource", "chat", "channel"}
      PROVE  RequestOK(Page(op, u, k))
  BY DEF RequestOK, Page
<1>3. ASSUME NEW u \in Users
      PROVE  /\ \A k \in Kinds \cup {"resource"} : Guard(h, u, k) => PagesTypeOK'
             /\ Get(h, u) => PagesTypeOK'
  <2>1. Kinds \subseteq {"chat", "channel"}
    BY PagesBoundsAssumption
  <2> QED BY <1>1, <1>2, <2>1 DEF Guard, Get, Open
<1>4. ASSUME NEW u \in Users, NEW i \in Items, BeginSecret(h, u, i)
      PROVE  PagesTypeOK'
  <2> DEFINE r == [op |-> "rank", user |-> u, secret |-> TRUE, rows |-> {<<i, row[i].tier>>}]
  <2>1. row[i].tier \in Tier
    BY PagesRow DEF PagesTypeOK
  <2>2. RequestOK(r)
    BY <2>1 DEF RequestOK
  <2>3. Turn(h, r) /\ Only({})
    BY <1>4 DEF BeginSecret
  <2> QED BY <1>1, <2>2, <2>3
<1>5. ASSUME CheckMember(h)
      PROVE  PagesTypeOK'
  <2>1. request[h].user \in Users /\ request[h].kind \in {"resource", "chat", "channel"}
    BY <1>5 DEF CheckMember, PagesTypeOK, RequestOK
  <2> QED BY <1>1, <1>2, <1>5, <2>1, PagesIdle DEF CheckMember
<1>6. ASSUME ReadRows(h)
      PROVE  PagesTypeOK'
  <2> DEFINE tiers == {<<i, row[i].tier>> : i \in Rows(request[h].kind)}
             r == [op |-> "rank", user |-> request[h].user, secret |-> FALSE, rows |-> tiers]
  <2>1. tiers \in SUBSET (Items \X Tier)
    <3>1. \A i \in Items : row[i].tier \in Tier
      BY PagesRow DEF PagesTypeOK
    <3> QED BY <3>1 DEF Rows
  <2>2. request[h].user \in Users
    BY <1>6 DEF ReadRows, PagesTypeOK, RequestOK
  <2>3. RequestOK(r)
    <3> HIDE DEF tiers
    <3> QED BY <2>1, <2>2 DEF RequestOK
  <2> QED BY <1>1, <1>6, <2>3 DEF ReadRows
<1>7. ASSUME ReadRank(h)
      PROVE  PagesTypeOK'
  <2>1. /\ request[h].user \in Users /\ request[h].secret \in BOOLEAN
        /\ request[h].rows \in SUBSET (Items \X Tier)
        /\ rank[request[h].user] \in Standing
    BY <1>7 DEF ReadRank, PagesTypeOK, RequestOK
  <2>2. RequestOK([op |-> "residence", user |-> request[h].user,
                         secret |-> request[h].secret, rows |-> request[h].rows,
                         rank |-> rank[request[h].user]])
    BY <2>1 DEF RequestOK
  <2> QED BY <1>1, <1>7, <2>2 DEF ReadRank
<1>8. ASSUME CompareTier(h)
      PROVE  PagesTypeOK'
  <2>1. request[h].user \in Users /\ request[h].rows \in SUBSET (Items \X Tier)
    BY <1>8 DEF CompareTier, PagesTypeOK, RequestOK
  <2>2. Shown(h) \subseteq Items
    BY <2>1 DEF Shown
  <2>3. \A i \in Items :
            RequestOK([op |-> "key", user |-> request[h].user, item |-> i])
    BY <2>1 DEF RequestOK
  <2> QED BY <1>1, <1>8, <2>2, <2>3, PagesIdle DEF CompareTier
<1>9. ASSUME \/ Show(h) \/ HandSecret(h) \/ RefuseSecret(h)
             \/ GetPosting(h)
      PROVE  PagesTypeOK'
  BY <1>1, <1>9, PagesIdle
     DEF Show, HandSecret, RefuseSecret, GetPosting
<1>10. ASSUME NEW u \in Users, BeginGetPosting(h, u)
       PROVE  PagesTypeOK'
  <2>1. RequestOK([op |-> "posting", user |-> u])
    BY DEF RequestOK
  <2> QED BY <1>1, <1>10, <2>1 DEF BeginGetPosting
<1> QED BY <1>3, <1>4, <1>5, <1>6, <1>7, <1>8, <1>9, <1>10, PagesViewers
     DEF Read, ListPage, ReadGroup

LEMMA PagesTypePeople ==
    ASSUME PagesTypeOK, NEW u \in Joiners,
           AddMember(u) \/ EndMembership(u) \/ Move(u)
    PROVE  PagesTypeOK'
<1>1. u \in Users
  BY PagesUsersAssumption
<1>2. DOMAIN request' = Handlers /\ \A g \in Handlers : RequestOK(request'[g])
  BY DEF PagesTypeOK, AddMember, EndMembership, Move
<1>3. rank' \in [Users -> Standing] /\ resident' \subseteq Users
  BY <1>1 DEF PagesTypeOK, Standing, AddMember, EndMembership, Move
<1>4. CASE EndMembership(u)
  <2>1. row' \in [Items -> Row]
    BY <1>4, PagesRow DEF PagesTypeOK, EndMembership
  <2>2. owed' \subseteq Items /\ revived' \subseteq Items \X Users
    BY <1>4 DEF PagesTypeOK, EndMembership, Flag, Rows
  <2> QED BY <1>2, <1>3, <1>4, <2>1, <2>2, PagesOnly DEF EndMembership
<1>5. CASE AddMember(u) \/ Move(u)
  BY <1>2, <1>3, <1>5, PagesOnly DEF AddMember, Move
<1> QED BY <1>4, <1>5

LEMMA PagesTypeStep ==
    ASSUME PagesTypeOK, [PagesNext]_(pagesVars)
    PROVE  PagesTypeOK'
<1>1. CASE UNCHANGED pagesVars
  BY <1>1 DEF pagesVars, group, people, pagesKeys, pagesHistory, PagesTypeOK
<1>2. CASE CheckAndGraduate
  <2>1. DOMAIN request' = Handlers /\ \A g \in Handlers : RequestOK(request'[g])
    BY <1>2 DEF CheckAndGraduate, PagesTypeOK
  <2> QED BY <1>2, <2>1, PagesOnly DEF CheckAndGraduate, PagesTypeOK
<1>3. CASE EndOther
  <2>1. DOMAIN request' = Handlers /\ \A g \in Handlers : RequestOK(request'[g])
    BY <1>3 DEF EndOther, PagesTypeOK
  <2>2. owed' \subseteq Items /\ revived' \subseteq Items \X Users
    BY <1>3 DEF EndOther, Flag, Rows, PagesTypeOK
  <2> QED BY <1>3, <2>1, <2>2, PagesOnly DEF EndOther
<1> QED BY <1>1, <1>2, <1>3, PagesTypeWrite, PagesTypeRead, PagesTypePeople DEF PagesNext

\* Every request carries what its next statement needs, of the kinds and users
\* there are (the handlers of resources, Signal chats and channels).
THEOREM PagesTypeInvariant ==
    PagesSpec => []PagesTypeOK
BY PagesTypeInit, PagesTypeStep, PTL DEF PagesSpec
-----------------------------------------------------------------------------
(* The limits of chats and channels.                                       *)

\* One request more or less on its way.
LEMMA PagesPlaces ==
    ASSUME PagesTypeOK, NEW k \in Kinds, NEW h \in Handlers, NEW r,
           Turn(h, r)
    PROVE  /\ InFlight(k)' \subseteq InFlight(k) \cup {h}
           /\ h \in InFlight(k)' <=> r.op = "insert" /\ r.row.kind = k
           /\ InFlight(k) \subseteq InFlight(k)' \cup {h}
<1>1. request'[h] = r /\ \A g \in Handlers \ {h} : request'[g] = request[g]
  BY PagesTurn
<1> QED BY <1>1 DEF InFlight

LEMMA PagesFewer ==
    ASSUME PagesTypeOK, PlacesHold, NEW k \in Kinds,
           Rows(k)' \subseteq Rows(k),
           InFlight(k)' \subseteq InFlight(k),
           crowd'[k] = crowd[k]
    PROVE  Cardinality(Rows(k)') + Cardinality(InFlight(k)') < Limit + crowd'[k]
<1>1. /\ Cardinality(Rows(k)') <= Cardinality(Rows(k))
      /\ Cardinality(InFlight(k)') <= Cardinality(InFlight(k))
  BY PagesFinite, FS_Subset
<1>2. Cardinality(Rows(k)) + Cardinality(InFlight(k)) < Limit + crowd[k]
  BY DEF PlacesHold
<1>3. Limit \in Nat /\ crowd[k] \in Nat
  BY PagesBoundsAssumption DEF PagesTypeOK
<1> QED BY <1>1, <1>2, <1>3, PagesFinite

LEMMA PagesCounted ==
    ASSUME PagesTypeOK, PlacesHold, NEW h \in Handlers,
           NEW k \in Kinds, NEW t, NEW keys, At(h, "idle"),
           Cardinality(Rows(k)) < Limit, Counted(h, k, t, keys)
    PROVE  PlacesHold'
<1> DEFINE r == [op |-> "insert", row |-> [kind |-> k, tier |-> t, keys |-> keys]]
<1>1. /\ Turn(h, r) /\ Rows(k)' = Rows(k)
      /\ \A j \in Kinds : Rows(j)' = Rows(j)
  BY DEF Counted, Only, Rows
<1>2. h \notin InFlight(k) /\ InFlight(k)' = InFlight(k) \cup {h}
  BY <1>1, PagesPlaces DEF InFlight
<1>3. Cardinality(InFlight(k)') = Cardinality(InFlight(k)) + 1
  BY <1>2, PagesFinite, FS_AddElement
<1>4. crowd'[k] \in Nat /\ crowd'[k] >= Cardinality(InFlight(k)) + 1
  <2> DEFINE n == Cardinality(InFlight(k)) + 1
  <2>1. n \in Nat /\ crowd[k] \in Nat
    BY PagesFinite DEF PagesTypeOK
  <2>2. crowd'[k] = Max({crowd[k], n})
    BY DEF Counted, PagesTypeOK
  <2> QED BY <2>1, <2>2, PagesMax
<1>5. Limit \in Nat
  BY PagesBoundsAssumption
<1>6. Cardinality(Rows(k)') + Cardinality(InFlight(k)') < Limit + crowd'[k]
  BY <1>1, <1>3, <1>4, <1>5, PagesFinite
<1>7. ASSUME NEW j \in Kinds \ {k}
      PROVE  Cardinality(Rows(j)') + Cardinality(InFlight(j)') < Limit + crowd'[j]
  <2>1. InFlight(j)' \subseteq InFlight(j)
    BY <1>1, PagesPlaces
  <2>2. crowd'[j] = crowd[j]
    BY DEF Counted, PagesTypeOK
  <2> QED BY <1>1, <2>1, <2>2, PagesFewer
<1> QED BY <1>6, <1>7 DEF PlacesHold

\* The inserted row takes the place of its request.
LEMMA PagesInserted ==
    ASSUME PagesTypeOK, PlacesHold, NEW h \in Handlers,
           NEW k \in Kinds \cup {"resource"}, Insert(h, k)
    PROVE  PlacesHold'
<1> DEFINE i == Min(Rows("none"))
<1>1. i \in Rows("none")
  BY LeastRow DEF Insert, Rows
<1>2. /\ row' = [row EXCEPT ![i] = request[h].row] /\ request[h].row.kind = k
      /\ h \in Handlers /\ request[h].op = "insert" /\ Turn(h, Idle)
      /\ crowd' = crowd
  BY DEF Insert, Only
<1>3. ASSUME NEW j \in Kinds
      PROVE  /\ InFlight(j)' = InFlight(j) \ {h}
             /\ j = k => h \in InFlight(j)
             /\ j # k => Rows(j)' \subseteq Rows(j)
             /\ j = k => i \notin Rows(j) /\ Rows(j)' = Rows(j) \cup {i}
  <2>1. j \in {"chat", "channel"}
    BY PagesBoundsAssumption
  <2>2. InFlight(j)' = InFlight(j) \ {h}
    BY <1>2, PagesPlaces DEF Idle, InFlight
  <2>3. j = k => h \in InFlight(j)
    BY <1>2 DEF InFlight
  <2>4. /\ j # k => Rows(j)' \subseteq Rows(j)
        /\ j = k => i \notin Rows(j) /\ Rows(j)' = Rows(j) \cup {i}
    <3> HIDE DEF i
    <3> QED BY <1>1, <1>2, <2>1 DEF Rows, PagesTypeOK
  <2> QED BY <2>2, <2>3, <2>4
<1>4. ASSUME NEW j \in Kinds, j = k
      PROVE  Cardinality(Rows(j)') + Cardinality(InFlight(j)') < Limit + crowd'[j]
  <2>1. /\ Cardinality(Rows(j)') = Cardinality(Rows(j)) + 1
        /\ Cardinality(InFlight(j)') = Cardinality(InFlight(j)) - 1
    BY <1>3, <1>4, PagesFinite, FS_AddElement, FS_RemoveElement
  <2>2. Cardinality(Rows(j)) + Cardinality(InFlight(j)) < Limit + crowd[j]
    BY DEF PlacesHold
  <2>3. Limit \in Nat /\ crowd[j] \in Nat
    BY PagesBoundsAssumption DEF PagesTypeOK
  <2> QED BY <1>2, <2>1, <2>2, <2>3, PagesFinite
<1>5. ASSUME NEW j \in Kinds, j # k
      PROVE  Cardinality(Rows(j)') + Cardinality(InFlight(j)') < Limit + crowd'[j]
  BY <1>2, <1>3, <1>5, PagesFewer
<1> QED BY <1>4, <1>5 DEF PlacesHold

LEMMA PagesLimitInit ==
    ASSUME PagesInit
    PROVE  PlacesHold
<1> SUFFICES ASSUME NEW k \in Kinds
             PROVE  Cardinality(Rows(k)) + Cardinality(InFlight(k)) < Limit + crowd[k]
  BY DEF PlacesHold
<1>1. k \in {"chat", "channel"} /\ Limit \in Nat
  BY PagesBoundsAssumption
<1>2. Rows(k) = {} /\ InFlight(k) = {} /\ crowd[k] = 1
  BY <1>1 DEF PagesInit, Rows, InFlight, NoRow, Idle
<1> QED BY <1>1, <1>2, FS_EmptySet

LEMMA PagesLimitWrite ==
    ASSUME PagesTypeOK, PlacesHold, NEW h \in Handlers,
           Write(h)
    PROVE  PlacesHold'
<1>1. ASSUME \A k \in Kinds : /\ Rows(k)' \subseteq Rows(k)
                              /\ InFlight(k)' \subseteq InFlight(k),
             crowd' = crowd
      PROVE  PlacesHold'
  BY <1>1, PagesFewer DEF PlacesHold
<1>2. ASSUME NEW r, Turn(h, r), crowd' = crowd,
             r.op = "insert" => r.row.kind = "resource",
             \A k \in Kinds : Rows(k)' \subseteq Rows(k)
      PROVE  PlacesHold'
  <2>1. \A k \in Kinds : InFlight(k)' \subseteq InFlight(k)
    <3>1. "resource" \notin Kinds
      BY PagesBoundsAssumption
    <3> QED BY <1>2, <3>1, PagesPlaces
  <2> QED BY <1>1, <1>2, <2>1
<1>3. ASSUME NEW r, Turn(h, r), Only({}) \/ Only({"group"}),
             r.op = "insert" => r.row.kind = "resource"
      PROVE  PlacesHold'
  <2>1. crowd' = crowd /\ row' = row
    BY <1>3 DEF Only
  <2> QED BY <1>2, <1>3, <2>1 DEF Rows
<1>4. ASSUME NEW u \in Users
      PROVE  /\ \A t \in Tiers["resource"] : BeginResource(h, u, t) => PlacesHold'
             /\ \A i \in Items, t \in Tiers["resource"] :
                    BeginUpdateResource(h, u, i, t) => PlacesHold'
             /\ \A i \in Items : BeginDeleteResource(h, u, i) => PlacesHold'
             /\ \A v \in BOOLEAN : BeginUpdate(h, u, v) => PlacesHold'
             /\ BeginPost(h, u) \/ BeginRemovePosting(h, u) => PlacesHold'
             /\ \A i \in Items : BeginRotation(h, u, i) => PlacesHold'
  BY <1>3 DEF BeginResource, BeginUpdateResource, BeginDeleteResource,
              BeginChange, BeginUpdate, BeginPost,
              BeginRemovePosting, BeginPosting, BeginRotation
<1>5. ASSUME NEW u \in Users
      PROVE  /\ "chat" \in Kinds => \A t \in Tiers["chat"], keys \in SUBSET Joiners :
                    BeginChat(h, u, t, keys) => PlacesHold'
             /\ "channel" \in Kinds => \A t \in Tiers["channel"] :
                    BeginChannel(h, u, t) => PlacesHold'
  BY PagesCounted DEF BeginChat, BeginChannel
<1>6. ASSUME Change(h)
      PROVE  PlacesHold'
  <2>1. crowd' = crowd /\ Turn(h, Idle)
    BY <1>6 DEF Change, Only
  <2>2. request[h].item \in Items /\ request[h].row.kind \in {"resource", "gone"}
    BY <1>6 DEF Change, PagesTypeOK, RequestOK
  <2>3. \A k \in Kinds : Rows(k)' \subseteq Rows(k)
    <3>1. Kinds \subseteq {"chat", "channel"}
      BY PagesBoundsAssumption
    <3> QED BY <1>6, <2>2, <3>1 DEF Change, Rows, PagesTypeOK
  <2> QED BY <1>2, <2>1, <2>3 DEF Idle
<1>7. ASSUME Update(h) \/ Fail(h)
      PROVE  PlacesHold'
  BY <1>3, <1>7 DEF Update, Fail, Idle
<1>8. CreateResource(h) \/ CreateChat(h) \/ CreateChannel(h)
          => PlacesHold'
  <2>1. ASSUME NEW k \in {"resource", "chat", "channel"}, Insert(h, k)
        PROVE  k \in Kinds \cup {"resource"}
    BY <2>1 DEF Insert, PagesTypeOK, RequestOK, Row
  <2> QED BY PagesInserted, <2>1 DEF CreateResource, CreateChat, CreateChannel
<1>9. CreateOrUpdatePosting(h) \/ RemovePosting(h) => PlacesHold'
  <2>1. SUFFICES ASSUME CreateOrUpdatePosting(h) \/ RemovePosting(h)
                 PROVE  \A k \in Kinds : Rows(k)' \subseteq Rows(k)
    BY <1>2 DEF CreateOrUpdatePosting, RemovePosting, Only, Idle
  <2>2. \A i \in Items : row'[i] \in {row[i], Posting, Gone}
    BY <2>1 DEF CreateOrUpdatePosting, RemovePosting, PagesTypeOK
  <2>3. Posting.kind \notin Kinds /\ Gone.kind \notin Kinds
    BY PagesBoundsAssumption DEF Posting, Gone
  <2> QED BY <2>2, <2>3 DEF Rows
<1>10. ASSUME Rotate(h)
       PROVE  PlacesHold'
  <2>1. \A i \in Items : row'[i].kind = row[i].kind
    BY <1>10, PagesRotated
  <2>2. crowd' = crowd /\ Turn(h, Idle) /\ \A k \in Kinds : Rows(k)' \subseteq Rows(k)
    BY <1>10, <2>1 DEF Rotate, Only, Rows
  <2> QED BY <1>2, <2>2 DEF Idle
<1> QED BY <1>4, <1>5, <1>6, <1>7, <1>8, <1>9, <1>10
     DEF Write, UpdateResource, DeleteResource

LEMMA PagesReadTurn ==
    ASSUME PagesTypeOK, NEW h \in Handlers, Read(h)
    PROVE  /\ Turn(h, request'[h]) /\ Only({})
           /\ request'[h].op \in
                  {"idle", "guard", "rows", "rank", "residence", "key", "posting"}
<1>1. ASSUME NEW r, Turn(h, r)
      PROVE  Turn(h, request'[h]) /\ request'[h] = r
  BY <1>1, PagesTurn
<1> DEFINE Goal == /\ Turn(h, request'[h]) /\ Only({})
                   /\ request'[h].op \in
                          {"idle", "guard", "rows", "rank", "residence", "key", "posting"}
<1>2. ASSUME NEW u \in Viewers
      PROVE  /\ \A k : Guard(h, u, k) => Goal
             /\ Get(h, u) => Goal
             /\ \A i : BeginSecret(h, u, i) => Goal
             /\ BeginGetPosting(h, u) => Goal
  <2>1. ASSUME NEW op \in {"guard", "rows"}, NEW k, Open(h, op, u, k)
        PROVE  Goal
    BY <1>1, <2>1 DEF Open, Page
  <2>2. ASSUME NEW i, BeginSecret(h, u, i)
        PROVE  Goal
    BY <1>1, <2>2 DEF BeginSecret
  <2>3. ASSUME BeginGetPosting(h, u)
        PROVE  Goal
    BY <1>1, <2>3 DEF BeginGetPosting
  <2> QED BY <2>1, <2>2, <2>3 DEF Guard, Get
<1>3. ASSUME CheckMember(h) \/ ReadRows(h) \/ ReadRank(h)
      PROVE  /\ Turn(h, request'[h]) /\ Only({})
             /\ request'[h].op \in {"idle", "rows", "rank", "residence"}
  BY <1>1, <1>3 DEF CheckMember, ReadRows, ReadRank, Page, Idle
<1>4. ASSUME \/ Show(h) \/ CompareTier(h)
             \/ HandSecret(h) \/ RefuseSecret(h) \/ GetPosting(h)
      PROVE  /\ Turn(h, request'[h]) /\ Only({})
             /\ request'[h].op \in {"idle", "key"}
  <2>1. CASE Turn(h, Idle) /\ Only({})
    BY <1>1, <2>1 DEF Idle
  <2>2. ASSUME NEW i, Only({}),
               Turn(h, [op |-> "key", user |-> request[h].user, item |-> i])
        PROVE  /\ Turn(h, request'[h]) /\ Only({})
               /\ request'[h].op \in {"idle", "key"}
    BY <1>1, <2>2
  <2> QED BY <1>4, <2>1, <2>2
       DEF Show, CompareTier, HandSecret, RefuseSecret,
           GetPosting
<1> QED BY <1>2, <1>3, <1>4 DEF Read, ListPage, ReadGroup

LEMMA PagesLimitStep ==
    ASSUME PagesTypeOK, PlacesHold, [PagesNext]_(pagesVars)
    PROVE  PlacesHold'
<1>1. ASSUME \A k \in Kinds : Rows(k)' = Rows(k), request' = request,
             crowd' = crowd
      PROVE  PlacesHold'
  BY <1>1 DEF PlacesHold, InFlight
<1>2. CASE UNCHANGED pagesVars
  BY <1>1, <1>2 DEF pagesVars, pagesHistory, Rows
<1>3. CASE CheckAndGraduate
  BY <1>1, <1>3 DEF CheckAndGraduate, Only, Rows
<1>4. ASSUME EndOther \/ \E u \in Joiners : AddMember(u) \/ Move(u)
      PROVE  PlacesHold'
  BY <1>1, <1>4 DEF EndOther, AddMember, Move, Only, Rows
<1>5. ASSUME NEW u \in Joiners, EndMembership(u)
      PROVE  PlacesHold'
  <2>1. \A k \in Kinds : Rows(k)' = Rows(k)
    BY <1>5, PagesRemoved DEF Rows
  <2> QED BY <1>1, <1>5, <2>1 DEF EndMembership, Only
<1>6. ASSUME NEW h \in Handlers, Read(h)
      PROVE  PlacesHold'
  <2>1. Turn(h, request'[h]) /\ request'[h].op # "insert" /\ Only({})
    BY <1>6, PagesReadTurn
  <2>3. crowd' = crowd /\ \A k \in Kinds : Rows(k)' = Rows(k)
    BY <2>1 DEF Only, Rows
  <2>4. \A k \in Kinds : InFlight(k)' \subseteq InFlight(k)
    BY <2>1, PagesPlaces
  <2> QED BY <2>3, <2>4, PagesFewer DEF PlacesHold
<1> QED BY <1>2, <1>3, <1>4, <1>5, <1>6, PagesLimitWrite DEF PagesNext

-----------------------------------------------------------------------------
(* One posting.                                                            *)

PagesOnePosting == \A i, j \in Rows("posting") : i = j

\* A posting is made where there is none.
LEMMA PagesPosted ==
    ASSUME PagesTypeOK, [PagesNext]_(pagesVars)
    PROVE  \/ Rows("posting")' \subseteq Rows("posting")
           \/ Rows("posting") = {} /\ \E j : Rows("posting")' \subseteq {j}
<1> DEFINE Goal == \/ Rows("posting")' \subseteq Rows("posting")
                   \/ Rows("posting") = {} /\ \E j : Rows("posting")' \subseteq {j}
<1>1. ASSUME \A i \in Items : row'[i].kind \in {row[i].kind, "gone"} \/ row'[i].kind # "posting"
      PROVE  Goal
  BY <1>1 DEF Rows
<1> HIDE DEF Goal
<1>2. ASSUME NEW S, Only(S), "row" \notin S
      PROVE  Goal
  BY <1>1, <1>2 DEF Only
<1>3. ASSUME UNCHANGED pagesVars \/ CheckAndGraduate
      PROVE  Goal
  BY <1>1, <1>2, <1>3 DEF pagesVars, CheckAndGraduate
<1>4. ASSUME EndOther \/ \E u \in Joiners : AddMember(u) \/ Move(u)
      PROVE  Goal
  BY <1>2, <1>4 DEF EndOther, AddMember, Move
<1>5. ASSUME NEW u \in Joiners, EndMembership(u)
      PROVE  Goal
  BY <1>1, <1>5, PagesRemoved
<1>6. ASSUME NEW h \in Handlers, Read(h)
      PROVE  Goal
  BY <1>2, <1>6, PagesReadTurn
<1>7. ASSUME NEW h \in Handlers, NEW k, Insert(h, k) \/ Change(h)
      PROVE  Goal
  <2>1. request[h].row.kind # "posting"
    BY <1>7, PagesBoundsAssumption DEF Insert, Change, PagesTypeOK, RequestOK
  <2>2. \A i \in Items : row'[i] \in {row[i], request[h].row}
    BY <1>7 DEF Insert, Change, PagesTypeOK
  <2> QED BY <1>1, <2>1, <2>2
<1>8. ASSUME NEW h \in Handlers, CreateOrUpdatePosting(h)
      PROVE  Goal
  <2>1. CASE row' = row
    BY <1>1, <2>1
  <2>2. CASE Rows("posting") = {} /\ row' = [row EXCEPT ![Min(Rows("none"))] = Posting]
    <3>1. Rows("posting")' \subseteq {Min(Rows("none"))}
      BY <2>2 DEF Rows, PagesTypeOK
    <3> QED BY <2>2, <3>1 DEF Goal
  <2> QED BY <1>8, <2>1, <2>2 DEF CreateOrUpdatePosting
<1>9. ASSUME NEW h \in Handlers, RemovePosting(h)
      PROVE  Goal
  BY <1>1, <1>9 DEF RemovePosting, Gone
<1>10. ASSUME NEW h \in Handlers, Write(h)
       PROVE  Goal
  <2>1. CASE Update(h) \/ Fail(h)
    BY <1>2, <2>1 DEF Update, Fail
  <2>2. CASE \/ CreateResource(h) \/ CreateChat(h) \/ CreateChannel(h)
             \/ UpdateResource(h) \/ DeleteResource(h)
    BY <1>7, <2>2 DEF CreateResource, CreateChat, CreateChannel,
                      UpdateResource, DeleteResource
  <2>3. ASSUME NEW u \in Users
        PROVE  /\ \A t : BeginResource(h, u, t) => Goal
               /\ \A t, keys : BeginChat(h, u, t, keys) => Goal
               /\ \A t : BeginChannel(h, u, t) => Goal
               /\ \A j, t : BeginUpdateResource(h, u, j, t) => Goal
               /\ \A j : BeginDeleteResource(h, u, j) => Goal
               /\ \A v : BeginUpdate(h, u, v) => Goal
               /\ BeginPost(h, u) \/ BeginRemovePosting(h, u) => Goal
               /\ \A j : BeginRotation(h, u, j) => Goal
    BY <1>2 DEF BeginResource, BeginChat, BeginChannel, Counted,
                BeginUpdateResource, BeginDeleteResource, BeginChange,
                BeginUpdate, BeginPost, BeginRemovePosting, BeginPosting,
                BeginRotation
  <2>4. ASSUME Rotate(h)
        PROVE  Goal
    BY <1>1, <2>4, PagesRotated
  <2> QED BY <1>8, <1>9, <1>10, <2>1, <2>2, <2>3, <2>4 DEF Write
<1>11. Goal
  BY <1>3, <1>4, <1>5, <1>6, <1>10 DEF PagesNext
<1> QED BY <1>11 DEF Goal

LEMMA PagesPostingStep ==
    ASSUME PagesTypeOK, PagesOnePosting, [PagesNext]_(pagesVars)
    PROVE  PagesOnePosting'
BY PagesPosted DEF PagesOnePosting

\* Overlapping requests exceed the limit of a kind by no more than were past
\* their count together, less one (CreateSignalGroup, CreateMeshtasticChannel); the
\* unique key keeps a group to one posting (CreateOrUpdatePosting).
THEOREM PagesLimit ==
    PagesSpec => []LimitHolds
<1>1. PagesTypeOK /\ PlacesHold /\ PagesOnePosting => LimitHolds
  <2>1. ASSUME PagesTypeOK, PlacesHold, NEW k \in Kinds
        PROVE  Cardinality(Rows(k)) < Limit + crowd[k]
    <3>1. Limit \in Nat /\ crowd[k] \in Nat
      BY <2>1, PagesBoundsAssumption DEF PagesTypeOK
    <3>2. Cardinality(Rows(k)) + Cardinality(InFlight(k)) < Limit + crowd[k]
      BY <2>1 DEF PlacesHold
    <3> QED BY <2>1, <3>1, <3>2, PagesFinite
  <2> QED BY <2>1 DEF LimitHolds, PagesOnePosting
<1>2. PagesInit => PagesOnePosting
  BY DEF PagesInit, PagesOnePosting, Rows, NoRow
<1> QED BY <1>1, <1>2, PagesLimitInit, PagesLimitStep, PagesPostingStep, PagesTypeInvariant,
           PTL DEF PagesSpec
-----------------------------------------------------------------------------
(* Who is shown a row.                                                     *)

\* Any row but a posting stays, with its tier or as a resource whose change is
\* noted; a chat stays a chat.
PagesKept(i) ==
    row[i].kind \notin {"none", "posting"} =>
        /\ row'[i].kind \notin {"none", "posting"}
        /\ row'[i].tier = row[i].tier \/ (row[i].kind = "resource" /\ row'[i] # row[i])
        /\ row[i].kind = "chat" => row'[i].kind = "chat" /\ row'[i].tier = row[i].tier

LEMMA PagesRowsKept ==
    ASSUME PagesTypeOK, [PagesNext]_(pagesVars), NEW i \in Items
    PROVE  PagesKept(i)
<1>1. ASSUME row' = row
      PROVE  PagesKept(i)
  BY <1>1 DEF PagesKept
<1>2. ASSUME NEW S, Only(S), "row" \notin S
      PROVE  PagesKept(i)
  BY <1>1, <1>2 DEF Only
<1>3. ASSUME UNCHANGED pagesVars \/ CheckAndGraduate
      PROVE  PagesKept(i)
  BY <1>1, <1>2, <1>3 DEF pagesVars, CheckAndGraduate
<1>4. ASSUME EndOther \/ \E u \in Joiners : AddMember(u) \/ Move(u)
      PROVE  PagesKept(i)
  BY <1>2, <1>4 DEF EndOther, AddMember, Move
<1>5. ASSUME NEW u \in Joiners, EndMembership(u)
      PROVE  PagesKept(i)
  BY <1>5, PagesRemoved DEF PagesKept
<1>6. ASSUME NEW h \in Handlers, Read(h)
      PROVE  PagesKept(i)
  BY <1>2, <1>6, PagesReadTurn
<1>7. ASSUME NEW h \in Handlers, NEW k, Insert(h, k)
      PROVE  PagesKept(i)
  <2> DEFINE j == Min(Rows("none"))
  <2>1. j \in Rows("none")
    BY <1>7, LeastRow DEF Insert, Rows
  <2>2. row' = [row EXCEPT ![j] = request[h].row]
    BY <1>7 DEF Insert
  <2> HIDE DEF j
  <2> QED BY <2>1, <2>2 DEF PagesKept, PagesTypeOK, Rows
<1>10. ASSUME NEW h \in Handlers, CreateOrUpdatePosting(h) \/ RemovePosting(h)
       PROVE  PagesKept(i)
  <2> DEFINE j == Min(Rows("none"))
  <2>1. ASSUME row' = [row EXCEPT ![j] = Posting], Rows("none") # {}
        PROVE  PagesKept(i)
    <3>1. j \in Rows("none")
      BY <2>1, LeastRow DEF Rows
    <3> HIDE DEF j
    <3> QED BY <2>1, <3>1 DEF PagesKept, PagesTypeOK, Rows
  <2>2. ASSUME row' = [k \in Items |-> IF row[k].kind = "posting" THEN Gone ELSE row[k]]
        PROVE  PagesKept(i)
    BY <2>2 DEF PagesKept
  <2> QED BY <1>1, <1>10, <2>1, <2>2 DEF CreateOrUpdatePosting, RemovePosting
<1>8. ASSUME NEW h \in Handlers, Change(h)
      PROVE  PagesKept(i)
  <2>1. request[h].row \in Row /\ request[h].row.kind \in {"resource", "gone"}
    BY <1>8 DEF Change, PagesTypeOK, RequestOK
  <2>2. request[h].item \in Items
    BY <1>8 DEF Change, PagesTypeOK, RequestOK
  <2> QED BY <1>8, <2>1, <2>2 DEF Change, PagesKept, PagesTypeOK, Row, Posting
<1>9. ASSUME NEW h \in Handlers, Write(h)
      PROVE  PagesKept(i)
  <2>1. CASE Update(h) \/ Fail(h)
    BY <1>2, <2>1 DEF Update, Fail
  <2>2. CASE \/ CreateResource(h) \/ CreateChat(h) \/ CreateChannel(h)
             \/ UpdateResource(h) \/ DeleteResource(h)
    BY <1>7, <1>8, <2>2 DEF CreateResource, CreateChat, CreateChannel,
                            UpdateResource, DeleteResource
  <2>3. ASSUME NEW u \in Users
        PROVE  /\ \A t : BeginResource(h, u, t) => PagesKept(i)
               /\ \A t, keys : BeginChat(h, u, t, keys) => PagesKept(i)
               /\ \A t : BeginChannel(h, u, t) => PagesKept(i)
               /\ \A j, t : BeginUpdateResource(h, u, j, t) => PagesKept(i)
               /\ \A j : BeginDeleteResource(h, u, j) => PagesKept(i)
               /\ \A v : BeginUpdate(h, u, v) => PagesKept(i)
               /\ BeginPost(h, u) \/ BeginRemovePosting(h, u) => PagesKept(i)
               /\ \A j : BeginRotation(h, u, j) => PagesKept(i)
    BY <1>2 DEF BeginResource, BeginChat, BeginChannel, Counted,
                BeginUpdateResource, BeginDeleteResource, BeginChange,
                BeginUpdate, BeginPost, BeginRemovePosting, BeginPosting,
                BeginRotation
  <2>4. ASSUME Rotate(h)
        PROVE  PagesKept(i)
    BY <2>4, PagesRotated DEF PagesKept
  <2> QED BY <1>9, <1>10, <2>1, <2>2, <2>3, <2>4 DEF Write
<1> QED BY <1>3, <1>4, <1>5, <1>6, <1>9 DEF PagesNext

\* What Watch notes of a request that reads.
LEMMA PagesNoted ==
    ASSUME PagesTypeOK, Watch, NEW h \in Handlers, Reading(h)'
    PROVE  /\ met[h] \subseteq met'[h]
           /\ h \in visible => h \in visible'
           /\ MaySee(request[h].user)' => h \in visible'
           /\ \A i \in Items :
                  /\ Meets(row'[i].tier, rank'[request'[h].user],
                                 request'[h].user \in resident') => i \in met'[h]
                  /\ row[i] # row'[i] /\ (row[i].kind = "resource" \/ row'[i].kind = "posting")
                         => i \in met'[h]
BY DEF Watch, Allowed, Changed

\* A request that another step passes by.
LEMMA PagesReadOn ==
    ASSUME PagesTypeOK, Watch, NEW h \in Handlers, ReadingHolds(h),
           request'[h] = request[h], \A i \in Items : PagesKept(i)
    PROVE  ReadingHolds(h)'
<1> SUFFICES ASSUME Reading(h)'
             PROVE  ReadingHolds(h)'
  BY DEF ReadingHolds
<1> DEFINE u == request[h].user
<1>1. Reading(h)
  BY DEF Reading
<1>2. /\ met[h] \subseteq met'[h]
      /\ h \in visible => h \in visible'
      /\ \A i \in Items :
             /\ Meets(row'[i].tier, rank'[u], u \in resident') => i \in met'[h]
             /\ row[i] # row'[i] /\ (row[i].kind = "resource" \/ row'[i].kind = "posting")
                    => i \in met'[h]
  BY PagesNoted
<1>3. ASSUME request[h].op \in {"rank", "residence"}, NEW p \in request[h].rows
      PROVE  /\ row'[p[1]].kind \notin {"none", "posting"}
             /\ row'[p[1]].tier = p[2] \/ p[1] \in met'[h]
             /\ At(h, "residence") /\ Meets(p[2], request[h].rank, u \in resident') =>
                    p[1] \in met'[h]
  <2>1. p[1] \in Items /\ row[p[1]].kind \notin {"none", "posting"}
        /\ (row[p[1]].tier = p[2] \/ p[1] \in met[h])
    BY <1>1, <1>3 DEF ReadingHolds, PagesTypeOK, RequestOK
  <2>2. row'[p[1]].kind \notin {"none", "posting"} /\ (row'[p[1]].tier = p[2] \/ p[1] \in met'[h])
    BY <1>2, <2>1 DEF PagesKept
  <2>3. ASSUME At(h, "residence"), Meets(p[2], request[h].rank, u \in resident'),
               p[1] \notin met'[h]
        PROVE  FALSE
    <3>1. row'[p[1]].tier = p[2] /\ ~Meets(p[2], rank'[u], u \in resident')
      BY <1>2, <2>1, <2>2, <2>3
    <3>2. ~Meets(p[2], request[h].rank, u \in resident)
      BY <1>1, <1>2, <1>3, <2>3 DEF ReadingHolds
    <3> QED BY <2>3, <3>1, <3>2 DEF Meets
  <2> QED BY <2>1, <2>2, <2>3
<1>4. ~At(h, "guard") => h \in visible'
  BY <1>1, <1>2 DEF ReadingHolds
<1>5. At(h, "posting") => Rows("posting")' \subseteq met'[h]
  <2>1. At(h, "posting") => Rows("posting") \subseteq met[h]
    BY <1>1 DEF ReadingHolds
  <2> QED BY <1>2, <2>1 DEF Rows
<1> QED BY <1>3, <1>4, <1>5 DEF ReadingHolds

\* A statement of the request itself.
LEMMA PagesReadNext ==
    ASSUME PagesTypeOK, Watch, NEW h \in Handlers,
           ReadingHolds(h), Read(h)
    PROVE  ReadingHolds(h)'
<1> SUFFICES ASSUME Reading(h)'
             PROVE  ReadingHolds(h)'
  BY DEF ReadingHolds
<1>1. UNCHANGED <<status, listed, rank, resident, row>>
  BY PagesReadTurn DEF Only, group, people
<1>2. ASSUME NEW r, Turn(h, r)
      PROVE  request'[h] = r
  BY <1>2, PagesTurn
<1>3. /\ met[h] \subseteq met'[h]
      /\ h \in visible => h \in visible'
      /\ MaySee(request[h].user)' => h \in visible'
      /\ \A i \in Items :
             Meets(row[i].tier, rank[request'[h].user], request'[h].user \in resident)
                 => i \in met'[h]
  BY <1>1, PagesNoted
<1>4. ASSUME NEW u \in Viewers, NEW k, NEW op \in {"guard", "rows"}, Open(h, op, u, k),
             op = "rows" => u \in Superusers \/ listed
      PROVE  ReadingHolds(h)'
  <2>1. request'[h] = Page(op, u, k)
    BY <1>2, <1>4 DEF Open
  <2>2. ~At(h, "guard")' => h \in visible'
    BY <1>1, <1>3, <1>4, <2>1 DEF Page, Reading, MaySee
  <2> QED BY <2>1, <2>2 DEF ReadingHolds, Page
<1>5. ASSUME NEW u \in Viewers
      PROVE  /\ \A k : Guard(h, u, k) => ReadingHolds(h)'
             /\ Get(h, u) => ReadingHolds(h)'
             /\ \A i : BeginSecret(h, u, i) => ReadingHolds(h)'
  <2>1. ASSUME NEW i, BeginSecret(h, u, i)
        PROVE  FALSE
    <3>1. request'[h] = [op |-> "rank", user |-> u, secret |-> TRUE,
                         rows |-> {<<i, row[i].tier>>}]
      BY <1>2, <2>1 DEF BeginSecret
    <3> QED BY <3>1 DEF Reading
  <2> QED BY <1>4, <2>1 DEF Guard, Get
<1>6. ASSUME CheckMember(h)
      PROVE  ReadingHolds(h)'
  <2>1. CASE IsMember(request[h].user)
    <3>1. request'[h] = Page("rows", request[h].user, request[h].kind)
      BY <1>2, <1>6, <2>1 DEF CheckMember
    <3>2. h \in visible'
      BY <1>1, <1>3, <2>1, <3>1 DEF Page, MaySee, IsMember
    <3> QED BY <3>1, <3>2 DEF ReadingHolds, Page
  <2>2. CASE ~IsMember(request[h].user)
    <3>1. request'[h] = Idle
      BY <1>2, <1>6, <2>2 DEF CheckMember
    <3> QED BY <3>1 DEF Reading, Idle
  <2> QED BY <2>1, <2>2
<1>7. ASSUME ReadRows(h)
      PROVE  ReadingHolds(h)'
  <2> DEFINE S == {<<i, row[i].tier>> : i \in Rows(request[h].kind)}
  <2>1. request'[h] = [op |-> "rank", user |-> request[h].user, secret |-> FALSE, rows |-> S]
    BY <1>2, <1>7 DEF ReadRows
  <2>2. h \in visible
    BY <1>7, <2>1 DEF ReadRows, ReadingHolds, Reading
  <2>3. \A p \in S : row[p[1]].kind = request[h].kind /\ row[p[1]].tier = p[2]
    BY DEF Rows
  <2>4. request[h].kind \notin {"none", "posting"}
    BY <1>7 DEF ReadRows, PagesTypeOK, RequestOK
  <2> HIDE DEF S
  <2> QED BY <1>1, <1>3, <2>1, <2>2, <2>3, <2>4 DEF ReadingHolds
<1>8. ASSUME ReadRank(h)
      PROVE  ReadingHolds(h)'
  <2> DEFINE u == request[h].user
             S == request[h].rows
  <2>1. request'[h] = [op |-> "residence", user |-> u, secret |-> request[h].secret,
                       rows |-> S, rank |-> rank[u]]
    BY <1>2, <1>8 DEF ReadRank
  <2>2. Reading(h) /\ At(h, "rank")
    BY <1>8, <2>1 DEF ReadRank, Reading
  <2>3. h \in visible /\ \A p \in S : /\ row[p[1]].kind \notin {"none", "posting"}
                                      /\ row[p[1]].tier = p[2] \/ p[1] \in met[h]
    BY <2>2 DEF ReadingHolds
  <2>4. S \in SUBSET (Items \X Tier)
    BY <2>2 DEF PagesTypeOK, RequestOK
  <2>5. \A p \in S : p[1] \in Items
    BY <2>4
  <2>6. \A p \in S : Meets(p[2], rank[u], u \in resident) => p[1] \in met'[h]
    BY <1>3, <2>1, <2>3, <2>5
  <2> HIDE DEF S
  <2> QED BY <1>1, <1>3, <2>1, <2>3, <2>6 DEF ReadingHolds
<1>9. ASSUME \/ Show(h) \/ CompareTier(h)
             \/ HandSecret(h) \/ RefuseSecret(h) \/ GetPosting(h)
      PROVE  ReadingHolds(h)'
  <2>1. CASE Turn(h, Idle)
    <3>1. request'[h] = Idle
      BY <1>2, <2>1
    <3> QED BY <3>1 DEF Reading, Idle
  <2>2. ASSUME NEW i, Turn(h, [op |-> "key", user |-> request[h].user, item |-> i])
        PROVE  ReadingHolds(h)'
    <3>1. request'[h] = [op |-> "key", user |-> request[h].user, item |-> i]
      BY <1>2, <2>2
    <3> QED BY <3>1 DEF Reading
  <2> QED BY <1>9, <2>1, <2>2
       DEF Show, CompareTier, HandSecret, RefuseSecret,
           GetPosting
<1>10. ASSUME NEW u \in Viewers, BeginGetPosting(h, u)
       PROVE  ReadingHolds(h)'
  <2>1. request'[h] = [op |-> "posting", user |-> u]
    BY <1>2, <1>10 DEF BeginGetPosting
  <2>2. u \notin Superusers /\ rank[u] = "admin"
    BY <1>10, <2>1 DEF BeginGetPosting, MayEdit, Reading
  <2>3. h \in visible'
    BY <1>1, <2>1, <2>2 DEF Watch, MaySee, IsMember
  <2>4. \A i \in Rows("posting") : row[i].tier = "admin_only"
    <3>1. "posting" \notin Kinds
      BY PagesBoundsAssumption
    <3> QED BY <3>1 DEF Rows, PagesTypeOK, Row, Posting
  <2>5. Rows("posting")' \subseteq met'[h]
    BY <1>1, <1>3, <2>1, <2>2, <2>4 DEF Meets, Rows
  <2> QED BY <2>1, <2>3, <2>5 DEF ReadingHolds
<1> QED BY <1>5, <1>6, <1>7, <1>8, <1>9, <1>10 DEF Read, ListPage, ReadGroup

LEMMA PagesWatched ==
    ASSUME PagesTypeOK, PagesNext
    PROVE  Watch
<1>1. ASSUME NEW S, Only(S)
      PROVE  Watch
  BY <1>1 DEF Only
<1>2. ASSUME NEW h \in Handlers, Write(h)
      PROVE  Watch
  BY <1>1, <1>2
     DEF Write, BeginResource, BeginChat, BeginChannel, Counted,
         BeginUpdateResource, BeginDeleteResource, BeginChange,
         BeginUpdate, CreateResource, CreateChat, CreateChannel,
         Insert, UpdateResource, DeleteResource, Change, Update,
         Fail, BeginPost, BeginRemovePosting, BeginPosting,
         CreateOrUpdatePosting, RemovePosting, BeginRotation, Rotate
<1> QED BY <1>1, <1>2, PagesReadTurn
     DEF PagesNext, CheckAndGraduate, AddMember, EndMembership, EndOther, Move

\* A statement that writes ends its request or leaves it one that does not read,
\* and touches no other.
LEMMA PagesWriteTurn ==
    ASSUME PagesTypeOK, NEW h \in Handlers, Write(h)
    PROVE  /\ request'[h].op \in
                  {"idle", "insert", "change", "visibility", "post", "unpost", "rotate"}
           /\ \A g \in Handlers \ {h} : request'[g] = request[g]
<1> DEFINE Goal == /\ request'[h].op \in
                          {"idle", "insert", "change", "visibility", "post", "unpost", "rotate"}
                   /\ \A g \in Handlers \ {h} : request'[g] = request[g]
<1>1. ASSUME NEW r, Turn(h, r),
             r.op \in {"idle", "insert", "change", "visibility", "post", "unpost", "rotate"}
      PROVE  Goal
  BY <1>1, PagesTurn
<1>2. ASSUME Turn(h, Idle)
      PROVE  Goal
  BY <1>1, <1>2 DEF Idle
<1>3. ASSUME NEW u \in Users
      PROVE  /\ \A t : BeginResource(h, u, t) => Goal
             /\ \A t, keys : BeginChat(h, u, t, keys) => Goal
             /\ \A t : BeginChannel(h, u, t) => Goal
             /\ \A i, t : BeginUpdateResource(h, u, i, t) => Goal
             /\ \A i : BeginDeleteResource(h, u, i) => Goal
             /\ \A v : BeginUpdate(h, u, v) => Goal
             /\ BeginPost(h, u) \/ BeginRemovePosting(h, u) => Goal
             /\ \A i : BeginRotation(h, u, i) => Goal
  <2> HIDE DEF Goal
  <2>1. ASSUME NEW k, NEW t, NEW keys, Counted(h, k, t, keys)
        PROVE  Goal
    BY <1>1, <2>1 DEF Counted
  <2>2. ASSUME NEW i, NEW r, BeginChange(h, u, i, r)
        PROVE  Goal
    BY <1>1, <2>2 DEF BeginChange
  <2>3. ASSUME NEW v, BeginUpdate(h, u, v)
        PROVE  Goal
    BY <1>1, <2>3 DEF BeginUpdate
  <2>4. ASSUME NEW t, BeginResource(h, u, t)
        PROVE  Goal
    BY <1>1, <2>4 DEF BeginResource
  <2>5. ASSUME NEW op \in {"post", "unpost"}, BeginPosting(h, u, op)
        PROVE  Goal
    BY <1>1, <2>5 DEF BeginPosting
  <2>6. ASSUME NEW i, BeginRotation(h, u, i)
        PROVE  Goal
    BY <1>1, <2>6 DEF BeginRotation
  <2> QED BY <2>1, <2>2, <2>3, <2>4, <2>5, <2>6
       DEF BeginChat, BeginChannel, BeginUpdateResource,
           BeginDeleteResource, BeginPost, BeginRemovePosting
<1> HIDE DEF Goal
<1>4. Goal
  BY <1>2, <1>3
     DEF Write, CreateResource, CreateChat, CreateChannel,
         Insert, UpdateResource, DeleteResource, Change, Update,
         Fail, BeginPost, BeginRemovePosting, BeginPosting,
         CreateOrUpdatePosting, RemovePosting, Rotate
<1> QED BY <1>4 DEF Goal

LEMMA PagesStep ==
    ASSUME PagesTypeOK, PagesHold, [PagesNext]_(pagesVars)
    PROVE  PagesHold'
<1>1. \A i \in Items : PagesKept(i)
  BY PagesRowsKept
<1>2. CASE UNCHANGED pagesVars
  BY <1>2 DEF pagesVars, group, people, pagesHistory, PagesHold,
              ReadingHolds, Reading, Meets, Rows
<1>3. ASSUME PagesNext, NEW h \in Handlers, request'[h] = request[h]
      PROVE  ReadingHolds(h)'
  BY <1>1, <1>3, PagesReadOn, PagesWatched DEF PagesHold
<1>4. CASE \/ CheckAndGraduate \/ EndOther
           \/ \E u \in Joiners : AddMember(u) \/ EndMembership(u) \/ Move(u)
  <2>1. request' = request /\ PagesNext
    BY <1>4 DEF CheckAndGraduate, AddMember, EndMembership, EndOther, Move, PagesNext
  <2> QED BY <1>3, <2>1 DEF PagesHold
<1>5. ASSUME NEW h \in Handlers, Write(h)
      PROVE  PagesHold'
  <2>1. PagesNext
    BY <1>5 DEF PagesNext
  <2>2. ReadingHolds(h)'
    BY <1>5, PagesWriteTurn DEF ReadingHolds, Reading
  <2> QED BY <1>3, <1>5, <2>1, <2>2, PagesWriteTurn DEF PagesHold
<1>6. ASSUME NEW h \in Handlers, Read(h)
      PROVE  PagesHold'
  <2>1. PagesNext
    BY <1>6 DEF PagesNext
  <2>2. ReadingHolds(h)'
    BY <1>6, <2>1, PagesReadNext, PagesWatched DEF PagesHold
  <2>3. \A g \in Handlers \ {h} : request'[g] = request[g]
    BY <1>6, PagesReadTurn, PagesTurn
  <2> QED BY <1>3, <2>1, <2>2, <2>3 DEF PagesHold
<1> QED BY <1>2, <1>4, <1>5, <1>6 DEF PagesNext

LEMMA PagesInvariant ==
    PagesSpec => []PagesHold
<1>1. PagesInit => PagesHold
  BY DEF PagesInit, PagesHold, ReadingHolds, Reading, Idle
<1> QED BY <1>1, PagesStep, PagesTypeInvariant, PTL DEF PagesSpec

\* Nobody is shown a row of a group they might not see, or whose tier they
\* never met, at any instant of the request: however the visibility, the rows,
\* the membership and the residence change between the statements of the pages.
THEOREM PagesAllowed ==
    PagesSpec => PageWasAllowed
<1> DEFINE A == \A h \in Handlers :
                    /\ Show(h) /\ request[h].user \notin Superusers =>
                           h \in visible /\ Shown(h) \subseteq met[h]
                    /\ GetPosting(h) /\ request[h].user \notin Superusers =>
                           Rows("posting") \subseteq met[h]
<1>1. PagesTypeOK /\ PagesHold => A
  <2> SUFFICES ASSUME PagesTypeOK, PagesHold, NEW h \in Handlers,
                      request[h].user \notin Superusers
               PROVE  /\ Show(h) => h \in visible /\ Shown(h) \subseteq met[h]
                      /\ GetPosting(h) => Rows("posting") \subseteq met[h]
    OBVIOUS
  <2>3. GetPosting(h) => Rows("posting") \subseteq met[h]
    BY DEF GetPosting, PagesHold, ReadingHolds, Reading
  <2>1. Show(h) => Reading(h) /\ At(h, "residence")
    BY DEF Reading, Show
  <2>2. Show(h) => h \in visible /\ \A p \in request[h].rows :
            Meets(p[2], request[h].rank, request[h].user \in resident) => p[1] \in met[h]
    BY <2>1 DEF PagesHold, ReadingHolds
  <2> QED BY <2>2, <2>3 DEF Shown
<1> QED BY <1>1, PagesTypeInvariant, PagesInvariant, PTL DEF PageWasAllowed
-----------------------------------------------------------------------------
(* Who is handed a key.                                                    *)

\* Whoever's standing changes was no member or loses every key.
LEMMA PagesStandingKept ==
    ASSUME PagesTypeOK, [PagesNext]_(pagesVars), NEW u \in Users
    PROVE  \/ rank'[u] = rank[u]
           \/ ~IsMember(u)
           \/ \A i \in Items : u \notin row'[i].keys
<1>1. ASSUME NEW S, Only(S), "people" \notin S
      PROVE  rank' = rank
  BY <1>1 DEF Only, people
<1>2. ASSUME UNCHANGED pagesVars \/ CheckAndGraduate \/ EndOther
      PROVE  rank' = rank
  BY <1>1, <1>2 DEF pagesVars, people, CheckAndGraduate, EndOther
<1>3. ASSUME NEW h \in Handlers, Write(h)
      PROVE  rank' = rank
  BY <1>1, <1>3
     DEF Write, BeginResource, BeginChat, BeginChannel, Counted,
         BeginUpdateResource, BeginDeleteResource, BeginChange,
         BeginUpdate, CreateResource, CreateChat, CreateChannel,
         Insert, UpdateResource, DeleteResource, Change, Update,
         Fail, BeginPost, BeginRemovePosting, BeginPosting,
         CreateOrUpdatePosting, RemovePosting, BeginRotation, Rotate
<1>4. ASSUME NEW h \in Handlers, Read(h)
      PROVE  rank' = rank
  BY <1>1, <1>4, PagesReadTurn
<1>5. ASSUME NEW v \in Joiners, AddMember(v) \/ Move(v)
      PROVE  rank'[u] = rank[u] \/ ~IsMember(u)
  BY <1>5 DEF AddMember, Move, IsMember, PagesTypeOK
<1>6. ASSUME NEW v \in Joiners, EndMembership(v)
      PROVE  rank'[u] = rank[u] \/ \A i \in Items : u \notin row'[i].keys
  <2>1. CASE u = v
    BY <1>6, <2>1, PagesRemoved
  <2>2. CASE u # v
    BY <1>6, <2>2 DEF EndMembership, PagesTypeOK
  <2> QED BY <2>1, <2>2
<1> QED BY <1>2, <1>3, <1>4, <1>5, <1>6 DEF PagesNext

\* Nobody gains the key of a chat that is there, or a rotation put it back.
LEMMA PagesHadKey ==
    ASSUME PagesTypeOK, [PagesNext]_(pagesVars), NEW u \in Users, NEW i \in Items,
           row[i].kind = "chat", HasKey(u, i)'
    PROVE  HasKey(u, i)
<1>1. ASSUME row'[i] = row[i], revived' = revived
      PROVE  HasKey(u, i)
  BY <1>1 DEF HasKey
<1>2. ASSUME NEW S, Only(S), "row" \notin S, "keys" \notin S
      PROVE  HasKey(u, i)
  BY <1>1, <1>2 DEF Only, pagesKeys
<1>3. ASSUME UNCHANGED pagesVars \/ CheckAndGraduate \/ \E v \in Joiners : AddMember(v) \/ Move(v)
      PROVE  HasKey(u, i)
  BY <1>1, <1>2, <1>3 DEF pagesVars, pagesKeys, CheckAndGraduate, AddMember, Move
<1>4. ASSUME NEW v \in Joiners, EndMembership(v)
      PROVE  HasKey(u, i)
  <2>1. row'[i].keys = row[i].keys \ {v}
    BY <1>4, PagesRemoved
  <2>2. revived' = {p \in revived : p[2] # v}
    BY <1>4 DEF EndMembership
  <2> QED BY <2>1, <2>2 DEF HasKey
<1>5. ASSUME EndOther
      PROVE  HasKey(u, i)
  BY <1>1, <1>5 DEF EndOther, Only
<1>6. ASSUME NEW h \in Handlers, Read(h)
      PROVE  HasKey(u, i)
  BY <1>2, <1>6, PagesReadTurn
<1>7. ASSUME NEW h \in Handlers, Rotate(h)
      PROVE  HasKey(u, i)
  <2>1. row'[i].keys = IF i = request[h].item THEN request[h].keys ELSE row[i].keys
    BY <1>7, PagesRotated
  <2>2. revived' = revived \cup ({request[h].item} \X
                       (request[h].keys \ row[request[h].item].keys))
    BY <1>7 DEF Rotate
  <2> QED BY <2>1, <2>2 DEF HasKey
<1>8. ASSUME NEW h \in Handlers, NEW S, Only(S), "keys" \notin S, row'[i] = row[i]
      PROVE  HasKey(u, i)
  BY <1>1, <1>8 DEF Only, pagesKeys
<1>9. ASSUME NEW h \in Handlers, NEW k, Insert(h, k)
      PROVE  HasKey(u, i)
  <2> DEFINE j == Min(Rows("none"))
  <2>1. j \in Rows("none")
    BY <1>9, LeastRow DEF Insert, Rows
  <2>2. row' = [row EXCEPT ![j] = request[h].row]
    BY <1>9 DEF Insert
  <2> HIDE DEF j
  <2>3. row'[i] = row[i]
    BY <2>1, <2>2 DEF Rows, PagesTypeOK
  <2> QED BY <1>8, <1>9, <2>3 DEF Insert
<1>10. ASSUME NEW h \in Handlers, Change(h)
       PROVE  HasKey(u, i)
  <2>1. row'[i] = row[i]
    BY <1>10 DEF Change, PagesTypeOK
  <2> QED BY <1>8, <1>10, <2>1 DEF Change
<1>11. ASSUME NEW h \in Handlers, CreateOrUpdatePosting(h)
       PROVE  HasKey(u, i)
  <2> DEFINE j == Min(Rows("none"))
  <2>1. ASSUME row' = [row EXCEPT ![j] = Posting], Rows("none") # {}
        PROVE  row'[i] = row[i]
    <3>1. j \in Rows("none")
      BY <2>1, LeastRow DEF Rows
    <3> HIDE DEF j
    <3> QED BY <2>1, <3>1 DEF Rows, PagesTypeOK
  <2>2. row'[i] = row[i]
    BY <1>11, <2>1 DEF CreateOrUpdatePosting
  <2> QED BY <1>8, <1>11, <2>2 DEF CreateOrUpdatePosting
<1>12. ASSUME NEW h \in Handlers, RemovePosting(h)
       PROVE  HasKey(u, i)
  <2>1. row'[i] = row[i]
    BY <1>12 DEF RemovePosting
  <2> QED BY <1>8, <1>12, <2>1 DEF RemovePosting
<1>13. ASSUME NEW h \in Handlers, Write(h)
       PROVE  HasKey(u, i)
  <2>1. CASE Update(h) \/ Fail(h)
    BY <1>2, <2>1 DEF Update, Fail
  <2>2. CASE \/ CreateResource(h) \/ CreateChat(h) \/ CreateChannel(h)
             \/ UpdateResource(h) \/ DeleteResource(h)
    BY <1>9, <1>10, <2>2 DEF CreateResource, CreateChat, CreateChannel,
                             UpdateResource, DeleteResource
  <2>3. ASSUME NEW v \in Users
        PROVE  /\ \A t : BeginResource(h, v, t) => HasKey(u, i)
               /\ \A t, keys : BeginChat(h, v, t, keys) => HasKey(u, i)
               /\ \A t : BeginChannel(h, v, t) => HasKey(u, i)
               /\ \A j, t : BeginUpdateResource(h, v, j, t) => HasKey(u, i)
               /\ \A j : BeginDeleteResource(h, v, j) => HasKey(u, i)
               /\ \A l : BeginUpdate(h, v, l) => HasKey(u, i)
               /\ BeginPost(h, v) \/ BeginRemovePosting(h, v) => HasKey(u, i)
               /\ \A j : BeginRotation(h, v, j) => HasKey(u, i)
    BY <1>2 DEF BeginResource, BeginChat, BeginChannel, Counted,
                BeginUpdateResource, BeginDeleteResource, BeginChange,
                BeginUpdate, BeginPost, BeginRemovePosting, BeginPosting,
                BeginRotation
  <2> QED BY <1>7, <1>11, <1>12, <1>13, <2>1, <2>2, <2>3 DEF Write
<1> QED BY <1>3, <1>4, <1>5, <1>6, <1>13 DEF PagesNext

LEMMA PagesKeyOn ==
    ASSUME PagesTypeOK, [PagesNext]_(pagesVars), NEW h \in Handlers,
           KeyHolds(h), request'[h] = request[h]
    PROVE  KeyHolds(h)'
<1> DEFINE u == request[h].user
<1>1. ASSUME NEW i \in Items, row[i].kind = "chat"
      PROVE  /\ row'[i].kind = "chat" /\ row'[i].tier = row[i].tier
             /\ u \in Users /\ HasKey(u, i)' => HasKey(u, i)
  BY <1>1, PagesRowsKept, PagesHadKey DEF PagesKept
<1>2. ASSUME u \in Users, IsMember(u), NEW i \in Items, HasKey(u, i)'
      PROVE  rank'[u] = rank[u]
  BY <1>2, PagesStandingKept DEF HasKey
<1>3. ASSUME request[h].op \in {"rank", "residence"}, request[h].secret,
             NEW p \in request[h].rows
      PROVE  /\ row'[p[1]].kind = "chat" /\ row'[p[1]].tier = p[2]
             /\ HasKey(u, p[1])' =>
                    /\ rank'[u] # "none"
                    /\ At(h, "residence") => rank'[u] = request[h].rank
  <2>1. p[1] \in Items /\ u \in Users
    BY <1>3 DEF PagesTypeOK, RequestOK
  <2>2. /\ row[p[1]].kind = "chat" /\ row[p[1]].tier = p[2]
        /\ HasKey(u, p[1]) =>
               /\ IsMember(u)
               /\ At(h, "residence") => rank[u] = request[h].rank
    BY <1>3 DEF KeyHolds
  <2> QED BY <1>1, <1>2, <2>1, <2>2 DEF IsMember
<1>4. ASSUME At(h, "key")
      PROVE  /\ row'[request[h].item].kind = "chat"
             /\ HasKey(u, request[h].item)' =>
                    /\ rank'[u] # "none"
                    /\ LET t == row'[request[h].item].tier
                       IN t = "resident" \/ Meets(t, rank'[u], TRUE)
  <2> DEFINE i == request[h].item
  <2>1. i \in Items /\ u \in Users
    BY <1>4 DEF PagesTypeOK, RequestOK
  <2>2. /\ row[i].kind = "chat"
        /\ HasKey(u, i) =>
               /\ IsMember(u)
               /\ row[i].tier = "resident" \/ Meets(row[i].tier, rank[u], TRUE)
    BY <1>4 DEF KeyHolds
  <2> QED BY <1>1, <1>2, <2>1, <2>2 DEF IsMember
<1> QED BY <1>3, <1>4 DEF KeyHolds, IsMember

LEMMA PagesKeyNext ==
    ASSUME PagesTypeOK, NEW h \in Handlers, KeyHolds(h), Read(h)
    PROVE  KeyHolds(h)'
<1>1. UNCHANGED <<status, listed, rank, resident, row, revived>>
  BY PagesReadTurn DEF Only, group, people, pagesKeys
<1>2. ASSUME NEW r, Turn(h, r)
      PROVE  request'[h] = r
  BY <1>2, PagesTurn
<1>3. ASSUME NEW r, request'[h] = r,
             r.op \in {"idle", "guard", "rows", "posting"} \/ (r.op = "rank" /\ ~r.secret)
      PROVE  KeyHolds(h)'
  BY <1>3 DEF KeyHolds
<1>4. ASSUME NEW u \in Viewers
      PROVE  /\ \A k : Guard(h, u, k) => KeyHolds(h)'
             /\ Get(h, u) => KeyHolds(h)'
             /\ BeginGetPosting(h, u) => KeyHolds(h)'
  <2>1. ASSUME NEW op \in {"guard", "rows"}, NEW k, Open(h, op, u, k)
        PROVE  KeyHolds(h)'
    <3>1. request'[h] = Page(op, u, k)
      BY <1>2, <2>1 DEF Open
    <3> QED BY <1>3, <3>1 DEF Page
  <2>2. ASSUME BeginGetPosting(h, u)
        PROVE  KeyHolds(h)'
    <3>1. request'[h] = [op |-> "posting", user |-> u]
      BY <1>2, <2>2 DEF BeginGetPosting
    <3> QED BY <1>3, <3>1
  <2> QED BY <2>1, <2>2 DEF Guard, Get
<1>5. ASSUME NEW u \in Viewers, NEW i \in Items, BeginSecret(h, u, i)
      PROVE  KeyHolds(h)'
  <2>1. request'[h] = [op |-> "rank", user |-> u, secret |-> TRUE, rows |-> {<<i, row[i].tier>>}]
    BY <1>2, <1>5 DEF BeginSecret
  <2>2. row[i].kind = "chat" /\ (IsMember(u) \/ u \in Superusers)
    BY <1>5 DEF BeginSecret
  <2> QED BY <1>1, <2>1, <2>2 DEF KeyHolds, HasKey, IsMember
<1>6. ASSUME CheckMember(h) \/ ReadRows(h)
      PROVE  KeyHolds(h)'
  <2>1. CASE CheckMember(h)
    <3>1. \/ request'[h] = Page("rows", request[h].user, request[h].kind)
          \/ request'[h] = Idle
      BY <1>2, <2>1 DEF CheckMember
    <3> QED BY <1>3, <3>1 DEF Page, Idle
  <2>2. CASE ReadRows(h)
    <3>1. request'[h].op = "rank" /\ ~request'[h].secret
      BY <1>2, <2>2 DEF ReadRows
    <3> QED BY <1>3, <3>1
  <2> QED BY <1>6, <2>1, <2>2
<1>7. ASSUME ReadRank(h)
      PROVE  KeyHolds(h)'
  <2> DEFINE u == request[h].user
             S == request[h].rows
  <2>1. request'[h] = [op |-> "residence", user |-> u, secret |-> request[h].secret,
                       rows |-> S, rank |-> rank[u]]
    BY <1>2, <1>7 DEF ReadRank
  <2>2. request[h].secret =>
            \A p \in S : /\ row[p[1]].kind = "chat" /\ row[p[1]].tier = p[2]
                         /\ HasKey(u, p[1]) => IsMember(u)
    BY <1>7 DEF ReadRank, KeyHolds
  <2> HIDE DEF S
  <2> QED BY <1>1, <2>1, <2>2 DEF KeyHolds, HasKey, IsMember
<1>8. ASSUME Turn(h, Idle)
      PROVE  KeyHolds(h)'
  BY <1>2, <1>3, <1>8 DEF Idle
<1>9. ASSUME CompareTier(h), NEW i \in Shown(h),
             Turn(h, [op |-> "key", user |-> request[h].user, item |-> i])
      PROVE  KeyHolds(h)'
  <2> DEFINE u == request[h].user
  <2>1. request'[h] = [op |-> "key", user |-> u, item |-> i]
    BY <1>2, <1>9
  <2>2. PICK p \in request[h].rows :
            /\ i = p[1]
            /\ u \in Superusers \/ Meets(p[2], request[h].rank, u \in resident)
    BY <1>9 DEF Shown
  <2>3. /\ row[i].kind = "chat" /\ row[i].tier = p[2]
        /\ HasKey(u, i) => IsMember(u) /\ rank[u] = request[h].rank
    BY <1>9, <2>2 DEF CompareTier, KeyHolds
  <2>4. HasKey(u, i) => p[2] = "resident" \/ Meets(p[2], request[h].rank, TRUE)
    BY <2>2 DEF Meets, HasKey
  <2>5. /\ request'[h].op = "key" /\ request'[h].user = u /\ request'[h].item = i
        /\ row' = row /\ rank' = rank /\ revived' = revived
    BY <1>1, <2>1
  <2>6. HasKey(u, i) =>
            /\ rank[u] # "none"
            /\ row[i].tier = "resident" \/ Meets(row[i].tier, rank[u], TRUE)
    BY <2>3, <2>4 DEF IsMember
  <2> HIDE DEF u
  <2> QED BY <2>3, <2>5, <2>6 DEF KeyHolds, HasKey, IsMember
<1> QED BY <1>4, <1>5, <1>6, <1>7, <1>8, <1>9
     DEF Read, ListPage, ReadGroup, Show, CompareTier,
         HandSecret, RefuseSecret, GetPosting

LEMMA PagesKeysStep ==
    ASSUME PagesTypeOK, KeysHold, [PagesNext]_(pagesVars)
    PROVE  KeysHold'
<1>1. ASSUME NEW h \in Handlers, request'[h] = request[h]
      PROVE  KeyHolds(h)'
  BY <1>1, PagesKeyOn DEF KeysHold
<1>2. CASE request' = request
  BY <1>1, <1>2 DEF KeysHold
<1>3. ASSUME NEW h \in Handlers, Write(h)
      PROVE  KeysHold'
  <2>1. KeyHolds(h)'
    BY <1>3, PagesWriteTurn DEF KeyHolds
  <2> QED BY <1>1, <1>3, <2>1, PagesWriteTurn DEF KeysHold
<1>4. ASSUME NEW h \in Handlers, Read(h)
      PROVE  KeysHold'
  <2>1. KeyHolds(h)'
    BY <1>4, PagesKeyNext DEF KeysHold
  <2>2. \A g \in Handlers \ {h} : request'[g] = request[g]
    BY <1>4, PagesReadTurn, PagesTurn
  <2> QED BY <1>1, <2>1, <2>2 DEF KeysHold
<1> QED BY <1>2, <1>3, <1>4
     DEF PagesNext, pagesVars, CheckAndGraduate, AddMember, EndMembership, EndOther, Move

LEMMA PagesKeysInvariant ==
    PagesSpec => []KeysHold
<1>1. PagesInit => KeysHold
  <2>1. PagesInit => \A h \in Handlers : request[h].op = "idle"
    BY DEF PagesInit, Idle
  <2> QED BY <2>1 DEF KeysHold, KeyHolds
<1> QED BY <1>1, PagesKeysStep, PagesTypeInvariant, PTL DEF PagesSpec

\* However late the key row is read, it is handed to a member who meets the
\* chat's tier, residence apart: GetSignalGroupSecret compares rights in earlier
\* statements, and RemoveMember's deletion of the key rows makes up for it, but
\* for a row that SubmitGroupRotation put back from an earlier snapshot.
THEOREM PagesSecretToMembers ==
    PagesSpec => SecretToMembers
<1> DEFINE A == \A h \in Handlers :
                    HandSecret(h) /\ request[h].user \notin Superusers
                    /\ <<request[h].item, request[h].user>> \notin revived =>
                        /\ IsMember(request[h].user)
                        /\ LET t == row[request[h].item].tier
                           IN t = "resident" \/ Meets(t, rank[request[h].user], TRUE)
<1>1. KeysHold => A
  BY DEF KeysHold, KeyHolds, HasKey, HandSecret
<1> QED BY <1>1, PagesKeysInvariant, PTL DEF SecretToMembers
=============================================================================
