----------------------- MODULE ConnectionChatsProofs -----------------------
(* The invariants of ConnectionChats hold for any groups, proposals, chats, *)
(* handlers and limit.                                                      *)
EXTENDS ConnectionChats, FiniteSetTheorems, TLAPS

\* The fields that the requests in flight carry.
LEMMA RequestFields ==
    ASSUME NEW q \in Requests
    PROVE  /\ q.op = "propose" => /\ q.group \in Groups /\ q.audience \in SUBSET Groups
                                  /\ q.asked \in SUBSET Groups /\ q.signed \in BOOLEAN
           /\ q.op = "vote" => /\ q.proposal \in Proposals /\ q.group \in Groups
                               /\ q.approve \in BOOLEAN /\ q.last \in BOOLEAN /\ q.signed \in BOOLEAN
           /\ q.op = "leave" => /\ q.group \in Groups /\ q.seen \in SUBSET Groups
                                /\ q.chats \in SUBSET Chats /\ q.seated \in BOOLEAN
                                /\ q.stay \in SUBSET Groups
           /\ q.op = "rotate" => /\ q.group \in Groups /\ q.chat \in Chats
                                 /\ q.keys \in SUBSET Groups
<1>1. CASE q \in [op : {"idle"}]
  BY <1>1
<1>2. CASE q \in [op : {"propose"}, group : Groups, audience : SUBSET Groups,
                  asked : SUBSET Groups, signed : BOOLEAN]
  BY <1>2
<1>3. CASE q \in [op : {"vote"}, proposal : Proposals, group : Groups, approve : BOOLEAN,
                  last : BOOLEAN, signed : BOOLEAN]
  BY <1>3
<1>4. CASE q \in [op : {"leave"}, group : Groups, seen : SUBSET Groups,
                  chats : SUBSET Chats, seated : BOOLEAN, stay : SUBSET Groups]
  BY <1>4
<1>5. CASE q \in [op : {"rotate"}, group : Groups, chat : Chats, keys : SUBSET Groups]
  BY <1>5
<1> QED
  BY <1>1, <1>2, <1>3, <1>4, <1>5 DEF Requests

\* A handler's request, by its operation.
LEMMA OfFields ==
    ASSUME request \in [Handlers -> Requests], NEW h \in Handlers
    PROVE  /\ h \in Of("propose") =>
                  /\ request[h].group \in Groups /\ request[h].audience \in SUBSET Groups
                  /\ request[h].asked \in SUBSET Groups /\ request[h].signed \in BOOLEAN
           /\ h \in Of("vote") =>
                  /\ request[h].proposal \in Proposals /\ request[h].group \in Groups
                  /\ request[h].approve \in BOOLEAN /\ request[h].last \in BOOLEAN
                  /\ request[h].signed \in BOOLEAN
           /\ h \in Of("leave") =>
                  /\ request[h].group \in Groups /\ request[h].seen \in SUBSET Groups
                  /\ request[h].chats \in SUBSET Chats /\ request[h].seated \in BOOLEAN
                  /\ request[h].stay \in SUBSET Groups
           /\ h \in Of("rotate") =>
                  /\ request[h].group \in Groups /\ request[h].chat \in Chats
                  /\ request[h].keys \in SUBSET Groups
<1>1. request[h] \in Requests
  OBVIOUS
<1> QED
  BY <1>1, RequestFields DEF Of

\* What a request that begins stores, and whose operation it is.
LEMMA BeginOf ==
    ASSUME request \in [Handlers -> Requests], NEW h \in Handlers, NEW q, Begin(h, q)
    PROVE  /\ request'[h] = q
           /\ \A i \in Handlers \ {h} : request'[i] = request[i]
           /\ \A op \in {"propose", "vote", "leave", "rotate"} :
                  /\ h \notin Of(op)
                  /\ q.op = op => Of(op)' = Of(op) \cup {h}
                  /\ q.op # op => Of(op)' = Of(op)
BY DEF Begin, Of

\* A request that ends leaves the others as they are.
LEMMA EndOf ==
    ASSUME request \in [Handlers -> Requests], NEW h \in Handlers, End(h)
    PROVE  /\ \A i \in Handlers \ {h} : request'[i] = request[i]
           /\ \A op \in {"propose", "vote", "leave", "rotate"} : Of(op)' = Of(op) \ {h}
BY DEF End, Of, Idle

\* The requests that actions begin with are requests.
LEMMA BeginType ==
    ASSUME TypeOK, NEW h \in Handlers, NEW g \in Groups
    PROVE  /\ \A S \in Audiences : Begin(h, Proposing(g, S)) => request' \in [Handlers -> Requests]
           /\ \A p \in Proposals : \A yes \in BOOLEAN :
                  Begin(h, Voting(p, g, yes)) => request' \in [Handlers -> Requests]
           /\ Begin(h, Leaving(g)) => request' \in [Handlers -> Requests]
           /\ \A c \in Chats : Begin(h, Rotating(g, c)) => request' \in [Handlers -> Requests]
<1>1. members \in SUBSET Groups /\ Made \in SUBSET Chats
  BY DEF TypeOK, Made
<1>2. \A S \in Audiences : Proposing(g, S) \in Requests
  BY <1>1, GroupsAssumption DEF Proposing, Requests
<1>3. ASSUME NEW p \in Proposals, NEW yes \in BOOLEAN PROVE Voting(p, g, yes) \in Requests
  <2>1. (Pending(p) \ {g} = {}) \in BOOLEAN /\ (p \in signed) \in BOOLEAN
    OBVIOUS
  <2> QED
    BY <2>1 DEF Voting, Requests
<1>4. Leaving(g) \in Requests
  BY <1>1 DEF Leaving, Requests
<1>6. \A c \in Chats : Rotating(g, c) \in Requests
  BY DEF Rotating, Requests, TypeOK
<1>5. \A r \in Requests : Begin(h, r) => request' \in [Handlers -> Requests]
  BY DEF Begin, TypeOK
<1> QED
  BY <1>2, <1>3, <1>4, <1>5, <1>6

LEMMA EndType ==
    ASSUME TypeOK, NEW h \in Handlers, End(h)
    PROVE  request' \in [Handlers -> Requests]
BY DEF End, Idle, Requests, TypeOK

(***************************************************************************)
(* Types.                                                                  *)
(***************************************************************************)

\* A connection that is gone has no votes left.
TypeInv == TypeOK /\ (~live => \A p \in Proposals, g \in Groups : vote[p][g] = "absent")

\* The types hold initially.
LEMMA InitType == Init => TypeInv
<1> SUFFICES ASSUME Init PROVE TypeInv
  OBVIOUS
<1>1. request \in [Handlers -> Requests]
  BY DEF Init, Idle, Requests
<1> QED
  BY <1>1, GroupsAssumption DEF Init, TypeInv, TypeOK, Made

\* Every step preserves the types.
LEMMA StepType == TypeInv /\ [Next]_vars => TypeInv'
<1> SUFFICES ASSUME TypeInv, [Next]_vars PROVE TypeInv'
  OBVIOUS
<1> USE GroupsAssumption, NoneAssumption DEF people, proposals, chats, history, Made
<1> USE OfFields
<1>1. ASSUME NEW g \in Joiners, Join(g) PROVE TypeInv'
  BY <1>1 DEF Join, TypeInv, TypeOK
<1>2. ASSUME NEW g \in Deletable, DeleteGroup(g) PROVE TypeInv'
  BY <1>2 DEF DeleteGroup, TypeInv, TypeOK
<1>3. ASSUME NEW g \in Departing, BanAdmin(g) PROVE TypeInv'
  BY <1>3 DEF BanAdmin, TypeInv, TypeOK
<1>4. ASSUME NEW g \in Departing, DeleteUser(g) PROVE TypeInv'
  BY <1>4 DEF DeleteUser, TypeInv, TypeOK
<1>5. ASSUME NEW h \in Handlers, NEW g \in Proposers, NEW S \in Audiences, BeginPropose(h, g, S)
       PROVE TypeInv'
  BY <1>5, BeginType DEF BeginPropose, TypeInv, TypeOK
<1>6. ASSUME NEW h \in Handlers, NEW p \in Proposals, CommitPropose(h, p) PROVE TypeInv'
  BY <1>6, EndType DEF CommitPropose, InsertProposal, TypeInv, TypeOK
<1>7. ASSUME NEW h \in Handlers, NEW p \in Proposals, NEW c \in Chats, CommitProposeAlone(h, p, c)
       PROVE TypeInv'
  <2>1. h \in Of("propose") /\ live
    BY <1>7 DEF CommitProposeAlone, InsertProposal
  <2>2. request' \in [Handlers -> Requests]
    BY <1>7, EndType DEF CommitProposeAlone, InsertProposal, TypeInv
  <2>3. /\ made' \in [Chats -> Proposals \cup {None}]
        /\ holders' \in [Chats -> SUBSET accounts]
        /\ author' \in [Chats -> accounts \cup {None}]
        /\ rotation' \in [Chats -> SUBSET Groups]
        /\ \A d \in Chats : rotation'[d] \subseteq holders'[d]
        /\ stray' \in SUBSET Groups
    BY <1>7, <2>1 DEF CommitProposeAlone, CreateChat, Strays, TypeInv, TypeOK
  <2>4. /\ vote' \in [Proposals -> [Groups -> {"absent", "pending", "approved", "declined"}]]
        /\ proposer' \in [Proposals -> Groups \cup {None}]
        /\ signed' \in SUBSET Proposals
        /\ audience' \in [Proposals -> SUBSET Groups]
    BY <1>7, <2>1 DEF CommitProposeAlone, InsertProposal, TypeInv, TypeOK
  <2>5. /\ asked' \in [Proposals -> SUBSET Groups]
        /\ consent' \in [Proposals -> SUBSET Groups]
    BY <1>7, <2>1 DEF CommitProposeAlone, InsertProposal, TypeInv, TypeOK
  <2>6. status' \in [Proposals -> {"none", "pending", "approved", "declined", "deleted"}]
    BY <1>7 DEF CommitProposeAlone, TypeInv, TypeOK
  <2>7. UNCHANGED <<live, members, people, crossed, rivals>>
    BY <1>7 DEF CommitProposeAlone, InsertProposal
  <2> QED
    BY <2>1, <2>2, <2>3, <2>4, <2>5, <2>6, <2>7 DEF TypeInv, TypeOK
<1>8. ASSUME NEW h \in Handlers, NEW p \in Proposals, NEW g \in Groups, NEW yes \in BOOLEAN,
      BeginVote(h, p, g, yes)
       PROVE TypeInv'
  BY <1>8, BeginType DEF BeginVote, TypeInv, TypeOK
<1>9. ASSUME NEW h \in Handlers, CommitDecline(h) PROVE TypeInv'
  BY <1>9, EndType DEF CommitDecline, SetVote, SetStatus, TypeInv, TypeOK
<1>10. ASSUME NEW h \in Handlers, CommitVote(h) PROVE TypeInv'
  BY <1>10, EndType DEF CommitVote, SetVote, TypeInv, TypeOK
<1>11. ASSUME NEW h \in Handlers, NEW c \in Chats, CommitApproval(h, c) PROVE TypeInv'
  <2> DEFINE r == request[h]
             p == request[h].proposal
  <2>1. /\ h \in Of("vote") /\ p \in Proposals /\ r.group \in Groups
        /\ proposer[p] \in Groups \cup {None} /\ audience[p] \in SUBSET Groups
    BY <1>11 DEF CommitApproval, TypeInv, TypeOK
  <2>2. request' \in [Handlers -> Requests]
    BY <1>11, EndType DEF CommitApproval, TypeInv
  <2>3. live
    BY <1>11, <2>1 DEF CommitApproval, TypeInv
  <2>4. /\ CreateChat(c, p, audience[p], proposer[p], r.signed /\ audience[p] # {})
        /\ SetVote(p, r.group, "approved") /\ SetStatus(p, "approved")
        /\ consent' = [consent EXCEPT ![p] = @ \cup {r.group}]
        /\ UNCHANGED <<live, members, people, proposer, signed, audience, asked, crossed, rivals>>
    BY <1>11 DEF CommitApproval
  <2>5. /\ made' \in [Chats -> Proposals \cup {None}]
        /\ holders' \in [Chats -> SUBSET accounts]
        /\ author' \in [Chats -> accounts \cup {None}]
        /\ rotation' \in [Chats -> SUBSET Groups]
        /\ \A d \in Chats : rotation'[d] \subseteq holders'[d]
        /\ stray' \in SUBSET Groups
    <3> HIDE DEF p
    <3> QED
      BY <2>1, <2>4 DEF CreateChat, Strays, TypeInv, TypeOK
  <2>6. vote' \in [Proposals -> [Groups -> {"absent", "pending", "approved", "declined"}]]
    BY <2>1, <2>4 DEF SetVote, TypeInv, TypeOK
  <2>7. status' \in [Proposals -> {"none", "pending", "approved", "declined", "deleted"}]
    BY <2>1, <2>4 DEF SetStatus, TypeInv, TypeOK
  <2>8. consent' \in [Proposals -> SUBSET Groups]
    BY <2>1, <2>4 DEF TypeInv, TypeOK
  <2> QED
    BY <2>2, <2>3, <2>4, <2>5, <2>6, <2>7, <2>8 DEF TypeInv, TypeOK
<1>12. ASSUME NEW h \in Handlers, NEW g \in Leavers, BeginLeave(h, g) PROVE TypeInv'
  BY <1>12, BeginType DEF BeginLeave, TypeInv, TypeOK
<1>13. ASSUME NEW h \in Handlers, CommitLeave(h) PROVE TypeInv'
  BY <1>13, EndType DEF CommitLeave, RevokeKeys, TypeInv, TypeOK
<1>14. ASSUME NEW h \in Handlers, CommitDissolve(h) PROVE TypeInv'
  BY <1>14, EndType DEF CommitDissolve, TypeInv, TypeOK
<1>15. ASSUME NEW h \in Handlers, Fail(h) PROVE TypeInv'
  BY <1>15, EndType DEF Fail, TypeInv, TypeOK
<1>17. ASSUME NEW h \in Handlers, NEW g \in Rotators, NEW c \in Chats, BeginRotation(h, g, c)
       PROVE TypeInv'
  <2>1. g \in Groups
    BY <1>17 DEF BeginRotation, TypeInv, TypeOK
  <2> QED
    BY <1>17, <2>1, BeginType DEF BeginRotation, TypeInv, TypeOK
<1>18. ASSUME NEW h \in Handlers, CommitRotation(h) PROVE TypeInv'
  <2> DEFINE r == request[h]
  <2>1. r.group \in Groups /\ r.chat \in Chats /\ r.keys \in SUBSET Groups
    BY <1>18 DEF CommitRotation, TypeInv, TypeOK
  <2>2. /\ request' \in [Handlers -> Requests]
        /\ UNCHANGED <<live, members, people, proposals, made, history>>
        /\ holders' = [holders EXCEPT ![r.chat] = r.keys]
        /\ rotation' = [rotation EXCEPT ![r.chat] = {}]
        /\ author' = [author EXCEPT ![r.chat] = r.group]
        /\ r.keys \cup {r.group} \subseteq accounts
    BY <1>18, EndType DEF CommitRotation, TypeInv
  <2>3. holders' \in [Chats -> SUBSET accounts] /\ rotation' \in [Chats -> SUBSET Groups]
    BY <2>1, <2>2 DEF TypeInv, TypeOK
  <2>4. \A c \in Chats : rotation'[c] \subseteq holders'[c]
    BY <2>1, <2>2 DEF TypeInv, TypeOK
  <2>5. author' \in [Chats -> accounts \cup {None}]
    BY <2>1, <2>2 DEF TypeInv, TypeOK
  <2> QED
    BY <2>2, <2>3, <2>4, <2>5 DEF TypeInv, TypeOK
<1>16. CASE UNCHANGED vars
  BY <1>16 DEF vars, TypeInv, TypeOK
<1> QED
  BY <1>1, <1>2, <1>3, <1>4, <1>5, <1>6, <1>7, <1>8, <1>9, <1>10, <1>11, <1>12, <1>13,
     <1>14, <1>15, <1>16, <1>17, <1>18 DEF Next

\* Members, admins and accounts exist and chats are of a connection that exists.
THEOREM TypeCorrect == Spec => []TypeOK
<1>1. TypeInv => TypeOK
  BY DEF TypeInv
<1> QED
  BY <1>1, InitType, StepType, PTL DEF Spec

(***************************************************************************)
(* Keys.                                                                   *)
(***************************************************************************)

\* The keys of a chat, and those that a rotation in flight will put back.
Listed(c) == {g \in accounts : \E h \in Of("rotate") : request[h].chat = c /\ g \in request[h].keys}
Reach(c)  == IF made[c] = None THEN {} ELSE holders[c] \cup Listed(c)

\* A group that is leaving loses every key in its reach, unless it is a stray;
\* only chats that are made have keys, authors and rotations; an admin that was
\* removed is a stray.
LeaversLoseKeys ==
    \A h \in Of("leave"), c \in Chats :
        request[h].group \in Reach(c) =>
            request[h].group \in stray \/ (c \in request[h].chats /\ request[h].seated)

ReachBelongs == \A c \in Chats : Reach(c) \subseteq (members \cap seated) \cup stray

RotationsPlaced == live => \A h \in Of("rotate") : made[request[h].chat] # None

KeysInv ==
    /\ ReachBelongs
    /\ LeaversLoseKeys
    /\ RotationsPlaced
    /\ \A c \in Chats : made[c] = None => holders[c] = {} /\ author[c] = None
    /\ accounts \cap groups \subseteq seated \cup stray

\* No rotation begins and no account comes back.
LEMMA ListedKeeps ==
    ASSUME NEW c, Of("rotate")' \subseteq Of("rotate"),
           \A i \in Of("rotate")' : request'[i] = request[i], accounts' \subseteq accounts
    PROVE  Listed(c)' \subseteq Listed(c)
BY DEF Listed

\* A step that extends no reach, removes no member and starts no departure.
LEMMA ReachKeeps ==
    ASSUME TypeInv, TypeInv', KeysInv,
           Of("leave")' \subseteq Of("leave"),
           \A i \in Of("leave")' : request'[i] = request[i],
           RotationsPlaced', \A c \in Chats : Reach(c)' \subseteq Reach(c),
           \A c \in Chats : made'[c] = None => holders'[c] = {} /\ author'[c] = None,
           members \subseteq members' \cup stray',
           \A c \in Chats : Reach(c)' \cap seated \subseteq seated' \cup stray',
           accounts' \cap groups' \cap (seated \cup stray) \subseteq seated' \cup stray',
           groups' \subseteq groups, accounts' \subseteq accounts, stray \subseteq stray'
    PROVE  KeysInv'
<1>1. ReachBelongs'
  BY DEF KeysInv, ReachBelongs
<1>2. LeaversLoseKeys'
  <2> SUFFICES ASSUME NEW h \in Of("leave")', NEW c \in Chats, (request[h].group \in Reach(c))'
               PROVE  (request[h].group \in stray \/ (c \in request[h].chats /\ request[h].seated))'
    BY DEF LeaversLoseKeys
  <2>1. h \in Of("leave") /\ request'[h] = request[h] /\ request[h].group \in Reach(c)
    OBVIOUS
  <2> QED
    BY <2>1 DEF KeysInv, LeaversLoseKeys
<1> QED
  BY <1>1, <1>2 DEF KeysInv

\* A step that gives no key, starts no rotation, removes no member and starts no
\* departure.
LEMMA KeysKeep ==
    ASSUME TypeInv, TypeInv', KeysInv,
           Of("leave")' \subseteq Of("leave"),
           \A i \in Of("leave")' : request'[i] = request[i],
           Of("rotate")' \subseteq Of("rotate"),
           \A i \in Of("rotate")' : request'[i] = request[i],
           UNCHANGED <<live, made, author>>, \A c \in Chats : holders'[c] \subseteq holders[c],
           members \subseteq members' \cup stray',
           seated \cap accounts' \subseteq seated' \cup stray',
           groups' \subseteq groups, accounts' \subseteq accounts, stray \subseteq stray'
    PROVE  KeysInv'
<1>1. \A c \in Chats : Reach(c)' \subseteq Reach(c)
  BY ListedKeeps DEF Reach
<1>2. \A c \in Chats : Reach(c)' \subseteq accounts'
  BY DEF Reach, Listed, TypeInv, TypeOK
<1>3. RotationsPlaced'
  BY DEF KeysInv, RotationsPlaced
<1>4. \A c \in Chats : made'[c] = None => holders'[c] = {} /\ author'[c] = None
  BY DEF KeysInv
<1> QED
  BY <1>1, <1>2, <1>3, <1>4, ReachKeeps

\* A chat that is made is given the keys of members that stay, of admins, or
\* of strays.
LEMMA KeysMade ==
    ASSUME TypeInv, TypeInv', KeysInv, live,
           NEW c \in Chats, NEW p \in Proposals, NEW S \in SUBSET Groups, NEW g, NEW ok \in BOOLEAN,
           CreateChat(c, p, S, g, ok),
           Of("leave")' \subseteq Of("leave"),
           \A i \in Of("leave")' : request'[i] = request[i],
           Of("rotate")' \subseteq Of("rotate"),
           \A i \in Of("rotate")' : request'[i] = request[i],
           UNCHANGED <<members, groups, accounts, seated>>
    PROVE  KeysInv'
<1>1. /\ made[c] = None /\ stray \subseteq stray'
      /\ \A d \in Chats \ {c} : made'[d] = made[d] /\ holders'[d] = holders[d]
                                /\ author'[d] = author[d]
      /\ made'[c] = p /\ p # None
  BY NoneAssumption DEF CreateChat, TypeInv, TypeOK
<1>2. RotationsPlaced'
  <2> SUFFICES ASSUME NEW h \in Of("rotate")' PROVE made'[request'[h].chat] # None
    BY DEF RotationsPlaced
  <2>1. h \in Of("rotate") /\ request'[h] = request[h] /\ request[h].chat \in Chats
    BY OfFields DEF Of, TypeInv, TypeOK
  <2> QED
    BY <1>1, <2>1 DEF KeysInv, RotationsPlaced
<1>3. Listed(c)' = {}
  BY <1>1 DEF KeysInv, RotationsPlaced, Listed
<1>4. \A d \in Chats \ {c} : Reach(d)' \subseteq Reach(d)
  BY <1>1, ListedKeeps DEF Reach
<1>5. Reach(c)' \subseteq IF ok THEN S ELSE {}
  BY <1>3 DEF Reach, CreateChat, TypeInv, TypeOK
<1>6. \A d \in Chats : made'[d] = None => holders'[d] = {} /\ author'[d] = None
  BY <1>1 DEF KeysInv
<1>7. ok => S \subseteq accounts /\ Strays(S) \subseteq stray'
  BY DEF CreateChat
<1>8. Reach(c)' \subseteq (members \cap seated) \cup stray'
  BY <1>1, <1>5, <1>7 DEF Strays, KeysInv, TypeInv, TypeOK
<1>9. \A h \in Of("leave") : request[h].group \in Reach(c)' => request[h].group \in stray'
  BY <1>5, <1>7 DEF Strays
<1>10. ReachBelongs'
  <2> SUFFICES ASSUME NEW d \in Chats PROVE Reach(d)' \subseteq (members' \cap seated') \cup stray'
    BY DEF ReachBelongs
  <2>1. CASE d = c
    BY <1>8, <2>1
  <2>2. CASE d # c
    BY <1>1, <1>4, <2>2 DEF KeysInv, ReachBelongs
  <2> QED
    BY <2>1, <2>2
<1>11. LeaversLoseKeys'
  <2> SUFFICES ASSUME NEW h \in Of("leave")', NEW d \in Chats, (request[h].group \in Reach(d))'
               PROVE  (request[h].group \in stray \/ (d \in request[h].chats /\ request[h].seated))'
    BY DEF LeaversLoseKeys
  <2>1. h \in Of("leave") /\ request'[h] = request[h]
    OBVIOUS
  <2>2. CASE d = c
    BY <1>9, <2>1, <2>2
  <2>3. CASE d # c
    BY <1>1, <1>4, <2>1, <2>3 DEF KeysInv, LeaversLoseKeys
  <2> QED
    BY <2>2, <2>3
<1> QED
  BY <1>1, <1>2, <1>6, <1>10, <1>11 DEF KeysInv

\* Every step preserves where the keys are.
LEMMA StepKeys == TypeInv /\ TypeInv' /\ KeysInv /\ [Next]_vars => KeysInv'
<1> SUFFICES ASSUME TypeInv, TypeInv', KeysInv, [Next]_vars PROVE KeysInv'
  OBVIOUS
<1>0. request \in [Handlers -> Requests]
  BY DEF TypeInv, TypeOK
<1>1. ASSUME NEW g \in Joiners, Join(g) PROVE KeysInv'
  <2>1. /\ Of("leave")' \subseteq Of("leave")
        /\ \A i \in Of("leave")' : request'[i] = request[i]
        /\ Of("rotate")' \subseteq Of("rotate")
        /\ \A i \in Of("rotate")' : request'[i] = request[i]
    BY <1>1 DEF Join, Of
  <2> QED
    BY <1>1, <2>1, KeysKeep DEF Join, people, chats, history, TypeInv, TypeOK
<1>2. ASSUME NEW g \in Deletable, DeleteGroup(g) PROVE KeysInv'
  <2>1. /\ Of("leave")' \subseteq Of("leave")
        /\ \A i \in Of("leave")' : request'[i] = request[i]
        /\ Of("rotate")' \subseteq Of("rotate")
        /\ \A i \in Of("rotate")' : request'[i] = request[i]
    BY <1>2 DEF DeleteGroup, Of
  <2> QED
    BY <1>2, <2>1, KeysKeep DEF DeleteGroup, people, chats, history, TypeInv, TypeOK
<1>3. ASSUME NEW g \in Departing, BanAdmin(g) PROVE KeysInv'
  <2>1. /\ Of("leave")' \subseteq Of("leave")
        /\ \A i \in Of("leave")' : request'[i] = request[i]
        /\ Of("rotate")' \subseteq Of("rotate")
        /\ \A i \in Of("rotate")' : request'[i] = request[i]
    BY <1>3 DEF BanAdmin, Of
  <2> QED
    BY <1>3, <2>1, KeysKeep DEF BanAdmin, people, chats, history, TypeInv, TypeOK
<1>4. ASSUME NEW g \in Departing, DeleteUser(g) PROVE KeysInv'
  <2>1. /\ Of("leave")' \subseteq Of("leave")
        /\ \A i \in Of("leave")' : request'[i] = request[i]
        /\ Of("rotate")' \subseteq Of("rotate")
        /\ \A i \in Of("rotate")' : request'[i] = request[i]
    BY <1>4 DEF DeleteUser, Of
  <2> QED
    BY <1>4, <2>1, KeysKeep DEF DeleteUser, people, chats, history, TypeInv, TypeOK
<1>5. ASSUME NEW h \in Handlers, NEW g \in Proposers, NEW S \in Audiences, BeginPropose(h, g, S)
       PROVE KeysInv'
  <2>1. /\ Of("leave")' \subseteq Of("leave")
        /\ \A i \in Of("leave")' : request'[i] = request[i]
        /\ Of("rotate")' \subseteq Of("rotate")
        /\ \A i \in Of("rotate")' : request'[i] = request[i]
    BY <1>5, <1>0, BeginOf DEF BeginPropose, Of, Proposing
  <2> QED
    BY <1>5, <2>1, KeysKeep DEF BeginPropose, people, chats, history, TypeInv, TypeOK
<1>6. ASSUME NEW h \in Handlers, NEW p \in Proposals, CommitPropose(h, p) PROVE KeysInv'
  <2>1. /\ Of("leave")' \subseteq Of("leave")
        /\ \A i \in Of("leave")' : request'[i] = request[i]
        /\ Of("rotate")' \subseteq Of("rotate")
        /\ \A i \in Of("rotate")' : request'[i] = request[i]
    BY <1>6, <1>0, EndOf DEF CommitPropose, Of, InsertProposal
  <2> QED
    BY <1>6, <2>1, KeysKeep DEF CommitPropose, InsertProposal, people, chats, history, TypeInv, TypeOK
<1>7. ASSUME NEW h \in Handlers, NEW p \in Proposals, NEW c \in Chats, CommitProposeAlone(h, p, c)
       PROVE KeysInv'
  <2>1. live /\ h \in Of("propose") /\ End(h) /\ UNCHANGED <<members, groups, accounts, seated>>
    BY <1>7 DEF CommitProposeAlone, InsertProposal, people
  <2>2. /\ Of("leave")' \subseteq Of("leave")
        /\ \A i \in Of("leave")' : request'[i] = request[i]
        /\ Of("rotate")' \subseteq Of("rotate")
        /\ \A i \in Of("rotate")' : request'[i] = request[i]
    BY <2>1, <1>0, EndOf DEF Of
  <2> DEFINE ok == request[h].signed /\ request[h].audience # {}
  <2>3. request[h].audience \in SUBSET Groups /\ ok \in BOOLEAN
    BY <2>1, <1>0, OfFields
  <2>4. CreateChat(c, p, request[h].audience, request[h].group, ok)
    BY <1>7 DEF CommitProposeAlone
  <2> HIDE DEF ok
  <2> QED
    BY <2>1, <2>2, <2>3, <2>4, KeysMade
<1>8. ASSUME NEW h \in Handlers, NEW p \in Proposals, NEW g \in Groups, NEW yes \in BOOLEAN,
      BeginVote(h, p, g, yes)
       PROVE KeysInv'
  <2>1. /\ Of("leave")' \subseteq Of("leave")
        /\ \A i \in Of("leave")' : request'[i] = request[i]
        /\ Of("rotate")' \subseteq Of("rotate")
        /\ \A i \in Of("rotate")' : request'[i] = request[i]
    BY <1>8, <1>0, BeginOf DEF BeginVote, Of, Voting
  <2> QED
    BY <1>8, <2>1, KeysKeep DEF BeginVote, people, chats, history, TypeInv, TypeOK
<1>9. ASSUME NEW h \in Handlers, CommitDecline(h) PROVE KeysInv'
  <2>1. /\ Of("leave")' \subseteq Of("leave")
        /\ \A i \in Of("leave")' : request'[i] = request[i]
        /\ Of("rotate")' \subseteq Of("rotate")
        /\ \A i \in Of("rotate")' : request'[i] = request[i]
    BY <1>9, <1>0, EndOf DEF CommitDecline, Of
  <2> QED
    BY <1>9, <2>1, KeysKeep DEF CommitDecline, SetVote, SetStatus, people, chats, history,
          TypeInv, TypeOK
<1>10. ASSUME NEW h \in Handlers, CommitVote(h) PROVE KeysInv'
  <2>1. /\ Of("leave")' \subseteq Of("leave")
        /\ \A i \in Of("leave")' : request'[i] = request[i]
        /\ Of("rotate")' \subseteq Of("rotate")
        /\ \A i \in Of("rotate")' : request'[i] = request[i]
    BY <1>10, <1>0, EndOf DEF CommitVote, Of
  <2> QED
    BY <1>10, <2>1, KeysKeep DEF CommitVote, SetVote, people, chats, history, TypeInv, TypeOK
<1>11. ASSUME NEW h \in Handlers, NEW c \in Chats, CommitApproval(h, c) PROVE KeysInv'
  <2>1. h \in Of("vote") /\ End(h) /\ UNCHANGED <<members, groups, accounts, seated>>
    BY <1>11 DEF CommitApproval, people
  <2>5. live /\ h \in Of("vote")
    BY <1>11, <2>1, <1>0, OfFields DEF CommitApproval, TypeInv
  <2>2. /\ Of("leave")' \subseteq Of("leave")
        /\ \A i \in Of("leave")' : request'[i] = request[i]
        /\ Of("rotate")' \subseteq Of("rotate")
        /\ \A i \in Of("rotate")' : request'[i] = request[i]
    BY <2>1, <1>0, EndOf DEF Of
  <2> DEFINE p == request[h].proposal
             ok == request[h].signed /\ audience[p] # {}
  <2>3. p \in Proposals /\ audience[p] \in SUBSET Groups /\ ok \in BOOLEAN
    BY <2>1, <1>0, OfFields DEF TypeInv, TypeOK
  <2>4. CreateChat(c, p, audience[p], proposer[p], ok)
    BY <1>11 DEF CommitApproval
  <2> HIDE DEF p, ok
  <2> QED
    BY <2>1, <2>2, <2>3, <2>4, <2>5, KeysMade
<1>12. ASSUME NEW h \in Handlers, NEW g \in Leavers, BeginLeave(h, g) PROVE KeysInv'
  <2>1. /\ g \in members /\ g \in Groups /\ request'[h] = Leaving(g)
        /\ Of("leave")' = Of("leave") \cup {h} /\ h \notin Of("leave")
        /\ Of("rotate")' = Of("rotate") /\ h \notin Of("rotate")
        /\ \A i \in Of("leave") \cup Of("rotate") : request'[i] = request[i]
    <3>1. Leaving(g).op = "leave" /\ Begin(h, Leaving(g)) /\ g \in members
      BY <1>12 DEF BeginLeave, Leaving
    <3>2. /\ request'[h] = Leaving(g) /\ \A i \in Handlers \ {h} : request'[i] = request[i]
          /\ Of("leave")' = Of("leave") \cup {h} /\ h \notin Of("leave")
          /\ Of("rotate")' = Of("rotate") /\ h \notin Of("rotate")
      BY <3>1, <1>0, BeginOf
    <3>3. Of("leave") \cup Of("rotate") \subseteq Handlers /\ members \in SUBSET Groups
      BY DEF Of, TypeInv, TypeOK
    <3> QED
      BY <3>1, <3>2, <3>3
  <2>2. UNCHANGED <<live, members, groups, accounts, seated, made, holders, author, stray>>
    BY <1>12 DEF BeginLeave, people, chats, history
  <2>3. \A c \in Chats : Reach(c)' = Reach(c)
    <3>1. \A i \in Of("rotate") : request'[i] = request[i]
      BY <2>1
    <3>2. ASSUME NEW c \in Chats PROVE Listed(c)' = Listed(c)
      BY <2>1, <2>2, <3>1 DEF Listed
    <3> QED
      BY <2>2, <3>2 DEF Reach
  <2>4. \A c \in Chats : g \in Reach(c) => g \in stray \/ (c \in Made /\ g \in seated)
    <3>1. \A c \in Chats : g \in Reach(c) => c \in Made
      BY DEF Reach, Made
    <3> QED
      BY <3>1 DEF KeysInv, ReachBelongs
  <2>5. /\ request'[h].group = g /\ request'[h].chats = Made
        /\ request'[h].seated = (g \in seated)
    BY <2>1 DEF Leaving
  <2>6. LeaversLoseKeys'
    <3> SUFFICES ASSUME NEW i \in Of("leave")', NEW c \in Chats, (request[i].group \in Reach(c))'
                 PROVE  (request[i].group \in stray
                            \/ (c \in request[i].chats /\ request[i].seated))'
      BY DEF LeaversLoseKeys
    <3>1. CASE i = h
      BY <3>1, <2>2, <2>3, <2>4, <2>5
    <3>2. CASE i # h
      BY <3>2, <2>1, <2>2, <2>3 DEF KeysInv, LeaversLoseKeys
    <3> QED
      BY <3>1, <3>2
  <2>7. RotationsPlaced'
    BY <2>1, <2>2 DEF KeysInv, RotationsPlaced
  <2> QED
    BY <2>2, <2>3, <2>6, <2>7 DEF KeysInv, ReachBelongs
<1>13. ASSUME NEW h \in Handlers, CommitLeave(h) PROVE KeysInv'
  <2> DEFINE r == request[h]
  <2>1. /\ h \in Of("leave") /\ Of("leave")' = Of("leave") \ {h}
        /\ Of("rotate")' = Of("rotate")
        /\ \A i \in Of("leave")' \cup Of("rotate") : request'[i] = request[i]
    BY <1>13, <1>0, EndOf DEF CommitLeave, Of
  <2>2. /\ UNCHANGED <<live, groups, accounts, seated, made, author>>
        /\ members' = members \ {r.group}
        /\ stray' = IF InRotation(r.group) THEN stray \cup {r.group} ELSE stray
    BY <1>13 DEF CommitLeave, people
  <2>3. \A c \in Chats :
            /\ holders'[c] \subseteq holders[c]
            /\ r.group \in holders'[c] => ~(c \in r.chats /\ r.seated)
    BY <1>13, <2>1, <1>0, OfFields DEF CommitLeave, RevokeKeys
  <2>4. \A c \in Chats : Listed(c)' = Listed(c) /\ Reach(c)' \subseteq Reach(c)
    BY <2>1, <2>2, <2>3 DEF Reach, Listed
  <2>5. \A c \in Chats : r.group \in Reach(c)' => r.group \in stray'
    <3> SUFFICES ASSUME NEW c \in Chats, r.group \in Reach(c)' PROVE r.group \in stray'
      OBVIOUS
    <3>1. CASE r.group \in Listed(c)
      BY <2>2, <3>1 DEF Listed, InRotation
    <3>2. CASE r.group \in holders'[c]
      BY <2>1, <2>2, <2>3, <2>4, <3>2 DEF KeysInv, LeaversLoseKeys
    <3> QED
      BY <2>2, <2>4, <3>1, <3>2 DEF Reach
  <2>6. ReachBelongs'
    BY <2>2, <2>4, <2>5 DEF KeysInv, ReachBelongs
  <2>7. LeaversLoseKeys'
    BY <2>1, <2>2, <2>4 DEF KeysInv, LeaversLoseKeys
  <2>8. RotationsPlaced'
    BY <2>1, <2>2 DEF KeysInv, RotationsPlaced
  <2> QED
    BY <2>2, <2>3, <2>6, <2>7, <2>8 DEF KeysInv
<1>14. ASSUME NEW h \in Handlers, CommitDissolve(h) PROVE KeysInv'
  <2>1. /\ Of("leave")' \subseteq Of("leave")
        /\ \A i \in Of("leave")' : request'[i] = request[i]
        /\ Of("rotate")' \subseteq Of("rotate")
        /\ \A i \in Of("rotate")' : request'[i] = request[i]
    BY <1>14, <1>0, EndOf DEF CommitDissolve, Of
  <2> QED
    BY <1>14, <2>1 DEF CommitDissolve, KeysInv, ReachBelongs, LeaversLoseKeys, RotationsPlaced,
          Reach, people, history
<1>15. ASSUME NEW h \in Handlers, Fail(h) PROVE KeysInv'
  <2>1. /\ Of("leave")' \subseteq Of("leave")
        /\ \A i \in Of("leave")' : request'[i] = request[i]
        /\ Of("rotate")' \subseteq Of("rotate")
        /\ \A i \in Of("rotate")' : request'[i] = request[i]
    BY <1>15, <1>0, EndOf DEF Fail, Of
  <2> QED
    BY <1>15, <2>1, KeysKeep DEF Fail, people, chats, history, TypeInv, TypeOK
<1>17. ASSUME NEW h \in Handlers, NEW g \in Rotators, NEW c \in Chats, BeginRotation(h, g, c)
       PROVE KeysInv'
  <2>1. /\ request'[h] = Rotating(g, c)
        /\ Of("leave")' = Of("leave") /\ h \notin Of("leave")
        /\ Of("rotate")' = Of("rotate") \cup {h} /\ h \notin Of("rotate")
        /\ \A i \in Of("leave") \cup Of("rotate") : request'[i] = request[i]
    BY <1>17, <1>0, BeginOf DEF BeginRotation, Rotating, Of
  <2>2. UNCHANGED <<live, members, groups, accounts, seated, made, holders, author, stray>>
    BY <1>17 DEF BeginRotation, people, chats, history
  <2>3. request'[h].chat = c /\ request'[h].keys = holders[c]
    BY <2>1 DEF Rotating
  <2>4. \A d \in Chats : Reach(d)' \subseteq Reach(d)
    <3>1. \A d \in Chats : Listed(d)' \subseteq Listed(d) \cup IF d = c THEN holders[c] ELSE {}
      BY <2>1, <2>2, <2>3 DEF Listed
    <3> QED
      BY <2>2, <3>1 DEF Reach
  <2>5. RotationsPlaced'
    BY <1>17, <2>1, <2>2, <2>3 DEF BeginRotation, KeysInv, RotationsPlaced
  <2>6. \A d \in Chats : made'[d] = None => holders'[d] = {} /\ author'[d] = None
    BY <2>2 DEF KeysInv
  <2> QED
    BY <2>1, <2>2, <2>4, <2>5, <2>6, ReachKeeps
<1>18. ASSUME NEW h \in Handlers, CommitRotation(h) PROVE KeysInv'
  <2> DEFINE r == request[h]
  <2>1. /\ h \in Of("rotate") /\ Of("leave")' = Of("leave")
        /\ Of("rotate")' = Of("rotate") \ {h}
        /\ \A i \in Of("leave")' \cup Of("rotate")' : request'[i] = request[i]
    BY <1>18, <1>0, EndOf DEF CommitRotation, Of
  <2>2. /\ UNCHANGED <<live, members, groups, accounts, seated, made, stray>>
        /\ author[r.chat] # None /\ r.keys \subseteq accounts
        /\ holders' = [holders EXCEPT ![r.chat] = r.keys]
        /\ author' = [author EXCEPT ![r.chat] = r.group]
    BY <1>18 DEF CommitRotation, people, history
  <2>3. r.chat \in Chats /\ made[r.chat] # None
    BY <2>1, <2>2, <1>0, OfFields DEF KeysInv, Of
  <2>4. \A d \in Chats : Reach(d)' \subseteq Reach(d)
    <3> SUFFICES ASSUME NEW d \in Chats PROVE Reach(d)' \subseteq Reach(d)
      OBVIOUS
    <3>1. Listed(d)' \subseteq Listed(d)
      BY <2>1, <2>2, ListedKeeps
    <3>2. CASE d = r.chat
      <4>1. holders'[d] \subseteq Listed(d)
        BY <2>1, <2>2, <3>2 DEF Listed, TypeInv, TypeOK
      <4> QED
        BY <2>2, <3>1, <4>1 DEF Reach
    <3>3. CASE d # r.chat
      BY <2>2, <3>1, <3>3 DEF Reach, TypeInv, TypeOK
    <3> QED
      BY <3>2, <3>3
  <2>5. RotationsPlaced'
    BY <2>1, <2>2 DEF KeysInv, RotationsPlaced
  <2>6. \A d \in Chats : made'[d] = None => holders'[d] = {} /\ author'[d] = None
    BY <2>2, <2>3 DEF KeysInv, TypeInv, TypeOK
  <2> QED
    BY <2>1, <2>2, <2>4, <2>5, <2>6, ReachKeeps
<1>16. CASE UNCHANGED vars
  <2>1. /\ Of("leave")' \subseteq Of("leave")
        /\ \A i \in Of("leave")' : request'[i] = request[i]
        /\ Of("rotate")' \subseteq Of("rotate")
        /\ \A i \in Of("rotate")' : request'[i] = request[i]
    BY <1>16 DEF vars, Of
  <2> QED
    BY <1>16, <2>1, KeysKeep DEF vars, people, chats, history
<1> QED
  BY <1>1, <1>2, <1>3, <1>4, <1>5, <1>6, <1>7, <1>8, <1>9, <1>10, <1>11, <1>12, <1>13,
     <1>14, <1>15, <1>16, <1>17, <1>18 DEF Next

\* A chat's keys are its members', or those of admins that were removed, of
\* deleted groups, or of groups that left while the chat was being made or while
\* a rotation that listed them was in flight.
THEOREM KeysBelong == Spec => []HoldersBelong
<1>1. Init => KeysInv
  BY NoneAssumption DEF Init, KeysInv, ReachBelongs, LeaversLoseKeys, RotationsPlaced, Reach,
        Of, Idle
<1>2. KeysInv => HoldersBelong
  BY DEF KeysInv, ReachBelongs, Reach, HoldersBelong
<1> QED
  BY <1>1, <1>2, InitType, StepType, StepKeys, PTL DEF Spec

(***************************************************************************)
(* Agreement.                                                              *)
(***************************************************************************)

\* Who has not approved: a voter that sees itself as the last one, and groups
\* that were deleted with their votes.
Missing(p) == asked[p] \ consent[p]

LastVotes ==
    \A h \in Of("vote") :
        /\ status[request[h].proposal] # "none"
        /\ request[h].last =>
               Missing(request[h].proposal) \subseteq {request[h].group} \cup (Groups \ groups)

\* The votes of a proposal, open or not made yet.
VotesOK(p) ==
    /\ \A g \in Groups : vote[p][g] = "approved" => g \in consent[p]
    /\ status[p] = "pending" => \A g \in Groups :
           /\ vote[p][g] # "declined"
           /\ g \in asked[p] /\ vote[p][g] = "absent" => g \notin groups

ChatsSettled ==
    \A c \in Made : status[made[c]] # "none" /\ Missing(made[c]) \subseteq Groups \ groups

AgreeInv == LastVotes /\ ChatsSettled /\ \A p \in Proposals : VotesOK(p)

\* A step that begins no vote, makes no chat and asks for no votes.
LEMMA AgreeKeeps ==
    ASSUME TypeInv, TypeInv', AgreeInv,
           Of("vote")' \subseteq Of("vote"),
           \A i \in Of("vote")' : request'[i] = request[i],
           \A p \in Proposals : Missing(p)' \subseteq Missing(p),
           \A p \in Proposals : status[p] # "none" => status'[p] # "none",
           \A p \in Proposals : VotesOK(p)',
           \A c \in Chats : made'[c] \in {made[c], None}, groups' \subseteq groups
    PROVE  AgreeInv'
<1>0. request \in [Handlers -> Requests]
  BY DEF TypeInv, TypeOK
<1>1. LastVotes'
  <2> SUFFICES ASSUME NEW h \in Of("vote")'
               PROVE  (/\ status[request[h].proposal] # "none"
                       /\ request[h].last => Missing(request[h].proposal) \subseteq
                                                 {request[h].group} \cup (Groups \ groups))'
    BY DEF LastVotes
  <2>1. h \in Of("vote") /\ request'[h] = request[h] /\ request[h].proposal \in Proposals
    BY <1>0, OfFields DEF Of
  <2> QED
    BY <2>1 DEF AgreeInv, LastVotes
<1>2. ChatsSettled'
  <2> SUFFICES ASSUME NEW c \in Made'
               PROVE  (status[made[c]] # "none" /\ Missing(made[c]) \subseteq Groups \ groups)'
    BY DEF ChatsSettled
  <2>1. c \in Made /\ made'[c] = made[c] /\ made[c] \in Proposals
    BY DEF Made, TypeInv, TypeOK
  <2> QED
    BY <2>1 DEF AgreeInv, ChatsSettled, Missing
<1> QED
  BY <1>1, <1>2 DEF AgreeInv

\* A proposal is made: nobody voted on it and no chat is of it.
LEMMA AgreeProposed ==
    ASSUME TypeInv, TypeInv', AgreeInv, NEW h \in Handlers, NEW p \in Proposals,
           InsertProposal(h, p),
           \A q \in Proposals \ {p} : status'[q] = status[q],
           \/ status'[p] = "pending" /\ UNCHANGED made
           \/ /\ request[h].asked = {request[h].group} /\ status'[p] = "approved"
              /\ \E c \in Chats : made' = [made EXCEPT ![c] = p]
    PROVE  AgreeInv'
<1>0. request \in [Handlers -> Requests]
  BY DEF TypeInv, TypeOK
<1>1. /\ Of("vote")' = Of("vote")
      /\ \A i \in Of("vote") : request'[i] = request[i] /\ request[i].proposal \in Proposals
  BY <1>0, EndOf, OfFields DEF InsertProposal, Of
<1>2. /\ status[p] = "none" /\ status'[p] # "none" /\ UNCHANGED groups
      /\ request[h].group \in Groups /\ request[h].asked \subseteq groups
  BY <1>0, OfFields DEF InsertProposal, people
<1>3. \A q \in Proposals \ {p} :
          /\ Missing(q)' = Missing(q) /\ vote'[q] = vote[q]
          /\ asked'[q] = asked[q] /\ consent'[q] = consent[q]
  BY DEF InsertProposal, Missing, TypeInv, TypeOK
<1>4. /\ asked'[p] = request[h].asked /\ consent'[p] = {request[h].group}
      /\ \A g \in Groups :
             vote'[p][g] = IF g = request[h].group THEN "approved"
                           ELSE IF g \in request[h].asked THEN "pending" ELSE "absent"
  BY DEF InsertProposal, TypeInv, TypeOK
<1>5. \A q \in Proposals : VotesOK(q)'
  <2>1. VotesOK(p)'
    BY <1>2, <1>4 DEF VotesOK
  <2>2. \A q \in Proposals \ {p} : VotesOK(q)'
    BY <1>2, <1>3 DEF VotesOK, AgreeInv
  <2> QED
    BY <2>1, <2>2
<1>6. LastVotes'
  BY <1>1, <1>2, <1>3 DEF LastVotes, AgreeInv
<1>7. ChatsSettled'
  <2> SUFFICES ASSUME NEW c \in Made'
               PROVE  (status[made[c]] # "none" /\ Missing(made[c]) \subseteq Groups \ groups)'
    BY DEF ChatsSettled
  <2>1. CASE made'[c] = made[c]
    <3>1. c \in Made
      BY <2>1 DEF Made
    <3>2. made[c] \in Proposals \ {p}
      BY <3>1, <1>2 DEF AgreeInv, ChatsSettled, Made, TypeInv, TypeOK
    <3> QED
      BY <2>1, <3>1, <3>2, <1>2, <1>3 DEF AgreeInv, ChatsSettled, Missing
  <2>2. CASE made'[c] # made[c]
    <3>1. made'[c] = p /\ request[h].asked = {request[h].group}
      BY <2>2 DEF Made, TypeInv, TypeOK
    <3> QED
      BY <3>1, <1>2, <1>4 DEF Missing
  <2> QED
    BY <2>1, <2>2
<1> QED
  BY <1>5, <1>6, <1>7 DEF AgreeInv

\* Every step preserves who has agreed.
LEMMA StepAgree == TypeInv /\ TypeInv' /\ AgreeInv /\ [Next]_vars => AgreeInv'
<1> SUFFICES ASSUME TypeInv, TypeInv', AgreeInv, [Next]_vars PROVE AgreeInv'
  OBVIOUS
<1>0. request \in [Handlers -> Requests]
  BY DEF TypeInv, TypeOK
<1>1. ASSUME NEW g \in Joiners, Join(g) PROVE AgreeInv'
  <2>1. /\ Of("vote")' \subseteq Of("vote")
        /\ \A i \in Of("vote")' : request'[i] = request[i]
    BY <1>1 DEF Join, Of
  <2>2. \A p \in Proposals : VotesOK(p)'
    BY <1>1 DEF Join, VotesOK, AgreeInv, proposals, history, people, TypeInv, TypeOK
  <2> QED
    BY <1>1, <2>1, <2>2, AgreeKeeps DEF Join, Missing, people, proposals, chats, history,
          TypeInv, TypeOK
<1>2. ASSUME NEW g \in Deletable, DeleteGroup(g) PROVE AgreeInv'
  <2>1. /\ Of("vote")' \subseteq Of("vote")
        /\ \A i \in Of("vote")' : request'[i] = request[i]
    BY <1>2 DEF DeleteGroup, Of
  <2>2. \A p \in Proposals : VotesOK(p)'
    BY <1>2 DEF DeleteGroup, VotesOK, AgreeInv, proposals, history, people, TypeInv, TypeOK
  <2> QED
    BY <1>2, <2>1, <2>2, AgreeKeeps DEF DeleteGroup, Missing, people, proposals, chats, history,
          TypeInv, TypeOK
<1>3. ASSUME NEW g \in Departing, BanAdmin(g) PROVE AgreeInv'
  <2>1. /\ Of("vote")' \subseteq Of("vote")
        /\ \A i \in Of("vote")' : request'[i] = request[i]
    BY <1>3 DEF BanAdmin, Of
  <2>2. \A p \in Proposals : VotesOK(p)'
    BY <1>3 DEF BanAdmin, VotesOK, AgreeInv, proposals, history, people, TypeInv, TypeOK
  <2> QED
    BY <1>3, <2>1, <2>2, AgreeKeeps DEF BanAdmin, Missing, people, proposals, chats, history,
          TypeInv, TypeOK
<1>4. ASSUME NEW g \in Departing, DeleteUser(g) PROVE AgreeInv'
  <2>1. /\ Of("vote")' \subseteq Of("vote")
        /\ \A i \in Of("vote")' : request'[i] = request[i]
    BY <1>4 DEF DeleteUser, Of
  <2>2. \A p \in Proposals : VotesOK(p)'
    BY <1>4 DEF DeleteUser, VotesOK, AgreeInv, proposals, history, people, TypeInv, TypeOK
  <2> QED
    BY <1>4, <2>1, <2>2, AgreeKeeps DEF DeleteUser, Missing, people, proposals, chats, history,
          TypeInv, TypeOK
<1>5. ASSUME NEW h \in Handlers, NEW g \in Proposers, NEW S \in Audiences, BeginPropose(h, g, S)
       PROVE AgreeInv'
  <2>1. /\ Of("vote")' \subseteq Of("vote")
        /\ \A i \in Of("vote")' : request'[i] = request[i]
    BY <1>5, <1>0, BeginOf DEF BeginPropose, Of, Proposing
  <2>2. \A p \in Proposals : VotesOK(p)'
    BY <1>5 DEF BeginPropose, VotesOK, AgreeInv, proposals, history, people, TypeInv, TypeOK
  <2> QED
    BY <1>5, <2>1, <2>2, AgreeKeeps DEF BeginPropose, Missing, people, proposals, chats, history,
          TypeInv, TypeOK
<1>6. ASSUME NEW h \in Handlers, NEW p \in Proposals, CommitPropose(h, p) PROVE AgreeInv'
  BY <1>6, AgreeProposed DEF CommitPropose, chats, TypeInv, TypeOK
<1>7. ASSUME NEW h \in Handlers, NEW p \in Proposals, NEW c \in Chats, CommitProposeAlone(h, p, c)
       PROVE AgreeInv'
  <2>1. /\ InsertProposal(h, p) /\ request[h].asked = {request[h].group}
        /\ made' = [made EXCEPT ![c] = p]
        /\ status'[p] = "approved" /\ \A q \in Proposals \ {p} : status'[q] = status[q]
    BY <1>7 DEF CommitProposeAlone, CreateChat, TypeInv, TypeOK
  <2> QED
    BY <2>1, AgreeProposed
<1>8. ASSUME NEW h \in Handlers, NEW p \in Proposals, NEW g \in Groups, NEW yes \in BOOLEAN,
      BeginVote(h, p, g, yes)
       PROVE AgreeInv'
  <2>1. /\ request'[h] = Voting(p, g, yes) /\ status[p] = "pending"
        /\ Of("vote")' = Of("vote") \cup {h} /\ h \notin Of("vote")
        /\ \A i \in Of("vote") : request'[i] = request[i]
    BY <1>8, <1>0, BeginOf DEF BeginVote, Voting, Of
  <2>2. UNCHANGED <<groups, status, vote, made, asked, consent>>
    BY <1>8 DEF BeginVote, people, proposals, chats
  <2>3. /\ request'[h].group = g /\ request'[h].proposal = p
        /\ request'[h].last = (Pending(p) \ {g} = {})
    BY <2>1 DEF Voting
  <2>4. Pending(p) \ {g} = {} => Missing(p) \subseteq {g} \cup (Groups \ groups)
    BY <2>1 DEF Pending, Missing, AgreeInv, VotesOK, TypeInv, TypeOK
  <2>5. LastVotes'
    <3> SUFFICES ASSUME NEW i \in Of("vote")'
                 PROVE  (/\ status[request[i].proposal] # "none"
                         /\ request[i].last => Missing(request[i].proposal) \subseteq
                                                   {request[i].group} \cup (Groups \ groups))'
      BY DEF LastVotes
    <3>1. CASE i = h
      BY <3>1, <2>1, <2>2, <2>3, <2>4 DEF Missing
    <3>2. CASE i # h
      BY <3>2, <2>1, <2>2 DEF AgreeInv, LastVotes, Missing
    <3> QED
      BY <3>1, <3>2
  <2> QED
    BY <2>2, <2>5 DEF AgreeInv, ChatsSettled, VotesOK, Made, Missing
<1>9. ASSUME NEW h \in Handlers, CommitDecline(h) PROVE AgreeInv'
  <2> DEFINE p == request[h].proposal
             g == request[h].group
  <2>1. /\ Of("vote")' \subseteq Of("vote")
        /\ \A i \in Of("vote")' : request'[i] = request[i]
    BY <1>9, <1>0, EndOf DEF CommitDecline, Of
  <2>2. /\ p \in Proposals /\ g \in Groups
        /\ SetVote(p, g, "declined") /\ SetStatus(p, "declined")
        /\ UNCHANGED <<groups, made, asked, consent>>
    BY <1>9, <1>0, OfFields DEF CommitDecline, people, chats, history
  <2> HIDE DEF p, g
  <2>3. \A q \in Proposals : VotesOK(q)'
    BY <2>2 DEF SetVote, SetStatus, VotesOK, AgreeInv, TypeInv, TypeOK
  <2>4. \A q \in Proposals : status[q] # "none" => status'[q] # "none"
    BY <2>2 DEF SetStatus, TypeInv, TypeOK
  <2> QED
    BY <2>1, <2>2, <2>3, <2>4, AgreeKeeps DEF Missing, TypeInv, TypeOK
<1>10. ASSUME NEW h \in Handlers, CommitVote(h) PROVE AgreeInv'
  <2> DEFINE p == request[h].proposal
             g == request[h].group
  <2>1. /\ Of("vote")' \subseteq Of("vote")
        /\ \A i \in Of("vote")' : request'[i] = request[i]
    BY <1>10, <1>0, EndOf DEF CommitVote, Of
  <2>2. /\ p \in Proposals /\ g \in Groups /\ SetVote(p, g, "approved")
        /\ consent' = IF vote[p][g] = "absent" THEN consent
                      ELSE [consent EXCEPT ![p] = @ \cup {g}]
        /\ UNCHANGED <<groups, status, made, asked>>
    BY <1>10, <1>0, OfFields DEF CommitVote, people, chats
  <2> HIDE DEF p, g
  <2>3. \A q \in Proposals : VotesOK(q)'
    BY <2>2 DEF SetVote, VotesOK, AgreeInv, TypeInv, TypeOK
  <2>4. \A q \in Proposals : Missing(q)' \subseteq Missing(q)
    BY <2>2 DEF Missing, TypeInv, TypeOK
  <2> QED
    BY <2>1, <2>2, <2>3, <2>4, AgreeKeeps DEF TypeInv, TypeOK
<1>11. ASSUME NEW h \in Handlers, NEW c \in Chats, CommitApproval(h, c) PROVE AgreeInv'
  <2> DEFINE p == request[h].proposal
             g == request[h].group
  <2>1. /\ Of("vote")' \subseteq Of("vote")
        /\ \A i \in Of("vote")' : request'[i] = request[i]
    BY <1>11, <1>0, EndOf DEF CommitApproval, Of
  <2>2. /\ h \in Of("vote") /\ p \in Proposals /\ g \in Groups /\ request[h].last
        /\ vote[p][g] # "absent" /\ SetVote(p, g, "approved") /\ SetStatus(p, "approved")
        /\ made' = [made EXCEPT ![c] = p]
        /\ consent' = [consent EXCEPT ![p] = @ \cup {g}]
        /\ UNCHANGED <<groups, asked>>
    BY <1>11, <1>0, OfFields DEF CommitApproval, CreateChat, people
  <2>3. status[p] # "none" /\ Missing(p) \subseteq {g} \cup (Groups \ groups)
    BY <2>2 DEF AgreeInv, LastVotes
  <2>4. LastVotes'
    <3> SUFFICES ASSUME NEW i \in Of("vote")'
                 PROVE  (/\ status[request[i].proposal] # "none"
                         /\ request[i].last => Missing(request[i].proposal) \subseteq
                                                   {request[i].group} \cup (Groups \ groups))'
      BY DEF LastVotes
    <3>1. i \in Of("vote") /\ request'[i] = request[i] /\ request[i].proposal \in Proposals
      BY <2>1, <1>0, OfFields DEF Of
    <3>2. \A q \in Proposals : Missing(q)' \subseteq Missing(q)
      BY <2>2 DEF Missing, TypeInv, TypeOK
    <3>3. \A q \in Proposals : status[q] # "none" => status'[q] # "none"
      BY <2>2 DEF SetStatus, TypeInv, TypeOK
    <3> QED
      BY <3>1, <3>2, <3>3, <2>2 DEF AgreeInv, LastVotes
  <2> HIDE DEF p, g
  <2>5. \A q \in Proposals : VotesOK(q)'
    BY <2>2 DEF SetVote, SetStatus, VotesOK, AgreeInv, TypeInv, TypeOK
  <2>6. ChatsSettled'
    <3>1. status'[p] # "none" /\ \A q \in Proposals : status[q] # "none" => status'[q] # "none"
      BY <2>2 DEF SetStatus, TypeInv, TypeOK
    <3>2. /\ asked'[p] = asked[p] /\ consent'[p] = consent[p] \cup {g}
          /\ \A q \in Proposals \ {p} : asked'[q] = asked[q] /\ consent'[q] = consent[q]
      BY <2>2 DEF TypeInv, TypeOK
    <3>3. asked'[p] \ consent'[p] \subseteq Groups \ groups
      BY <2>3, <3>2 DEF Missing
    <3> SUFFICES ASSUME NEW d \in Made'
                 PROVE  (status[made[d]] # "none" /\ Missing(made[d]) \subseteq Groups \ groups)'
      BY DEF ChatsSettled
    <3>4. CASE made'[d] = p
      BY <3>4, <3>1, <3>3, <2>2 DEF Missing
    <3>5. CASE made'[d] # p
      <4>1. d \in Made /\ made'[d] = made[d] /\ made[d] \in Proposals \ {p}
        BY <3>5, <2>2 DEF Made, TypeInv, TypeOK
      <4> QED
        BY <4>1, <2>2, <3>1, <3>2 DEF AgreeInv, ChatsSettled, Missing
    <3> QED
      BY <3>4, <3>5
  <2> QED
    BY <2>4, <2>5, <2>6 DEF AgreeInv
<1>12. ASSUME NEW h \in Handlers, NEW g \in Leavers, BeginLeave(h, g) PROVE AgreeInv'
  <2>1. /\ Of("vote")' \subseteq Of("vote")
        /\ \A i \in Of("vote")' : request'[i] = request[i]
    BY <1>12, <1>0, BeginOf DEF BeginLeave, Of, Leaving
  <2>2. \A p \in Proposals : VotesOK(p)'
    BY <1>12 DEF BeginLeave, VotesOK, AgreeInv, proposals, history, people, TypeInv, TypeOK
  <2> QED
    BY <1>12, <2>1, <2>2, AgreeKeeps DEF BeginLeave, Missing, people, proposals, chats, history,
          TypeInv, TypeOK
<1>13. ASSUME NEW h \in Handlers, CommitLeave(h) PROVE AgreeInv'
  <2>1. /\ Of("vote")' \subseteq Of("vote")
        /\ \A i \in Of("vote")' : request'[i] = request[i]
    BY <1>13, <1>0, EndOf DEF CommitLeave, Of
  <2>2. \A p \in Proposals : VotesOK(p)'
    BY <1>13 DEF CommitLeave, VotesOK, AgreeInv, proposals, history, people, TypeInv, TypeOK
  <2> QED
    BY <1>13, <2>1, <2>2, AgreeKeeps DEF CommitLeave, Missing, people, proposals, chats, history,
          TypeInv, TypeOK
<1>14. ASSUME NEW h \in Handlers, CommitDissolve(h) PROVE AgreeInv'
  <2>1. /\ Of("vote")' \subseteq Of("vote")
        /\ \A i \in Of("vote")' : request'[i] = request[i]
    BY <1>14, <1>0, EndOf DEF CommitDissolve, Of
  <2>2. \A p \in Proposals : VotesOK(p)'
    BY <1>14 DEF CommitDissolve, VotesOK, AgreeInv, proposals, history, people, TypeInv, TypeOK
  <2> QED
    BY <1>14, <2>1, <2>2, AgreeKeeps DEF CommitDissolve, Missing, people, proposals, chats,
          history, TypeInv, TypeOK
<1>15. ASSUME NEW h \in Handlers, Fail(h) PROVE AgreeInv'
  <2>1. /\ Of("vote")' \subseteq Of("vote")
        /\ \A i \in Of("vote")' : request'[i] = request[i]
    BY <1>15, <1>0, EndOf DEF Fail, Of
  <2>2. \A p \in Proposals : VotesOK(p)'
    BY <1>15 DEF Fail, VotesOK, AgreeInv, proposals, history, people, TypeInv, TypeOK
  <2> QED
    BY <1>15, <2>1, <2>2, AgreeKeeps DEF Fail, Missing, people, proposals, chats, history,
          TypeInv, TypeOK
<1>17. ASSUME NEW h \in Handlers, NEW g \in Rotators, NEW c \in Chats,
      BeginRotation(h, g, c)
       PROVE AgreeInv'
  <2>1. /\ Of("vote")' \subseteq Of("vote")
        /\ \A i \in Of("vote")' : request'[i] = request[i]
    BY <1>17, <1>0, BeginOf DEF BeginRotation, Of, Rotating
  <2>2. \A p \in Proposals : VotesOK(p)'
    BY <1>17 DEF BeginRotation, VotesOK, AgreeInv, proposals, history, people, TypeInv, TypeOK
  <2> QED
    BY <1>17, <2>1, <2>2, AgreeKeeps DEF BeginRotation, Missing, people, proposals, chats, history,
          TypeInv, TypeOK
<1>18. ASSUME NEW h \in Handlers, CommitRotation(h) PROVE AgreeInv'
  <2>1. /\ Of("vote")' \subseteq Of("vote")
        /\ \A i \in Of("vote")' : request'[i] = request[i]
    BY <1>18, <1>0, EndOf DEF CommitRotation, Of
  <2>2. \A p \in Proposals : VotesOK(p)'
    BY <1>18 DEF CommitRotation, VotesOK, AgreeInv, proposals, history, people, TypeInv, TypeOK
  <2> QED
    BY <1>18, <2>1, <2>2, AgreeKeeps DEF CommitRotation, Missing, people, proposals, chats, history,
          TypeInv, TypeOK
<1>16. CASE UNCHANGED vars
  <2>1. /\ Of("vote")' \subseteq Of("vote")
        /\ \A i \in Of("vote")' : request'[i] = request[i]
    BY <1>16 DEF vars, Of
  <2>2. \A p \in Proposals : VotesOK(p)'
    BY <1>16 DEF vars, VotesOK, AgreeInv, proposals, history, people, TypeInv, TypeOK
  <2> QED
    BY <1>16, <2>1, <2>2, AgreeKeeps DEF vars, Missing, people, proposals, chats, history,
          TypeInv, TypeOK
<1> QED
  BY <1>1, <1>2, <1>3, <1>4, <1>5, <1>6, <1>7, <1>8, <1>9, <1>10, <1>11, <1>12, <1>13,
     <1>14, <1>15, <1>16, <1>17, <1>18 DEF Next

\* No chat is made before every group that was asked, and still exists, agreed.
THEOREM ChatsAgreed == Spec => []ChatsAreAgreed
<1>1. Init => AgreeInv
  BY NoneAssumption DEF Init, AgreeInv, ChatsSettled, LastVotes, VotesOK, Made, Of, Idle
<1>2. AgreeInv => ChatsAreAgreed
  BY DEF AgreeInv, ChatsSettled, ChatsAreAgreed, Missing
<1> QED
  BY <1>1, <1>2, InitType, StepType, StepAgree, PTL DEF Spec

(***************************************************************************)
(* Decisions.                                                              *)
(***************************************************************************)

\* A proposal without rows has no votes; a proposer asks itself too.
RowsOK ==
    /\ \A p \in Proposals : status[p] = "none" => proposer[p] = None
    /\ \A p \in Proposals, g \in Groups : status[p] \in {"none", "deleted"} => vote[p][g] = "absent"
    /\ \A h \in Of("propose") : request[h].group \in request[h].asked

\* The only voter on p replaces a pending vote, and knows whether it is the last.
VoterOK(p) ==
    \A h \in VotingOn(p) :
        /\ VotingOn(p) = {h}
        /\ status[p] \in {"pending", "deleted"}
        /\ status[p] = "pending" =>
               /\ vote[p][request[h].group] = "pending"
               /\ request[h].last => Pending(p) \subseteq {request[h].group}
               /\ ~request[h].last => Pending(p) \ {request[h].group} # {}

Decided(p) ==
    /\ status[p] = "pending" => Pending(p) # {}
    /\ status[p] = "approved" => \E c \in Chats : MadeOf(p) = {c}
    /\ MadeOf(p) # {} => status[p] \in {"approved", "deleted"}

DecideInv == RowsOK /\ \A p \in Proposals \ crossed : VoterOK(p) /\ Decided(p)

\* Who votes on a proposal once a request began or ended.
LEMMA VotingBegin ==
    ASSUME request \in [Handlers -> Requests], NEW h \in Handlers, NEW q, Begin(h, q)
    PROVE  /\ q.op # "vote" => \A p : VotingOn(p)' = VotingOn(p)
           /\ \A i \in Handlers : i \in Of("vote") => request'[i] = request[i]
           /\ q.op # "propose" => /\ Of("propose")' = Of("propose")
                                  /\ \A i \in Of("propose") : request'[i] = request[i]
<1>1. /\ \A i \in Handlers \ {h} : request'[i] = request[i]
      /\ h \notin Of("vote") /\ h \notin Of("propose")
      /\ q.op # "vote" => Of("vote")' = Of("vote")
      /\ q.op # "propose" => Of("propose")' = Of("propose")
  BY BeginOf
<1>2. Of("vote") \subseteq Handlers /\ Of("propose") \subseteq Handlers
  BY DEF Of
<1> QED
  BY <1>1, <1>2 DEF VotingOn

LEMMA VotingEnd ==
    ASSUME request \in [Handlers -> Requests], NEW h \in Handlers, End(h)
    PROVE  /\ \A p : VotingOn(p)' = VotingOn(p) \ {h}
           /\ \A i \in Handlers \ {h} : request'[i] = request[i]
           /\ Of("propose")' = Of("propose") \ {h}
<1>1. /\ \A i \in Handlers \ {h} : request'[i] = request[i]
      /\ Of("vote")' = Of("vote") \ {h} /\ Of("propose")' = Of("propose") \ {h}
  BY EndOf
<1>2. Of("vote") \subseteq Handlers
  BY DEF Of
<1> QED
  BY <1>1, <1>2 DEF VotingOn

\* SetVote stores the answer in a row that exists, and in no other.
LEMMA VoteSet ==
    ASSUME TypeInv, NEW p \in Proposals, NEW g \in Groups,
           NEW answer \in {"approved", "declined"}, SetVote(p, g, answer)
    PROVE  /\ \A q \in Proposals \ {p} : vote'[q] = vote[q]
           /\ \A t \in Groups \ {g} : vote'[p][t] = vote[p][t]
           /\ vote[p][g] = "absent" => vote'[p][g] = "absent"
           /\ vote[p][g] # "absent" => vote'[p][g] = answer
BY DEF SetVote, TypeInv, TypeOK

\* A proposal that a step leaves alone stays decided.
LEMMA DecideSame ==
    ASSUME NEW p, VoterOK(p), Decided(p),
           status'[p] = status[p], vote'[p] = vote[p], MadeOf(p)' = MadeOf(p),
           VotingOn(p)' \subseteq VotingOn(p),
           \A i \in VotingOn(p)' : request'[i] = request[i]
    PROVE  VoterOK(p)' /\ Decided(p)'
<1>1. Pending(p)' = Pending(p)
  BY DEF Pending
<1> QED
  BY <1>1 DEF VoterOK, Decided

\* Every step preserves how votes decide.
LEMMA StepDecide == TypeInv /\ TypeInv' /\ DecideInv /\ [Next]_vars => DecideInv'
<1> SUFFICES ASSUME TypeInv, TypeInv', DecideInv, [Next]_vars PROVE DecideInv'
  OBVIOUS
<1>0. request \in [Handlers -> Requests]
  BY DEF TypeInv, TypeOK
<1>1. ASSUME NEW g \in Joiners, Join(g) PROVE DecideInv'
  <2>1. \A p \in Proposals : /\ VotingOn(p)' \subseteq VotingOn(p)
                             /\ \A i \in VotingOn(p)' : request'[i] = request[i]
    BY <1>1 DEF Join, VotingOn, Of
  <2>2. /\ UNCHANGED <<status, proposer, vote, made, crossed>>
        /\ \A p \in Proposals : MadeOf(p)' = MadeOf(p)
    BY <1>1 DEF Join, MadeOf, proposals, chats, history
  <2>3. \A h1 \in Of("propose")' : request'[h1].group \in request'[h1].asked
    BY <1>1 DEF Join, Of, DecideInv, RowsOK, TypeInv, TypeOK
  <2>4. RowsOK'
    BY <2>2, <2>3 DEF DecideInv, RowsOK
  <2> QED
    BY <2>1, <2>2, <2>4, DecideSame DEF DecideInv
<1>2. ASSUME NEW g \in Deletable, DeleteGroup(g) PROVE DecideInv'
  <2>1. /\ UNCHANGED <<request, made, proposer>> /\ g \in Groups /\ crossed \subseteq crossed'
        /\ \A q \in Proposals : VotingOn(q)' = VotingOn(q) /\ MadeOf(q)' = MadeOf(q)
    BY <1>2 DEF DeleteGroup, chats, VotingOn, Of, MadeOf, TypeInv, TypeOK
  <2>2. \A q \in Proposals :
            /\ status'[q] = IF proposer[q] = g THEN "deleted" ELSE status[q]
            /\ \A t \in Groups : vote'[q][t] = IF t = g \/ proposer[q] = g THEN "absent"
                                               ELSE vote[q][t]
            /\ q \notin crossed' => g \notin Pending(q)
    BY <1>2 DEF DeleteGroup
  <2>3. RowsOK'
    BY <2>1, <2>2, NoneAssumption DEF DecideInv, RowsOK, Of
  <2>4. ASSUME NEW q \in Proposals \ crossed', proposer[q] = g PROVE VoterOK(q)' /\ Decided(q)'
    BY <2>1, <2>2, <2>4 DEF DecideInv, VoterOK, Decided
  <2>5. ASSUME NEW q \in Proposals \ crossed', proposer[q] # g PROVE VoterOK(q)' /\ Decided(q)'
    <3>1. Pending(q)' = Pending(q) /\ status'[q] = status[q]
      BY <2>2, <2>5 DEF Pending
    <3>2. VoterOK(q) /\ Decided(q)
      BY <2>1 DEF DecideInv
    <3>3. \A i \in VotingOn(q) : request[i].group \in Groups
      BY <1>0, OfFields DEF VotingOn, Of
    <3>4. VoterOK(q)'
      BY <3>1, <3>2, <3>3, <2>1, <2>2, <2>5 DEF VoterOK, Pending
    <3> QED
      BY <3>1, <3>2, <3>4, <2>1 DEF Decided
  <2> QED
    BY <2>3, <2>4, <2>5 DEF DecideInv
<1>3. ASSUME NEW g \in Departing, BanAdmin(g) PROVE DecideInv'
  <2>1. \A p \in Proposals : /\ VotingOn(p)' \subseteq VotingOn(p)
                             /\ \A i \in VotingOn(p)' : request'[i] = request[i]
    BY <1>3 DEF BanAdmin, VotingOn, Of
  <2>2. /\ UNCHANGED <<status, proposer, vote, made, crossed>>
        /\ \A p \in Proposals : MadeOf(p)' = MadeOf(p)
    BY <1>3 DEF BanAdmin, MadeOf, proposals, chats, history
  <2>3. \A h1 \in Of("propose")' : request'[h1].group \in request'[h1].asked
    BY <1>3 DEF BanAdmin, Of, DecideInv, RowsOK, TypeInv, TypeOK
  <2>4. RowsOK'
    BY <2>2, <2>3 DEF DecideInv, RowsOK
  <2> QED
    BY <2>1, <2>2, <2>4, DecideSame DEF DecideInv
<1>4. ASSUME NEW g \in Departing, DeleteUser(g) PROVE DecideInv'
  <2>1. \A p \in Proposals : /\ VotingOn(p)' \subseteq VotingOn(p)
                             /\ \A i \in VotingOn(p)' : request'[i] = request[i]
    BY <1>4 DEF DeleteUser, VotingOn, Of
  <2>2. /\ UNCHANGED <<status, proposer, vote, made, crossed>>
        /\ \A p \in Proposals : MadeOf(p)' = MadeOf(p)
    BY <1>4 DEF DeleteUser, MadeOf, proposals, chats, history
  <2>3. \A h1 \in Of("propose")' : request'[h1].group \in request'[h1].asked
    BY <1>4 DEF DeleteUser, Of, DecideInv, RowsOK, TypeInv, TypeOK
  <2>4. RowsOK'
    BY <2>2, <2>3 DEF DecideInv, RowsOK
  <2> QED
    BY <2>1, <2>2, <2>4, DecideSame DEF DecideInv
<1>5. ASSUME NEW h \in Handlers, NEW g \in Proposers, NEW S \in Audiences, BeginPropose(h, g, S)
       PROVE DecideInv'
  <2>1. \A p \in Proposals : /\ VotingOn(p)' \subseteq VotingOn(p)
                             /\ \A i \in VotingOn(p)' : request'[i] = request[i]
    BY <1>5, <1>0, VotingBegin, BeginOf DEF BeginPropose, VotingOn, Of, Proposing
  <2>2. /\ UNCHANGED <<status, proposer, vote, made, crossed>>
        /\ \A p \in Proposals : MadeOf(p)' = MadeOf(p)
    BY <1>5 DEF BeginPropose, MadeOf, proposals, chats, history
  <2>3. \A h1 \in Of("propose")' : request'[h1].group \in request'[h1].asked
    BY <1>5, <1>0, VotingBegin, BeginOf DEF BeginPropose, Of, DecideInv, RowsOK, TypeInv, TypeOK,
          Proposing
  <2>4. RowsOK'
    BY <2>2, <2>3 DEF DecideInv, RowsOK
  <2> QED
    BY <2>1, <2>2, <2>4, DecideSame DEF DecideInv
<1>6. ASSUME NEW h \in Handlers, NEW p \in Proposals, CommitPropose(h, p) PROVE DecideInv'
  <2>1. /\ h \in Of("propose") /\ End(h) /\ status[p] = "none" /\ UNCHANGED crossed
        /\ \A q \in Proposals \ {p} : vote'[q] = vote[q] /\ proposer'[q] = proposer[q]
        /\ \A t \in Groups : vote'[p][t] = IF t = request[h].group THEN "approved"
                                           ELSE IF t \in request[h].asked THEN "pending"
                                           ELSE "absent"
    BY <1>6 DEF CommitPropose, InsertProposal, TypeInv, TypeOK
  <2>2. /\ \A q \in Proposals : VotingOn(q)' = VotingOn(q) \ {h}
        /\ \A i \in Handlers \ {h} : request'[i] = request[i]
        /\ Of("propose")' = Of("propose") \ {h}
    BY <2>1, <1>0, VotingEnd
  <2>3. VotingOn(p) = {} \/ p \in crossed
    BY <2>1 DEF DecideInv, VoterOK
  <2>4. \A q \in Proposals : VotingOn(q)' \subseteq Handlers \ {h}
    BY <2>2 DEF VotingOn, Of
  <2>5. /\ \A q \in Proposals \ {p} : status'[q] = status[q] /\ MadeOf(q)' = MadeOf(q)
        /\ status'[p] = "pending" /\ MadeOf(p)' = MadeOf(p)
        /\ request[h].asked # {request[h].group}
    BY <1>6, NoneAssumption DEF CommitPropose, CreateChat, chats, MadeOf, TypeInv, TypeOK
  <2>6. RowsOK'
    <3>1. \A i \in Of("propose")' : i \in Of("propose") /\ request'[i] = request[i]
      BY <2>2 DEF Of
    <3> QED
      BY <3>1, <2>1, <2>5 DEF DecideInv, RowsOK
  <2>7. \A q \in Proposals \ crossed : q # p => VoterOK(q)' /\ Decided(q)'
    BY <2>1, <2>2, <2>4, <2>5, DecideSame DEF DecideInv
  <2>8. p \notin crossed => VoterOK(p)' /\ Decided(p)'
    <3>1. request[h].group \in request[h].asked /\ request[h].asked \subseteq Groups
      BY <2>1, <1>0, OfFields DEF DecideInv, RowsOK
    <3>2. Pending(p)' # {}
      BY <3>1, <2>1, <2>5 DEF Pending
    <3> QED
      BY <3>2, <2>1, <2>2, <2>3, <2>5 DEF VoterOK, Decided, DecideInv
  <2> QED
    BY <2>1, <2>6, <2>7, <2>8 DEF DecideInv
<1>7. ASSUME NEW h \in Handlers, NEW p \in Proposals, NEW c \in Chats, CommitProposeAlone(h, p, c)
       PROVE DecideInv'
  <2>1. /\ h \in Of("propose") /\ End(h) /\ status[p] = "none" /\ UNCHANGED crossed
        /\ \A q \in Proposals \ {p} : vote'[q] = vote[q] /\ proposer'[q] = proposer[q]
        /\ \A t \in Groups : vote'[p][t] = IF t = request[h].group THEN "approved"
                                           ELSE IF t \in request[h].asked THEN "pending"
                                           ELSE "absent"
    BY <1>7 DEF CommitProposeAlone, InsertProposal, TypeInv, TypeOK
  <2>2. /\ \A q \in Proposals : VotingOn(q)' = VotingOn(q) \ {h}
        /\ \A i \in Handlers \ {h} : request'[i] = request[i]
        /\ Of("propose")' = Of("propose") \ {h}
    BY <2>1, <1>0, VotingEnd
  <2>3. VotingOn(p) = {} \/ p \in crossed
    BY <2>1 DEF DecideInv, VoterOK
  <2>4. \A q \in Proposals : VotingOn(q)' \subseteq Handlers \ {h}
    BY <2>2 DEF VotingOn, Of
  <2>5. /\ \A q \in Proposals \ {p} : status'[q] = status[q] /\ MadeOf(q)' = MadeOf(q)
        /\ status'[p] = "approved" /\ MadeOf(p)' = MadeOf(p) \cup {c}
    BY <1>7, NoneAssumption DEF CommitProposeAlone, CreateChat, chats, MadeOf, TypeInv, TypeOK
  <2>6. RowsOK'
    <3>1. \A i \in Of("propose")' : i \in Of("propose") /\ request'[i] = request[i]
      BY <2>2 DEF Of
    <3> QED
      BY <3>1, <2>1, <2>5 DEF DecideInv, RowsOK
  <2>7. \A q \in Proposals \ crossed : q # p => VoterOK(q)' /\ Decided(q)'
    BY <2>1, <2>2, <2>4, <2>5, DecideSame DEF DecideInv
  <2>8. p \notin crossed => VoterOK(p)' /\ Decided(p)'
    <3>1. p \notin crossed => MadeOf(p) = {}
      BY <2>1 DEF DecideInv, Decided
    <3> QED
      BY <3>1, <2>1, <2>2, <2>3, <2>5 DEF VoterOK, Decided
  <2> QED
    BY <2>1, <2>6, <2>7, <2>8 DEF DecideInv
<1>8. ASSUME NEW h \in Handlers, NEW p \in Proposals, NEW g \in Groups, NEW yes \in BOOLEAN,
      BeginVote(h, p, g, yes)
       PROVE DecideInv'
  <2>1. /\ Begin(h, Voting(p, g, yes)) /\ status[p] = "pending" /\ vote[p][g] = "pending"
        /\ crossed' = IF VotingOn(p) # {} THEN crossed \cup {p} ELSE crossed
        /\ UNCHANGED <<status, proposer, vote, made>>
    BY <1>8 DEF BeginVote, proposals, chats
  <2>2. /\ request'[h] = Voting(p, g, yes) /\ h \notin Of("vote")
        /\ Of("vote")' = Of("vote") \cup {h} /\ Of("propose")' = Of("propose")
        /\ \A i \in Handlers \ {h} : request'[i] = request[i]
        /\ h \notin Of("propose")
    BY <2>1, <1>0, BeginOf DEF Voting
  <2>3. /\ request'[h].proposal = p /\ request'[h].group = g
        /\ request'[h].last = (Pending(p) \ {g} = {})
    BY <2>2 DEF Voting
  <2>4. /\ \A q \in Proposals \ {p} : VotingOn(q)' = VotingOn(q)
        /\ VotingOn(p)' = VotingOn(p) \cup {h}
        /\ \A q \in Proposals : VotingOn(q) \subseteq Handlers \ {h} /\ MadeOf(q)' = MadeOf(q)
    BY <2>1, <2>2, <2>3 DEF VotingOn, Of, MadeOf
  <2>5. RowsOK'
    BY <2>1, <2>2 DEF DecideInv, RowsOK, Of
  <2>6. \A q \in Proposals \ crossed : q # p => VoterOK(q)' /\ Decided(q)'
    BY <2>1, <2>2, <2>4, DecideSame DEF DecideInv
  <2>7. p \notin crossed' => VoterOK(p)' /\ Decided(p)'
    <3>1. Pending(p)' = Pending(p)
      BY <2>1 DEF Pending
    <3>2. p \notin crossed' => p \notin crossed /\ VotingOn(p)' = {h}
      BY <2>1, <2>4
    <3>3. p \notin crossed' => VoterOK(p)'
      <4>1. status'[p] = "pending" /\ vote'[p][g] = "pending"
        BY <2>1
      <4>2. (request'[h].last <=> Pending(p)' \subseteq {g}) /\ request'[h].group = g
        BY <3>1, <2>3
      <4> QED
        BY <3>2, <4>1, <4>2 DEF VoterOK
    <3> QED
      BY <3>1, <3>2, <3>3, <2>1, <2>4 DEF DecideInv, Decided
  <2> QED
    BY <2>1, <2>5, <2>6, <2>7 DEF DecideInv
<1>9. ASSUME NEW h \in Handlers, CommitDecline(h) PROVE DecideInv'
  <2>0. h \in Of("vote")
    BY <1>9 DEF CommitDecline
  <2> SUFFICES ASSUME NEW p \in Proposals, NEW g \in Groups,
                      p = request[h].proposal, g = request[h].group
               PROVE  DecideInv'
    BY <2>0, <1>0, OfFields
  <2>1. /\ h \in Of("vote") /\ h \in VotingOn(p) /\ h \notin Of("propose")
    BY <2>0 DEF VotingOn, Of
  <2>2. /\ \A q \in Proposals : VotingOn(q)' = VotingOn(q) \ {h}
        /\ \A i \in Handlers \ {h} : request'[i] = request[i]
        /\ Of("propose")' = Of("propose")
    BY <1>9, <2>1, <1>0, VotingEnd DEF CommitDecline
  <2>3. /\ \A q \in Proposals \ {p} : status'[q] = status[q] /\ vote'[q] = vote[q]
        /\ \A t \in Groups \ {g} : vote'[p][t] = vote[p][t]
        /\ vote[p][g] = "absent" => vote'[p][g] = "absent"
        /\ vote[p][g] # "absent" => vote'[p][g] = "declined"
        /\ status[p] # "deleted" => status'[p] = "declined"
        /\ status[p] = "deleted" => status'[p] = "deleted"
        /\ UNCHANGED <<proposer, crossed>>
    <3>1. SetVote(p, g, "declined") /\ UNCHANGED <<proposer, crossed>>
      BY <1>9, <2>1 DEF CommitDecline, history
    <3>2. /\ \A q \in Proposals \ {p} : status'[q] = status[q]
          /\ status[p] # "deleted" => status'[p] = "declined"
          /\ status[p] = "deleted" => status'[p] = "deleted"
      BY <1>9, <2>1 DEF CommitDecline, SetStatus, TypeInv, TypeOK
    <3>3. TypeInv /\ "declined" \in {"approved", "declined"}
      OBVIOUS
    <3> QED
      BY <3>1, <3>2, <3>3, VoteSet
  <2>4. /\ \A q \in Proposals \ {p} : MadeOf(q)' = MadeOf(q)
        /\ MadeOf(p)' = MadeOf(p)
    BY <1>9, <2>1, NoneAssumption DEF CommitDecline, CreateChat, chats, MadeOf, TypeInv, TypeOK
  <2>5. \A q \in Proposals : VotingOn(q)' \subseteq Handlers \ {h}
    BY <2>2 DEF VotingOn, Of
  <2>6. p \notin crossed => VotingOn(p) = {h} /\ VotingOn(p)' = {}
    BY <2>1, <2>2 DEF DecideInv, VoterOK
  <2>7. /\ \A i \in Of("propose")' : i \in Of("propose") /\ request'[i] = request[i]
        /\ status[p] # "none" \/ p \in crossed \/ vote[p][g] = "absent"
    BY <1>9, <2>1, <2>2 DEF CommitDecline, Of, DecideInv, RowsOK
  <2>8. RowsOK'
    BY <2>1, <2>2, <2>3, <2>7 DEF DecideInv, RowsOK
  <2>9. \A q \in Proposals \ crossed : q # p => VoterOK(q)' /\ Decided(q)'
    BY <2>2, <2>3, <2>4, <2>5, DecideSame DEF DecideInv
  <2>10. p \notin crossed => VoterOK(p)' /\ Decided(p)'
    <3>1. status[p] \in {"pending", "deleted"} \/ p \in crossed
      BY <2>1 DEF DecideInv, VoterOK
    <3>2. p \notin crossed => VoterOK(p)'
      BY <2>6 DEF VoterOK
    <3> QED
      BY <3>1, <3>2, <2>1, <2>3, <2>4 DEF DecideInv, Decided
  <2> QED
    BY <2>1, <2>3, <2>8, <2>9, <2>10 DEF DecideInv
<1>10. ASSUME NEW h \in Handlers, CommitVote(h) PROVE DecideInv'
  <2>0. h \in Of("vote")
    BY <1>10 DEF CommitVote
  <2> SUFFICES ASSUME NEW p \in Proposals, NEW g \in Groups,
                      p = request[h].proposal, g = request[h].group
               PROVE  DecideInv'
    BY <2>0, <1>0, OfFields
  <2>1. /\ h \in Of("vote") /\ h \in VotingOn(p) /\ h \notin Of("propose")
    BY <2>0 DEF VotingOn, Of
  <2>2. /\ \A q \in Proposals : VotingOn(q)' = VotingOn(q) \ {h}
        /\ \A i \in Handlers \ {h} : request'[i] = request[i]
        /\ Of("propose")' = Of("propose")
    BY <1>10, <2>1, <1>0, VotingEnd DEF CommitVote
  <2>3. /\ \A q \in Proposals \ {p} : status'[q] = status[q] /\ vote'[q] = vote[q]
        /\ \A t \in Groups \ {g} : vote'[p][t] = vote[p][t]
        /\ vote[p][g] = "absent" => vote'[p][g] = "absent"
        /\ vote[p][g] # "absent" => vote'[p][g] = "approved"
        /\ status'[p] = status[p]
        /\ UNCHANGED <<proposer, crossed>>
    <3>1. SetVote(p, g, "approved") /\ UNCHANGED <<proposer, crossed>>
      BY <1>10, <2>1 DEF CommitVote, history
    <3>2. /\ \A q \in Proposals \ {p} : status'[q] = status[q]
          /\ status'[p] = status[p]
      BY <1>10, <2>1 DEF CommitVote, SetStatus, TypeInv, TypeOK
    <3>3. TypeInv /\ "approved" \in {"approved", "declined"}
      OBVIOUS
    <3> QED
      BY <3>1, <3>2, <3>3, VoteSet
  <2>4. /\ \A q \in Proposals \ {p} : MadeOf(q)' = MadeOf(q)
        /\ MadeOf(p)' = MadeOf(p)
    BY <1>10, <2>1, NoneAssumption DEF CommitVote, CreateChat, chats, MadeOf, TypeInv, TypeOK
  <2>5. \A q \in Proposals : VotingOn(q)' \subseteq Handlers \ {h}
    BY <2>2 DEF VotingOn, Of
  <2>6. p \notin crossed => VotingOn(p) = {h} /\ VotingOn(p)' = {}
    BY <2>1, <2>2 DEF DecideInv, VoterOK
  <2>7. /\ \A i \in Of("propose")' : i \in Of("propose") /\ request'[i] = request[i]
        /\ ~request[h].last \/ vote[p][g] \in {"absent", "approved"}
    BY <1>10, <2>1, <2>2 DEF CommitVote, Of, DecideInv, RowsOK
  <2>8. RowsOK'
    BY <2>1, <2>2, <2>3, <2>7 DEF DecideInv, RowsOK
  <2>9. \A q \in Proposals \ crossed : q # p => VoterOK(q)' /\ Decided(q)'
    BY <2>2, <2>3, <2>4, <2>5, DecideSame DEF DecideInv
  <2>10. p \notin crossed => VoterOK(p)' /\ Decided(p)'
    <3>1. ASSUME p \notin crossed, status[p] = "pending" PROVE Pending(p)' # {}
      <4>1. vote[p][g] = "pending" /\ Pending(p) \ {g} # {}
        BY <2>1, <2>7, <3>1 DEF DecideInv, VoterOK
      <4> QED
        BY <4>1, <2>3 DEF Pending
    <3>2. p \notin crossed => VoterOK(p)'
      BY <2>6 DEF VoterOK
    <3> QED
      BY <3>1, <3>2, <2>1, <2>3, <2>4 DEF DecideInv, Decided
  <2> QED
    BY <2>1, <2>3, <2>8, <2>9, <2>10 DEF DecideInv
<1>11. ASSUME NEW h \in Handlers, NEW c \in Chats, CommitApproval(h, c) PROVE DecideInv'
  <2>0. h \in Of("vote")
    BY <1>11 DEF CommitApproval
  <2> SUFFICES ASSUME NEW p \in Proposals, NEW g \in Groups,
                      p = request[h].proposal, g = request[h].group
               PROVE  DecideInv'
    BY <2>0, <1>0, OfFields
  <2>1. /\ h \in Of("vote") /\ h \in VotingOn(p) /\ h \notin Of("propose")
    BY <2>0 DEF VotingOn, Of
  <2>2. /\ \A q \in Proposals : VotingOn(q)' = VotingOn(q) \ {h}
        /\ \A i \in Handlers \ {h} : request'[i] = request[i]
        /\ Of("propose")' = Of("propose")
    BY <1>11, <2>1, <1>0, VotingEnd DEF CommitApproval
  <2>3. /\ \A q \in Proposals \ {p} : status'[q] = status[q] /\ vote'[q] = vote[q]
        /\ \A t \in Groups \ {g} : vote'[p][t] = vote[p][t]
        /\ vote[p][g] = "absent" => vote'[p][g] = "absent"
        /\ vote[p][g] # "absent" => vote'[p][g] = "approved"
        /\ status[p] # "deleted" => status'[p] = "approved"
        /\ status[p] = "deleted" => status'[p] = "deleted"
        /\ UNCHANGED <<proposer, crossed>>
    <3>1. SetVote(p, g, "approved") /\ UNCHANGED <<proposer, crossed>>
      BY <1>11, <2>1 DEF CommitApproval, history
    <3>2. /\ \A q \in Proposals \ {p} : status'[q] = status[q]
          /\ status[p] # "deleted" => status'[p] = "approved"
          /\ status[p] = "deleted" => status'[p] = "deleted"
      BY <1>11, <2>1 DEF CommitApproval, SetStatus, TypeInv, TypeOK
    <3>3. TypeInv /\ "approved" \in {"approved", "declined"}
      OBVIOUS
    <3> QED
      BY <3>1, <3>2, <3>3, VoteSet
  <2>4. /\ \A q \in Proposals \ {p} : MadeOf(q)' = MadeOf(q)
        /\ MadeOf(p)' = MadeOf(p) \cup {c}
    BY <1>11, <2>1, NoneAssumption DEF CommitApproval, CreateChat, chats, MadeOf, TypeInv, TypeOK
  <2>5. \A q \in Proposals : VotingOn(q)' \subseteq Handlers \ {h}
    BY <2>2 DEF VotingOn, Of
  <2>6. p \notin crossed => VotingOn(p) = {h} /\ VotingOn(p)' = {}
    BY <2>1, <2>2 DEF DecideInv, VoterOK
  <2>7. /\ \A i \in Of("propose")' : i \in Of("propose") /\ request'[i] = request[i]
        /\ vote[p][g] # "absent"
    BY <1>11, <2>1, <2>2 DEF CommitApproval, Of, DecideInv, RowsOK
  <2>8. RowsOK'
    BY <2>1, <2>2, <2>3, <2>7 DEF DecideInv, RowsOK
  <2>9. \A q \in Proposals \ crossed : q # p => VoterOK(q)' /\ Decided(q)'
    BY <2>2, <2>3, <2>4, <2>5, DecideSame DEF DecideInv
  <2>10. p \notin crossed => VoterOK(p)' /\ Decided(p)'
    <3>1. status[p] = "pending" \/ p \in crossed
      BY <2>1, <2>7 DEF DecideInv, RowsOK, VoterOK
    <3>2. p \notin crossed => VoterOK(p)' /\ MadeOf(p) = {}
      BY <3>1, <2>1, <2>6 DEF VoterOK, DecideInv, Decided
    <3> QED
      BY <3>1, <3>2, <2>1, <2>3, <2>4 DEF Decided
  <2> QED
    BY <2>1, <2>3, <2>8, <2>9, <2>10 DEF DecideInv
<1>12. ASSUME NEW h \in Handlers, NEW g \in Leavers, BeginLeave(h, g) PROVE DecideInv'
  <2>1. \A p \in Proposals : /\ VotingOn(p)' \subseteq VotingOn(p)
                             /\ \A i \in VotingOn(p)' : request'[i] = request[i]
    BY <1>12, <1>0, VotingBegin, BeginOf DEF BeginLeave, VotingOn, Of, Leaving
  <2>2. /\ UNCHANGED <<status, proposer, vote, made, crossed>>
        /\ \A p \in Proposals : MadeOf(p)' = MadeOf(p)
    BY <1>12 DEF BeginLeave, MadeOf, proposals, chats, history
  <2>3. \A h1 \in Of("propose")' : request'[h1].group \in request'[h1].asked
    BY <1>12, <1>0, VotingBegin DEF BeginLeave, Leaving, DecideInv, RowsOK
  <2>4. RowsOK'
    BY <2>2, <2>3 DEF DecideInv, RowsOK
  <2> QED
    BY <2>1, <2>2, <2>4, DecideSame DEF DecideInv
<1>13. ASSUME NEW h \in Handlers, CommitLeave(h) PROVE DecideInv'
  <2>1. \A p \in Proposals : /\ VotingOn(p)' \subseteq VotingOn(p)
                             /\ \A i \in VotingOn(p)' : request'[i] = request[i]
    BY <1>13, <1>0, VotingEnd DEF CommitLeave, VotingOn, Of
  <2>2. /\ UNCHANGED <<status, proposer, vote, made, crossed>>
        /\ \A p \in Proposals : MadeOf(p)' = MadeOf(p)
    BY <1>13 DEF CommitLeave, MadeOf, proposals, chats, history
  <2>3. \A h1 \in Of("propose")' : request'[h1].group \in request'[h1].asked
    BY <1>13, <1>0, VotingEnd DEF CommitLeave, Of, DecideInv, RowsOK, TypeInv, TypeOK
  <2>4. RowsOK'
    BY <2>2, <2>3 DEF DecideInv, RowsOK
  <2> QED
    BY <2>1, <2>2, <2>4, DecideSame DEF DecideInv
<1>14. ASSUME NEW h \in Handlers, CommitDissolve(h) PROVE DecideInv'
  <2>1. /\ End(h) /\ UNCHANGED <<proposer, crossed>>
        /\ \A q \in Proposals :
               /\ status'[q] = IF status[q] = "none" THEN "none" ELSE "deleted"
               /\ MadeOf(q)' = {}
               /\ \A g \in Groups : vote'[q][g] = "absent"
    BY <1>14, NoneAssumption DEF CommitDissolve, MadeOf, history
  <2>2. /\ \A q \in Proposals : VotingOn(q)' = VotingOn(q) \ {h}
        /\ \A i \in Handlers \ {h} : request'[i] = request[i]
        /\ Of("propose")' = Of("propose") \ {h}
    BY <2>1, <1>0, VotingEnd
  <2>3. RowsOK'
    BY <2>1, <2>2 DEF DecideInv, RowsOK, Of
  <2> QED
    BY <2>1, <2>2, <2>3 DEF DecideInv, VoterOK, Decided
<1>15. ASSUME NEW h \in Handlers, Fail(h) PROVE DecideInv'
  <2>1. \A p \in Proposals : /\ VotingOn(p)' \subseteq VotingOn(p)
                             /\ \A i \in VotingOn(p)' : request'[i] = request[i]
    BY <1>15, <1>0, VotingEnd DEF Fail, VotingOn, Of
  <2>2. /\ UNCHANGED <<status, proposer, vote, made, crossed>>
        /\ \A p \in Proposals : MadeOf(p)' = MadeOf(p)
    BY <1>15 DEF Fail, MadeOf, proposals, chats, history
  <2>3. \A h1 \in Of("propose")' : request'[h1].group \in request'[h1].asked
    BY <1>15, <1>0, VotingEnd DEF Fail, Of, DecideInv, RowsOK, TypeInv, TypeOK
  <2>4. RowsOK'
    BY <2>2, <2>3 DEF DecideInv, RowsOK
  <2> QED
    BY <2>1, <2>2, <2>4, DecideSame DEF DecideInv
<1>17. ASSUME NEW h \in Handlers, NEW g \in Rotators, NEW c \in Chats,
      BeginRotation(h, g, c)
       PROVE DecideInv'
  <2>1. \A p \in Proposals : /\ VotingOn(p)' \subseteq VotingOn(p)
                             /\ \A i \in VotingOn(p)' : request'[i] = request[i]
    BY <1>17, <1>0, VotingBegin, BeginOf DEF BeginRotation, VotingOn, Of, Rotating
  <2>2. /\ UNCHANGED <<status, proposer, vote, made, crossed>>
        /\ \A p \in Proposals : MadeOf(p)' = MadeOf(p)
    BY <1>17 DEF BeginRotation, MadeOf, proposals, chats, history
  <2>3. \A h1 \in Of("propose")' : request'[h1].group \in request'[h1].asked
    BY <1>17, <1>0, VotingBegin DEF BeginRotation, Rotating, DecideInv, RowsOK
  <2>4. RowsOK'
    BY <2>2, <2>3 DEF DecideInv, RowsOK
  <2> QED
    BY <2>1, <2>2, <2>4, DecideSame DEF DecideInv
<1>18. ASSUME NEW h \in Handlers, CommitRotation(h) PROVE DecideInv'
  <2>1. \A p \in Proposals : /\ VotingOn(p)' \subseteq VotingOn(p)
                             /\ \A i \in VotingOn(p)' : request'[i] = request[i]
    <3>1. /\ \A p : VotingOn(p)' = VotingOn(p) \ {h}
          /\ \A i \in Handlers \ {h} : request'[i] = request[i]
      BY <1>18, <1>0, VotingEnd DEF CommitRotation
    <3>2. \A p : VotingOn(p) \subseteq Handlers
      BY DEF VotingOn, Of
    <3> QED
      BY <3>1, <3>2
  <2>2. /\ UNCHANGED <<status, proposer, vote, made, crossed>>
        /\ \A p \in Proposals : MadeOf(p)' = MadeOf(p)
    BY <1>18 DEF CommitRotation, MadeOf, proposals, chats, history
  <2>3. \A h1 \in Of("propose")' : request'[h1].group \in request'[h1].asked
    BY <1>18, <1>0, VotingEnd DEF CommitRotation, Of, DecideInv, RowsOK, TypeInv, TypeOK
  <2>4. RowsOK'
    BY <2>2, <2>3 DEF DecideInv, RowsOK
  <2> QED
    BY <2>1, <2>2, <2>4, DecideSame DEF DecideInv
<1>16. CASE UNCHANGED vars
  <2>1. \A p \in Proposals : /\ VotingOn(p)' \subseteq VotingOn(p)
                             /\ \A i \in VotingOn(p)' : request'[i] = request[i]
    BY <1>16 DEF vars, VotingOn, Of
  <2>2. /\ UNCHANGED <<status, proposer, vote, made, crossed>>
        /\ \A p \in Proposals : MadeOf(p)' = MadeOf(p)
    BY <1>16 DEF vars, MadeOf, proposals, chats, history
  <2>3. \A h1 \in Of("propose")' : request'[h1].group \in request'[h1].asked
    BY <1>16 DEF vars, Of, DecideInv, RowsOK, TypeInv, TypeOK
  <2>4. RowsOK'
    BY <2>2, <2>3 DEF DecideInv, RowsOK
  <2> QED
    BY <2>1, <2>2, <2>4, DecideSame DEF DecideInv
<1> QED
  BY <1>1, <1>2, <1>3, <1>4, <1>5, <1>6, <1>7, <1>8, <1>9, <1>10, <1>11, <1>12, <1>13,
     <1>14, <1>15, <1>16, <1>17, <1>18 DEF Next

\* Votes that do not overlap decide on a proposal, and make its chat once.
THEOREM VotesDecided == Spec => []VotesDecide
<1>1. Init => DecideInv
  BY NoneAssumption DEF Init, DecideInv, RowsOK, VoterOK, VotingOn, Decided, MadeOf, Of, Idle
<1>2. DecideInv => VotesDecide
  BY DEF DecideInv, Decided, VotesDecide
<1> QED
  BY <1>1, <1>2, InitType, StepType, StepDecide, PTL DEF Spec

(***************************************************************************)
(* The limit.                                                              *)
(***************************************************************************)

\* With one proposal open at a time, made while there was room for a chat,
\* and one voter on it, there is still room when it is approved.
Single ==
    /\ \A i, k \in Of("propose") : i = k
    /\ Of("propose") # {} => Open = {}
    /\ \A p, q \in Open : p = q
    /\ \A p \in Proposals : \A i, k \in VotingOn(p) : i = k

Room == Of("propose") # {} \/ Open # {} => Cardinality(Made) < ChatLimit

LimitInv == rivals \/ (Single /\ Room /\ Cardinality(Made) <= ChatLimit)

LEMMA MadeFinite == IsFiniteSet(Made) /\ Cardinality(Made) \in Nat
<1>1. Made \subseteq Chats
  BY DEF Made
<1> QED
  BY <1>1, ChatsAssumption, FS_Subset, FS_CardinalityType

\* A chat that is made is one more.
LEMMA MadeOne ==
    ASSUME TypeInv, NEW c \in Chats, NEW p \in Proposals, made[c] = None,
           made' = [made EXCEPT ![c] = p]
    PROVE  Cardinality(Made') = Cardinality(Made) + 1
<1>1. Made' = Made \cup {c} /\ c \notin Made
  BY NoneAssumption DEF Made, TypeInv, TypeOK
<1> QED
  BY <1>1, MadeFinite, FS_AddElement

\* A step that opens nothing and makes no chat.
LEMMA LimitKeeps ==
    ASSUME LimitInv, rivals => rivals', Made' = Made,
           Of("propose")' \subseteq Of("propose"),
           \A p \in Proposals : VotingOn(p)' \subseteq VotingOn(p),
           \A p \in Proposals : status'[p] = "pending" => status[p] = "pending"
    PROVE  LimitInv'
<1>1. Open' \subseteq Open
  BY DEF Open
<1>2. Single => Single'
  BY <1>1 DEF Single
<1>3. Room => Room'
  BY <1>1 DEF Room
<1> QED
  BY <1>2, <1>3 DEF LimitInv

\* Every step preserves the limit.
LEMMA StepLimit == TypeInv /\ LimitInv /\ [Next]_vars => LimitInv'
<1> SUFFICES ASSUME TypeInv, LimitInv, [Next]_vars PROVE LimitInv'
  OBVIOUS
<1>0. request \in [Handlers -> Requests]
  BY DEF TypeInv, TypeOK
<1>1. ASSUME NEW g \in Joiners, Join(g) PROVE LimitInv'
  <2>1. /\ Of("propose")' \subseteq Of("propose")
        /\ \A p \in Proposals : VotingOn(p)' \subseteq VotingOn(p)
    BY <1>1 DEF Join, VotingOn, Of
  <2>2. /\ rivals => rivals'
        /\ Made' = Made
        /\ \A p \in Proposals : status'[p] = "pending" => status[p] = "pending"
    BY <1>1 DEF Join, Made, people, proposals, chats, history
  <2> QED
    BY <2>1, <2>2, LimitKeeps
<1>2. ASSUME NEW g \in Deletable, DeleteGroup(g) PROVE LimitInv'
  <2>1. /\ Of("propose")' \subseteq Of("propose")
        /\ \A p \in Proposals : VotingOn(p)' \subseteq VotingOn(p)
    BY <1>2 DEF DeleteGroup, VotingOn, Of
  <2>2. /\ rivals => rivals'
        /\ Made' = Made
        /\ \A p \in Proposals : status'[p] = "pending" => status[p] = "pending"
    BY <1>2 DEF DeleteGroup, Made, people, proposals, chats, history
  <2> QED
    BY <2>1, <2>2, LimitKeeps
<1>3. ASSUME NEW g \in Departing, BanAdmin(g) PROVE LimitInv'
  <2>1. /\ Of("propose")' \subseteq Of("propose")
        /\ \A p \in Proposals : VotingOn(p)' \subseteq VotingOn(p)
    BY <1>3 DEF BanAdmin, VotingOn, Of
  <2>2. /\ rivals => rivals'
        /\ Made' = Made
        /\ \A p \in Proposals : status'[p] = "pending" => status[p] = "pending"
    BY <1>3 DEF BanAdmin, Made, people, proposals, chats, history
  <2> QED
    BY <2>1, <2>2, LimitKeeps
<1>4. ASSUME NEW g \in Departing, DeleteUser(g) PROVE LimitInv'
  <2>1. /\ Of("propose")' \subseteq Of("propose")
        /\ \A p \in Proposals : VotingOn(p)' \subseteq VotingOn(p)
    BY <1>4 DEF DeleteUser, VotingOn, Of
  <2>2. /\ rivals => rivals'
        /\ Made' = Made
        /\ \A p \in Proposals : status'[p] = "pending" => status[p] = "pending"
    BY <1>4 DEF DeleteUser, Made, people, proposals, chats, history
  <2> QED
    BY <2>1, <2>2, LimitKeeps
<1>5. ASSUME NEW h \in Handlers, NEW g \in Proposers, NEW S \in Audiences, BeginPropose(h, g, S)
       PROVE LimitInv'
  <2> SUFFICES ASSUME ~rivals' PROVE LimitInv'
    BY DEF LimitInv
  <2>1. /\ Begin(h, Proposing(g, S)) /\ Cardinality(Made) < ChatLimit
        /\ ~rivals /\ Open = {} /\ Of("propose") = {}
        /\ UNCHANGED <<status, made>>
    BY <1>5 DEF BeginPropose, proposals, chats
  <2>2. /\ Of("propose")' = {h} /\ \A p \in Proposals : VotingOn(p)' = VotingOn(p)
    BY <2>1, <1>0, BeginOf, VotingBegin DEF Proposing
  <2>3. Open' = Open /\ Made' = Made
    BY <2>1, <2>2 DEF Open, Made
  <2>4. Single'
    BY <2>1, <2>2, <2>3 DEF Single, LimitInv
  <2>5. Room' /\ Cardinality(Made') <= ChatLimit
    BY <2>1, <2>3 DEF Room, LimitInv
  <2> QED
    BY <2>4, <2>5 DEF LimitInv
<1>6. ASSUME NEW h \in Handlers, NEW p \in Proposals, CommitPropose(h, p) PROVE LimitInv'
  <2> SUFFICES ASSUME ~rivals' PROVE LimitInv'
    BY DEF LimitInv
  <2>1. /\ h \in Of("propose") /\ End(h) /\ status[p] = "none" /\ ~rivals
        /\ status' = [status EXCEPT ![p] = "pending"]
    BY <1>6 DEF CommitPropose, InsertProposal
  <2>2. Single /\ Room
    BY <2>1 DEF LimitInv
  <2>3. /\ Of("propose")' = {} /\ Open = {} /\ Cardinality(Made) < ChatLimit
        /\ \A q \in Proposals : VotingOn(q) = {} /\ VotingOn(q)' = {}
    BY <2>1, <2>2, <1>0, VotingEnd DEF Single, Room, Open
  <2>4. Open' = {p}
    BY <2>1, <2>3 DEF Open, TypeInv, TypeOK
  <2>5. Made' = Made
    BY <1>6 DEF CommitPropose, chats, Made
  <2>6. Single'
    BY <2>3, <2>4 DEF Single
  <2>7. Room' /\ Cardinality(Made') <= ChatLimit
    BY <2>3, <2>4, <2>5, MadeFinite, ChatsAssumption DEF Room
  <2> QED
    BY <2>6, <2>7 DEF LimitInv
<1>7. ASSUME NEW h \in Handlers, NEW p \in Proposals, NEW c \in Chats, CommitProposeAlone(h, p, c)
       PROVE LimitInv'
  <2> SUFFICES ASSUME ~rivals' PROVE LimitInv'
    BY DEF LimitInv
  <2>1. /\ h \in Of("propose") /\ End(h) /\ status[p] = "none" /\ ~rivals
        /\ status' = [status EXCEPT ![p] = "approved"]
    BY <1>7 DEF CommitProposeAlone, InsertProposal
  <2>2. Single /\ Room
    BY <2>1 DEF LimitInv
  <2>3. /\ Of("propose")' = {} /\ Open = {} /\ Cardinality(Made) < ChatLimit
        /\ \A q \in Proposals : VotingOn(q) = {} /\ VotingOn(q)' = {}
    BY <2>1, <2>2, <1>0, VotingEnd DEF Single, Room, Open
  <2>4. Open' = {}
    BY <2>1, <2>3 DEF Open, TypeInv, TypeOK
  <2>5. Cardinality(Made') = Cardinality(Made) + 1
    BY <1>7, MadeOne DEF CommitProposeAlone, CreateChat
  <2>6. Single'
    BY <2>3, <2>4 DEF Single
  <2>7. Room' /\ Cardinality(Made') <= ChatLimit
    BY <2>3, <2>4, <2>5, MadeFinite, ChatsAssumption DEF Room
  <2> QED
    BY <2>6, <2>7 DEF LimitInv
<1>8. ASSUME NEW h \in Handlers, NEW p \in Proposals, NEW g \in Groups, NEW yes \in BOOLEAN,
      BeginVote(h, p, g, yes)
       PROVE LimitInv'
  <2> SUFFICES ASSUME ~rivals' PROVE LimitInv'
    BY DEF LimitInv
  <2>1. /\ Begin(h, Voting(p, g, yes)) /\ ~rivals /\ VotingOn(p) = {} /\ status[p] = "pending"
        /\ UNCHANGED <<status, made>>
    BY <1>8 DEF BeginVote, proposals, chats
  <2>2. /\ Of("propose")' = Of("propose") /\ Of("vote")' = Of("vote") \cup {h}
        /\ h \notin Of("vote")
        /\ \A i \in Handlers \ {h} : request'[i] = request[i]
        /\ request'[h].proposal = p
    BY <2>1, <1>0, BeginOf DEF Voting
  <2>3. VotingOn(p)' = {h} /\ \A q \in Proposals \ {p} : VotingOn(q)' = VotingOn(q)
    BY <2>1, <2>2 DEF VotingOn, Of
  <2>4. Open' = Open /\ Made' = Made
    BY <2>1, <2>3 DEF Open, Made
  <2>5. Single'
    BY <2>1, <2>2, <2>3, <2>4 DEF Single, LimitInv
  <2>6. Room' /\ Cardinality(Made') <= ChatLimit
    BY <2>1, <2>2, <2>4 DEF Room, LimitInv
  <2> QED
    BY <2>5, <2>6 DEF LimitInv
<1>9. ASSUME NEW h \in Handlers, CommitDecline(h) PROVE LimitInv'
  <2>1. /\ Of("propose")' \subseteq Of("propose")
        /\ \A p \in Proposals : VotingOn(p)' \subseteq VotingOn(p)
    BY <1>9, <1>0, VotingEnd DEF CommitDecline
  <2>2. /\ rivals => rivals'
        /\ Made' = Made
        /\ \A p \in Proposals : status'[p] = "pending" => status[p] = "pending"
    BY <1>9 DEF CommitDecline, Made, people, proposals, chats, history, SetStatus, TypeInv, TypeOK
  <2> QED
    BY <2>1, <2>2, LimitKeeps
<1>10. ASSUME NEW h \in Handlers, CommitVote(h) PROVE LimitInv'
  <2>1. /\ Of("propose")' \subseteq Of("propose")
        /\ \A p \in Proposals : VotingOn(p)' \subseteq VotingOn(p)
    BY <1>10, <1>0, VotingEnd DEF CommitVote
  <2>2. /\ rivals => rivals'
        /\ Made' = Made
        /\ \A p \in Proposals : status'[p] = "pending" => status[p] = "pending"
    BY <1>10 DEF CommitVote, Made, people, proposals, chats, history
  <2> QED
    BY <2>1, <2>2, LimitKeeps
<1>11. ASSUME NEW h \in Handlers, NEW c \in Chats, CommitApproval(h, c) PROVE LimitInv'
  <2> SUFFICES ASSUME ~rivals' PROVE LimitInv'
    BY DEF LimitInv
  <2>0. h \in Of("vote") /\ End(h) /\ ~rivals
    BY <1>11 DEF CommitApproval
  <2> SUFFICES ASSUME NEW p \in Proposals, p = request[h].proposal PROVE LimitInv'
    BY <2>0, <1>0, OfFields
  <2>1. /\ SetStatus(p, "approved")
        /\ made[c] = None /\ made' = [made EXCEPT ![c] = p]
    BY <1>11 DEF CommitApproval, CreateChat
  <2>2. Single /\ Room /\ h \in VotingOn(p) /\ p \in Open
    BY <2>0 DEF LimitInv, VotingOn, Open
  <2>3. /\ Of("propose") = {} /\ Of("propose")' = {} /\ Open = {p}
        /\ Cardinality(Made) < ChatLimit
        /\ VotingOn(p)' = {} /\ \A q \in Proposals : VotingOn(q)' = VotingOn(q) \ {h}
    BY <2>0, <2>2, <1>0, VotingEnd DEF Single, Room
  <2>4. Open' = {}
    BY <2>1, <2>3 DEF Open, SetStatus, TypeInv, TypeOK
  <2>5. Cardinality(Made') = Cardinality(Made) + 1
    BY <2>1, MadeOne
  <2>6. Single'
    BY <2>2, <2>3, <2>4 DEF Single
  <2>7. Room' /\ Cardinality(Made') <= ChatLimit
    BY <2>3, <2>4, <2>5, MadeFinite, ChatsAssumption DEF Room
  <2> QED
    BY <2>6, <2>7 DEF LimitInv
<1>12. ASSUME NEW h \in Handlers, NEW g \in Leavers, BeginLeave(h, g) PROVE LimitInv'
  <2>1. /\ Of("propose")' \subseteq Of("propose")
        /\ \A p \in Proposals : VotingOn(p)' \subseteq VotingOn(p)
    BY <1>12, <1>0, VotingBegin DEF BeginLeave, Leaving
  <2>2. /\ rivals => rivals'
        /\ Made' = Made
        /\ \A p \in Proposals : status'[p] = "pending" => status[p] = "pending"
    BY <1>12 DEF BeginLeave, Made, people, proposals, chats, history
  <2> QED
    BY <2>1, <2>2, LimitKeeps
<1>13. ASSUME NEW h \in Handlers, CommitLeave(h) PROVE LimitInv'
  <2>1. /\ Of("propose")' \subseteq Of("propose")
        /\ \A p \in Proposals : VotingOn(p)' \subseteq VotingOn(p)
    BY <1>13, <1>0, VotingEnd DEF CommitLeave
  <2>2. /\ rivals => rivals'
        /\ Made' = Made
        /\ \A p \in Proposals : status'[p] = "pending" => status[p] = "pending"
    BY <1>13 DEF CommitLeave, Made, people, proposals, chats, history
  <2> QED
    BY <2>1, <2>2, LimitKeeps
<1>14. ASSUME NEW h \in Handlers, CommitDissolve(h) PROVE LimitInv'
  <2>1. /\ Of("propose")' \subseteq Of("propose")
        /\ \A p \in Proposals : VotingOn(p)' \subseteq VotingOn(p)
    BY <1>14, <1>0, VotingEnd DEF CommitDissolve
  <2>2. /\ UNCHANGED rivals /\ Made' = {}
        /\ \A p \in Proposals : status'[p] # "pending"
    BY <1>14 DEF CommitDissolve, Made, history
  <2>3. Open' \subseteq Open
    BY <2>1, <2>2 DEF Open
  <2>4. Single => Single'
    BY <2>1, <2>3 DEF Single
  <2>5. Room' /\ Cardinality(Made') <= ChatLimit
    BY <2>2, FS_EmptySet, ChatsAssumption DEF Room
  <2> QED
    BY <2>2, <2>4, <2>5 DEF LimitInv
<1>15. ASSUME NEW h \in Handlers, Fail(h) PROVE LimitInv'
  <2>1. /\ Of("propose")' \subseteq Of("propose")
        /\ \A p \in Proposals : VotingOn(p)' \subseteq VotingOn(p)
    BY <1>15, <1>0, VotingEnd DEF Fail
  <2>2. /\ rivals => rivals'
        /\ Made' = Made
        /\ \A p \in Proposals : status'[p] = "pending" => status[p] = "pending"
    BY <1>15 DEF Fail, Made, people, proposals, chats, history
  <2> QED
    BY <2>1, <2>2, LimitKeeps
<1>17. ASSUME NEW h \in Handlers, NEW g \in Rotators, NEW c \in Chats,
      BeginRotation(h, g, c)
       PROVE LimitInv'
  <2>1. /\ Of("propose")' \subseteq Of("propose")
        /\ \A p \in Proposals : VotingOn(p)' \subseteq VotingOn(p)
    BY <1>17, <1>0, VotingBegin DEF BeginRotation, Rotating
  <2>2. /\ rivals => rivals'
        /\ Made' = Made
        /\ \A p \in Proposals : status'[p] = "pending" => status[p] = "pending"
    BY <1>17 DEF BeginRotation, Made, people, proposals, chats, history
  <2> QED
    BY <2>1, <2>2, LimitKeeps
<1>18. ASSUME NEW h \in Handlers, CommitRotation(h) PROVE LimitInv'
  <2>1. /\ Of("propose")' \subseteq Of("propose")
        /\ \A p \in Proposals : VotingOn(p)' \subseteq VotingOn(p)
    BY <1>18, <1>0, VotingEnd DEF CommitRotation
  <2>2. /\ rivals => rivals'
        /\ Made' = Made
        /\ \A p \in Proposals : status'[p] = "pending" => status[p] = "pending"
    BY <1>18 DEF CommitRotation, Made, people, proposals, chats, history
  <2> QED
    BY <2>1, <2>2, LimitKeeps
<1>16. CASE UNCHANGED vars
  <2>1. /\ Of("propose")' \subseteq Of("propose")
        /\ \A p \in Proposals : VotingOn(p)' \subseteq VotingOn(p)
    BY <1>16 DEF vars, VotingOn, Of
  <2>2. /\ rivals => rivals'
        /\ Made' = Made
        /\ \A p \in Proposals : status'[p] = "pending" => status[p] = "pending"
    BY <1>16 DEF vars, Made, people, proposals, chats, history
  <2> QED
    BY <2>1, <2>2, LimitKeeps
<1> QED
  BY <1>1, <1>2, <1>3, <1>4, <1>5, <1>6, <1>7, <1>8, <1>9, <1>10, <1>11, <1>12, <1>13,
     <1>14, <1>15, <1>16, <1>17, <1>18 DEF Next

\* Proposals that are open one at a time never make more chats than the limit.
THEOREM LimitKept == Spec => []LimitHolds
<1>1. Init => LimitInv
  <2> SUFFICES ASSUME Init PROVE LimitInv
    OBVIOUS
  <2>1. Made = {} /\ Open = {} /\ Of("propose") = {} /\ \A p \in Proposals : VotingOn(p) = {}
    BY DEF Init, Made, Open, VotingOn, Of, Idle
  <2> QED
    BY <2>1, ChatsAssumption, FS_EmptySet DEF LimitInv, Single, Room
<1>2. LimitInv => LimitHolds
  BY DEF LimitInv, LimitHolds
<1> QED
  BY <1>1, <1>2, InitType, StepType, StepLimit, PTL DEF Spec
=============================================================================
