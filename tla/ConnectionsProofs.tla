------------------------- MODULE ConnectionsProofs -------------------------
(***************************************************************************)
(* Proofs about Connections: its types, that groups enter by consent, that *)
(* blocks sever and that a connection lasts as long as it has two members, *)
(* each but for the overlaps it names.                                     *)
(***************************************************************************)
EXTENDS Connections, TLAPS, FiniteSetTheorems

Answering == Of("accept") \cup Of("decline")
Removals  == Of("leave") \cup Of("expelling") \cup Of("block")

\* The rows of the proposals agree with the connections they belong to, and
\* with the consent that was given.
ProposalsOK ==
    \A p \in Proposals :
        /\ status[p] = "none" => connection[p] = Null
        /\ connection[p] \in Connections /\ status[p] # "deleted"
              => state[connection[p]] = "live"
        /\ status[p] = "pending" => /\ proposer[p] \in Groups
                                    /\ answers[p][proposer[p]] = "accepted"
        /\ status[p] = "pending" => \A g \in Groups : answers[p][g] # "declined"
        /\ \A g \in Groups : answers[p][g] = "accepted" => g \in consent[p]

\* An answer in flight is to a proposal that was made, by a group other than
\* its proposer.
AnswersOK ==
    \A i \in Answering : /\ status[request[i].proposal] # "none"
                         /\ request[i].group # proposer[request[i].proposal]

\* What an acceptance has read of connection_id still holds, or the proposal
\* is no longer pending.
IntoOK ==
    \A i \in Of("accept") :
        /\ request[i].into \in Connections
              => /\ connection[request[i].proposal] = request[i].into
                 /\ state[request[i].into] # "none"
        /\ status[request[i].proposal] = "pending"
              => connection[request[i].proposal] = request[i].into
        /\ \A j \in Of("accept") :
              request[i].proposal = request[j].proposal => request[i].into = request[j].into

\* A block in flight locks its groups.
LockedOK == \A i \in Of("block") : {request[i].by, request[i].group} \subseteq groups

TypeInv == TypeOK /\ ProposalsOK /\ AnswersOK /\ IntoOK /\ LockedOK
-----------------------------------------------------------------------------
(* Requests.                                                               *)

LEMMA AnswerType ==
    ASSUME NEW r \in Request, r.op \in {"accept", "decline"}
    PROVE  r.proposal \in Proposals /\ r.group \in Groups
BY DEF Request

LEMMA AcceptType ==
    ASSUME NEW r \in Request, r.op = "accept"
    PROVE  /\ r.into \in Connections \cup {Null}
           /\ r.complete \in BOOLEAN
           /\ r.joining \in SUBSET Groups
BY DEF Request

LEMMA RemovalType ==
    ASSUME NEW r \in Request, r.op \in {"leave", "expelling", "block"}
    PROVE  r.group \in Groups /\ r.seen \in [Connections -> SUBSET Groups]
BY DEF Request

LEMMA InviteType ==
    ASSUME NEW r \in Request, r.op = "invite"
    PROVE  r.into \in Connections /\ r.by \in Groups /\ r.target \in Groups
BY DEF Request

LEMMA BlockType ==
    ASSUME NEW r \in Request, r.op = "block"
    PROVE  r.by \in Groups
BY DEF Request

LEMMA IntoType ==
    ASSUME NEW r \in Request, r.op \in {"leave", "left", "sweep", "expel", "expelling"}
    PROVE  r.into \in Connections
BY DEF Request

LEMMA TodoType ==
    ASSUME NEW r \in Request, r.op \in {"sweep", "expel", "expelling"}
    PROVE  r.todo \in SUBSET Groups
BY DEF Request

LEMMA ExpelType ==
    ASSUME NEW r \in Request, r.op = "expel"
    PROVE  r.group \in Groups
BY DEF Request

\* What Begin, Turn and End do to the requests.
LEMMA Turned ==
    ASSUME request \in [Handlers -> Request], NEW h \in Handlers, NEW r, Turn(h, r)
    PROVE  /\ request'[h] = r
           /\ \A i \in Handlers \ {h} : request'[i] = request[i]
           /\ r \in Request => request' \in [Handlers -> Request]
BY DEF Turn

LEMMA SeenType ==
    ASSUME TypeOK, NEW C
    PROVE  Seen(C) \in [Connections -> SUBSET Groups]
BY DEF Seen, TypeOK

LEMMA SweepType ==
    ASSUME NEW c \in Connections, NEW T \in SUBSET Groups
    PROVE  Sweep(c, T) \in Request /\ Sweep(c, T).op \in {"idle", "sweep"}
BY DEF Sweep, Idle, Request

LEMMA RequestTypes ==
    ASSUME TypeInv, Next
    PROVE  request' \in [Handlers -> Request]
<1>0. request \in [Handlers -> Request] /\ Idle \in Request
  BY DEF TypeInv, TypeOK, Idle, Request
<1>1. ASSUME NEW h \in Handlers, End(h) PROVE request' \in [Handlers -> Request]
  BY <1>0, <1>1, Turned DEF End
<1>2. ASSUME NEW h \in Handlers, NEW r \in Request, Begin(h, r) \/ Turn(h, r)
      PROVE  request' \in [Handlers -> Request]
  BY <1>0, <1>2 DEF Begin, Turn
<1>3. ASSUME UNCHANGED request PROVE request' \in [Handlers -> Request]
  BY <1>0, <1>3
<1>4. CASE \E p \in Proposals, g \in Proposers : \E T \in SUBSET Groups : ProposeConnection(g, T, p)
  BY <1>4, <1>3 DEF ProposeConnection
<1>5. CASE \E p \in Expiring : ExpireProposal(p)
  BY <1>5, <1>3 DEF ExpireProposal
<1>6. CASE \E g \in Deletable : DeleteGroup(g)
  BY <1>6, <1>3 DEF DeleteGroup
<1>7. CASE \E a \in Blockers, b \in Groups : UnblockGroup(a, b)
  BY <1>7, <1>3 DEF UnblockGroup
<1>8. ASSUME NEW h \in Handlers, NEW c \in Connections, NEW g \in Groups, BeginLeave(h, g, c)
      PROVE  request' \in [Handlers -> Request]
  <2>1. Leave(g, c) \in Request
    BY SeenType DEF Leave, Request, TypeInv
  <2> QED BY <2>1, <1>2, <1>8 DEF BeginLeave
<1>9. ASSUME NEW h \in Handlers, NEW c \in Connections, NEW g \in Proposers, NEW t \in Groups,
             BeginInvite(h, c, g, t)
      PROVE  request' \in [Handlers -> Request]
  <2>1. g \in Groups
    BY <1>9 DEF BeginInvite, TypeInv, TypeOK
  <2>2. Invite(c, g, t) \in Request
    BY <2>1 DEF Invite, Request
  <2> QED BY <2>2, <1>2, <1>9 DEF BeginInvite
<1>10. ASSUME NEW h \in Handlers, NEW p \in Proposals, CommitInvite(h, p)
       PROVE  request' \in [Handlers -> Request]
  BY <1>10, <1>1 DEF CommitInvite
<1>11. ASSUME NEW h \in Handlers, NEW p \in Proposals, NEW g \in Groups, BeginAccept(h, p, g)
       PROVE  request' \in [Handlers -> Request]
  <2>1. \A done \in BOOLEAN, S \in SUBSET Groups : Accept(p, g, done, S) \in Request
    BY DEF Accept, Request, TypeInv, TypeOK
  <2> QED BY <2>1, <1>2, <1>11 DEF BeginAccept
<1>12. ASSUME NEW h \in Handlers, NEW p \in Proposals, NEW g \in Groups, BeginDecline(h, p, g)
       PROVE  request' \in [Handlers -> Request]
  <2>1. Decline(p, g) \in Request
    BY DEF Decline, Request
  <2> QED BY <2>1, <1>2, <1>12 DEF BeginDecline
<1>13. ASSUME NEW h \in Handlers,
              \/ CommitAnswerGone(h) \/ CommitDecline(h) \/ CommitAccept(h)
              \/ CommitAcceptAgain(h) \/ CommitExpansion(h) \/ CommitBlock(h)
              \/ \E c \in Connections : CommitFormation(h, c)
       PROVE  request' \in [Handlers -> Request]
  BY <1>13, <1>1 DEF CommitAnswerGone, CommitDecline, CommitAccept, CommitAcceptAgain,
     CommitExpansion, CommitBlock, CommitFormation, CommitAcceptance
<1>14. ASSUME NEW h \in Handlers, CommitLeave(h) PROVE request' \in [Handlers -> Request]
  <2>1. request[h].into \in Connections
    BY <1>0, <1>14, IntoType DEF CommitLeave, Of
  <2>2. Left(request[h].into) \in Request
    BY <2>1 DEF Left, Request
  <2> QED BY <2>2, <1>2, <1>14 DEF CommitLeave
<1>15. ASSUME NEW h \in Handlers, BeginSweep(h) PROVE request' \in [Handlers -> Request]
  <2>1. request[h].into \in Connections
    BY <1>0, <1>15, IntoType DEF BeginSweep, Of
  <2>2. members[request[h].into] \in SUBSET Groups
    BY <2>1 DEF TypeInv, TypeOK
  <2> QED BY <2>1, <2>2, SweepType, <1>2, <1>15 DEF BeginSweep
<1>16. ASSUME NEW h \in Handlers, NEW g \in Groups, SweepMember(h, g)
       PROVE  request' \in [Handlers -> Request]
  <2>1. request[h].into \in Connections /\ request[h].todo \in SUBSET Groups
    BY <1>0, <1>16, IntoType, TodoType DEF SweepMember, Of
  <2> DEFINE rest == request[h].todo \ {g}
  <2>2. rest \in SUBSET Groups
    BY <2>1
  <2>3. Expel(request[h].into, g, rest) \in Request
    BY <2>1, <2>2 DEF Expel, Request
  <2>4. Sweep(request[h].into, rest) \in Request
    BY <2>1, <2>2, SweepType
  <2> QED BY <2>3, <2>4, <1>2, <1>16 DEF SweepMember
<1>17. ASSUME NEW h \in Handlers, BeginExpel(h) PROVE request' \in [Handlers -> Request]
  <2> DEFINE r == request[h]
  <2>1. r.into \in Connections /\ r.todo \in SUBSET Groups /\ r.group \in Groups
    BY <1>0, <1>17, IntoType, TodoType, ExpelType DEF BeginExpel, Of
  <2>2. Seen({r.into}) \in [Connections -> SUBSET Groups]
    BY SeenType DEF TypeInv
  <2>3. Expelling(r.group, r.into, r.todo) \in Request
    BY <2>1, <2>2 DEF Expelling, Request
  <2>4. Sweep(r.into, r.todo) \in Request
    BY <2>1, SweepType
  <2> QED BY <2>3, <2>4, <1>2, <1>17 DEF BeginExpel
<1>18. ASSUME NEW h \in Handlers, CommitExpel(h) \/ Abort(h)
       PROVE  request' \in [Handlers -> Request]
  <2>1. CASE End(h)
    BY <2>1, <1>1
  <2>2. CASE h \in Of("expelling") /\ Turn(h, Sweep(request[h].into, request[h].todo))
    <3>1. request[h].into \in Connections /\ request[h].todo \in SUBSET Groups
      BY <1>0, <2>2, IntoType, TodoType DEF Of
    <3> QED BY <2>2, <3>1, SweepType, <1>2
  <2> QED BY <1>18, <2>1, <2>2 DEF CommitExpel, Abort
<1>19. ASSUME NEW h \in Handlers, NEW a \in Blockers, NEW b \in Groups, BeginBlock(h, a, b)
       PROVE  request' \in [Handlers -> Request]
  <2>1. a \in Groups
    BY <1>19 DEF BeginBlock, TypeInv, TypeOK
  <2>2. Block(a, b) \in Request
    BY <2>1, SeenType DEF Block, Request, TypeInv
  <2> QED BY <2>2, <1>2, <1>19 DEF BeginBlock
<1> QED
  BY <1>4, <1>5, <1>6, <1>7, <1>8, <1>9, <1>10, <1>11, <1>12, <1>13, <1>14, <1>15,
     <1>16, <1>17, <1>18, <1>19 DEF Next

\* A step begins no answer and no removal.
Forgets ==
    \A i \in Handlers :
        \/ request'[i] = request[i]
        \/ request'[i].op \in {"idle", "invite", "left", "sweep", "expel"}

\* A step changes nothing but requests and expired.
Quiet ==
    /\ UNCHANGED <<groups, edges, proposals, blocks, history>>
    /\ expired' \in {expired} \cup {expired \cup {p} : p \in Proposals}

\* A step is a new proposal.
Inserts ==
    \E p \in Proposals, g \in groups, c \in Live \cup {Null} : \E T \in SUBSET groups :
        Insert(p, g, c, T)

Ends ==
    \E h \in Handlers :
        \/ CommitAnswerGone(h)
        \/ CommitDecline(h)
        \/ CommitAccept(h)
        \/ \E c \in Connections : CommitFormation(h, c)
        \/ CommitExpansion(h)
        \/ CommitLeave(h)
        \/ CommitExpel(h)
        \/ CommitBlock(h)

LEMMA ForgetsAll ==
    ASSUME request \in [Handlers -> Request], Forgets
    PROVE  /\ \A op \in {"accept", "decline", "leave", "expelling", "block"} : Of(op)' \subseteq Of(op)
           /\ \A i \in Answering' \cup Removals' : request'[i] = request[i]
           /\ Answering' \subseteq Answering
           /\ Removals' \subseteq Removals
BY DEF Forgets, Of, Answering, Removals

LEMMA TurnForgets ==
    ASSUME request \in [Handlers -> Request], NEW h \in Handlers, NEW r, Turn(h, r),
           r.op \in {"idle", "invite", "left", "sweep", "expel"}
    PROVE  Forgets
BY DEF Turn, Forgets

\* The steps, by what they change.
LEMMA Steps ==
    ASSUME TypeInv, Next
    PROVE  \/ Forgets /\ Quiet
           \/ Quiet /\ \E h \in Handlers :
                 \/ \E p \in Proposals, g \in Groups : BeginAccept(h, p, g) \/ BeginDecline(h, p, g)
                 \/ \E c \in Connections, g \in Groups : BeginLeave(h, g, c)
                 \/ BeginExpel(h)
                 \/ \E a \in Groups, b \in Groups : BeginBlock(h, a, b)
           \/ Forgets /\ Inserts
           \/ Forgets /\ Ends
           \/ Forgets /\ \E a \in Groups, b \in Groups : UnblockGroup(a, b)
           \/ Forgets /\ \E g \in Groups : DeleteGroup(g)
<1>0. /\ request \in [Handlers -> Request]
      /\ Idle.op = "idle"
      /\ \A c : Left(c).op = "left"
      /\ \A c, g, T : Expel(c, g, T).op = "expel" /\ Invite(c, g, T).op = "invite"
      /\ \A c, T : Sweep(c, T).op \in {"idle", "sweep"}
  BY DEF TypeInv, TypeOK, Idle, Left, Expel, Invite, Sweep
<1>1. ASSUME NEW h \in Handlers, End(h) PROVE Forgets
  BY <1>0, <1>1, TurnForgets DEF End
<1>2. ASSUME UNCHANGED request PROVE Forgets
  BY <1>2 DEF Forgets
<1>3. ASSUME NEW p \in Proposals, NEW g \in Proposers, NEW T \in SUBSET Groups,
             ProposeConnection(g, T, p)
      PROVE  Forgets /\ Inserts
  BY <1>3, <1>2 DEF ProposeConnection, Inserts
<1>4. CASE \E p \in Expiring : ExpireProposal(p)
  BY <1>4, <1>2, ExpiringAssumption DEF ExpireProposal, Quiet
<1>5. CASE \E g \in Deletable : DeleteGroup(g)
  BY <1>5, <1>2 DEF DeleteGroup, TypeInv, TypeOK
<1>6. CASE \E a \in Blockers, b \in Groups : UnblockGroup(a, b)
  <2>1. PICK a, b : UnblockGroup(a, b)
    BY <1>6
  <2>2. a \in Groups /\ b \in Groups
    BY <2>1 DEF UnblockGroup, TypeInv, TypeOK
  <2>3. Forgets
    BY <2>1, <1>2 DEF UnblockGroup
  <2> QED BY <2>1, <2>2, <2>3
<1>7. ASSUME NEW h \in Handlers, NEW c \in Connections, NEW g \in Groups, BeginLeave(h, g, c)
      PROVE  Quiet
  BY <1>7 DEF BeginLeave, Quiet
<1>8. ASSUME NEW h \in Handlers, NEW c \in Connections, NEW g \in Proposers, NEW t \in Groups,
             BeginInvite(h, c, g, t)
      PROVE  Forgets /\ Quiet
  <2>1. Turn(h, Invite(c, g, t))
    BY <1>8 DEF BeginInvite, Begin, Turn
  <2>2. Forgets
    BY <2>1, <1>0, TurnForgets
  <2> QED BY <2>2, <1>8 DEF BeginInvite, Quiet
<1>9. ASSUME NEW h \in Handlers, NEW p \in Proposals, CommitInvite(h, p)
      PROVE  Forgets /\ Inserts
  <2> DEFINE r == request[h]
  <2>1. r.into \in Live /\ r.by \in groups /\ r.target \in groups
    BY <1>9 DEF CommitInvite
  <2>2. members[r.into] \cup {r.target} \in SUBSET groups
    BY <2>1 DEF Live, TypeInv, TypeOK
  <2>3. Inserts
    BY <1>9, <2>1, <2>2 DEF CommitInvite, Inserts
  <2> QED BY <2>3, <1>9, <1>1 DEF CommitInvite
<1>10. ASSUME NEW h \in Handlers, NEW p \in Proposals, NEW g \in Groups,
              BeginAccept(h, p, g) \/ BeginDecline(h, p, g)
       PROVE  Quiet
  BY <1>10 DEF BeginAccept, BeginDecline, Quiet
<1>11. ASSUME NEW h \in Handlers,
              \/ CommitAnswerGone(h) \/ CommitDecline(h) \/ CommitAccept(h)
              \/ CommitExpansion(h) \/ CommitBlock(h)
              \/ \E c \in Connections : CommitFormation(h, c)
       PROVE  Forgets /\ Ends
  BY <1>11, <1>1 DEF CommitAnswerGone, CommitDecline, CommitAccept, Ends,
     CommitExpansion, CommitBlock, CommitFormation, CommitAcceptance
<1>12. ASSUME NEW h \in Handlers, CommitAcceptAgain(h) PROVE Forgets /\ Quiet
  BY <1>12, <1>1 DEF CommitAcceptAgain, Quiet
<1>13. ASSUME NEW h \in Handlers, CommitLeave(h) \/ CommitExpel(h) PROVE Forgets /\ Ends
  <2>1. \E r : Turn(h, r) /\ r.op \in {"idle", "left", "sweep"}
    BY <1>13, <1>0 DEF CommitLeave, CommitExpel
  <2>2. Forgets
    BY <2>1, <1>0, TurnForgets
  <2> QED BY <2>2, <1>13 DEF Ends
<1>14. ASSUME NEW h \in Handlers, BeginSweep(h) \/ \E g \in Groups : SweepMember(h, g)
       PROVE  Forgets /\ Quiet
  <2>1. \E r : Turn(h, r) /\ r.op \in {"idle", "sweep", "expel"}
    <3>1. CASE BeginSweep(h)
      BY <3>1, <1>0 DEF BeginSweep
    <3>2. ASSUME NEW g \in Groups, SweepMember(h, g)
          PROVE  \/ Turn(h, Expel(request[h].into, g, request[h].todo \ {g}))
                 \/ Turn(h, Sweep(request[h].into, request[h].todo \ {g}))
      BY <3>2 DEF SweepMember
    <3>3. ASSUME NEW g \in Groups, SweepMember(h, g)
          PROVE  \E r : Turn(h, r) /\ r.op \in {"idle", "sweep", "expel"}
      <4>1. /\ Expel(request[h].into, g, request[h].todo \ {g}).op \in {"idle", "sweep", "expel"}
            /\ Sweep(request[h].into, request[h].todo \ {g}).op \in {"idle", "sweep", "expel"}
        BY <1>0
      <4> QED BY <3>3, <3>2, <4>1, Zenon
    <3> QED BY <3>1, <3>3, <1>14
  <2>2. Forgets
    BY <2>1, <1>0, TurnForgets
  <2> QED BY <2>2, <1>14 DEF BeginSweep, SweepMember, Quiet
<1>15. ASSUME NEW h \in Handlers, BeginExpel(h) PROVE Quiet
  BY <1>15 DEF BeginExpel, Quiet
<1>16. ASSUME NEW h \in Handlers, NEW a \in Blockers, NEW b \in Groups, BeginBlock(h, a, b)
       PROVE  Quiet /\ a \in Groups
  BY <1>16 DEF BeginBlock, Quiet, TypeInv, TypeOK
<1>17. ASSUME NEW h \in Handlers, Abort(h) PROVE Forgets /\ Quiet
  BY <1>17, <1>0, <1>1, TurnForgets DEF Abort, Quiet
<1> QED
  BY <1>3, <1>4, <1>5, <1>6, <1>7, <1>8, <1>9, <1>10, <1>11, <1>12, <1>13, <1>14, <1>15,
     <1>16, <1>17 DEF Next
-----------------------------------------------------------------------------
(* The inductive type invariant.                                           *)

\* What no step takes back.
Onward ==
    /\ \A p \in Proposals : status[p] # "none" =>
          /\ status'[p] # "none"
          /\ proposer'[p] = proposer[p]
          /\ status'[p] = "pending" => status[p] = "pending" /\ connection'[p] = connection[p]
    /\ \A i \in Of("accept") : request[i].into \in Connections =>
          connection'[request[i].proposal] = connection[request[i].proposal]
    /\ \A c \in Connections : state[c] # "none" => state'[c] # "none"
    /\ \A i \in Of("block") : {request[i].by, request[i].group} \subseteq groups'

\* Requests that only go on keep what they have read.
LEMMA ForgetsKeeps ==
    ASSUME TypeInv, Forgets, Onward
    PROVE  AnswersOK' /\ IntoOK' /\ LockedOK'
<1>1. /\ Of("accept")' \subseteq Of("accept") /\ Answering' \subseteq Answering
      /\ \A i \in Answering' : request'[i] = request[i]
      /\ Of("accept")' \subseteq Answering'
      /\ Of("block")' \subseteq Of("block")
      /\ \A i \in Of("block")' : request'[i] = request[i]
  BY ForgetsAll DEF TypeInv, TypeOK, Answering, Removals
<1>2. \A i \in Answering : request[i].proposal \in Proposals
  BY AnswerType DEF TypeInv, TypeOK, Answering, Of
<1>3. AnswersOK'
  BY <1>1, <1>2 DEF AnswersOK, Onward, TypeInv
<1>4. \A i \in Of("accept") : i \in Answering /\ status[request[i].proposal] # "none"
  BY DEF TypeInv, AnswersOK, Answering
<1>5. IntoOK'
  BY <1>1, <1>2, <1>4 DEF IntoOK, Onward, TypeInv
<1>6. LockedOK'
  BY <1>1 DEF LockedOK, Onward
<1> QED BY <1>3, <1>5, <1>6

LEMMA QuietOnward == ASSUME TypeInv, Quiet PROVE Onward
BY DEF Quiet, Onward, edges, proposals, TypeInv, LockedOK

\* A removal only shrinks connections, and never a connection that is not
\* live.
LEMMA RemoveTypes ==
    ASSUME TypeInv, NEW h \in Removals, Remove(h),
           UNCHANGED <<groups, proposer, connection, answers, consent>>
    PROVE  /\ state' \in [Connections -> {"none", "live", "gone"}]
           /\ members' \in [Connections -> SUBSET groups]
           /\ \A c \in Connections : state'[c] # "live" => members'[c] = {}
           /\ status' \in [Proposals -> {"none", "pending", "accepted", "declined", "deleted"}]
           /\ overlapped' \in SUBSET Connections
           /\ Onward
           /\ ProposalsOK'
<1> USE DEF TypeInv
<1> DEFINE D == Dissolved(request[h])
           T == Touched(request[h])
<1>1. /\ members' = [c \in Connections |->
            IF c \in D THEN {} ELSE IF c \in T THEN members[c] \ {request[h].group}
            ELSE members[c]]
      /\ state' = [c \in Connections |-> IF c \in D THEN "gone" ELSE state[c]]
      /\ status' = [p \in Proposals |->
            IF \/ connection[p] \in D
               \/ connection[p] \in T /\ status[p] = "pending"
            THEN "deleted" ELSE status[p]]
      /\ overlapped' = overlapped \cup {c \in T : Removing(h, c) # {}}
  BY DEF Remove
<1>2. D \subseteq Connections /\ T \subseteq Connections
  BY DEF Dissolved, Touched
<1> HIDE DEF D, T
<1>3. /\ state' \in [Connections -> {"none", "live", "gone"}]
      /\ members' \in [Connections -> SUBSET groups]
      /\ \A c \in Connections : state'[c] # "live" => members'[c] = {}
      /\ status' \in [Proposals -> {"none", "pending", "accepted", "declined", "deleted"}]
      /\ overlapped' \in SUBSET Connections
  BY <1>1, <1>2 DEF TypeOK, Live
<1>4. \A p \in Proposals : status[p] = "none" => connection[p] \notin Connections
  BY NullAssumption DEF ProposalsOK
<1>5. Onward
  BY <1>1, <1>2, <1>4 DEF Onward, TypeOK, LockedOK
<1>6. ProposalsOK'
  BY <1>1, <1>2, <1>4 DEF ProposalsOK, TypeOK
<1> QED BY <1>3, <1>5, <1>6

LEMMA InsertTypes ==
    ASSUME TypeInv, request' \in [Handlers -> Request], Inserts
    PROVE  TypeOK' /\ ProposalsOK' /\ Onward
<1> USE DEF TypeInv
<1> PICK p \in Proposals, g \in groups, c \in Live \cup {Null} :
        \E T \in SUBSET groups : Insert(p, g, c, T)
  BY DEF Inserts
<1> PICK T \in SUBSET groups : Insert(p, g, c, T)
  OBVIOUS
<1> DEFINE row == [f \in Groups |-> IF f = g THEN "accepted"
                                    ELSE IF f \in T THEN "pending" ELSE "absent"]
<1>1. /\ status[p] = "none"
      /\ status' = [status EXCEPT ![p] = "pending"]
      /\ proposer' = [proposer EXCEPT ![p] = g]
      /\ connection' = [connection EXCEPT ![p] = c]
      /\ answers' = [answers EXCEPT ![p] = row]
      /\ consent' = [consent EXCEPT ![p] = {g}]
      /\ UNCHANGED <<groups, state, members, expired, blocks, exposed, overlapped>>
  BY DEF Insert, edges
<1>2. /\ g \in Groups /\ c \in Connections \cup {Null}
      /\ row \in [Groups -> {"absent", "pending", "accepted", "declined"}]
  BY DEF TypeOK, Live
<1>3. row[g] = "accepted" /\ \A f \in Groups : row[f] # "declined" /\ (row[f] = "accepted" => f = g)
  BY <1>2
<1> HIDE DEF row
<1>4. TypeOK'
  BY <1>1, <1>2 DEF TypeOK, Live
<1>5. Onward
  <2>1. \A i \in Of("accept") :
           request[i].proposal \in Proposals /\ status[request[i].proposal] # "none"
    BY AnswerType DEF TypeOK, AnswersOK, Answering, Of
  <2> QED BY <1>1, <2>1 DEF Onward, TypeOK, LockedOK
<1>6. c \in Connections => state[c] = "live"
  BY NullAssumption DEF Live
<1>7. ProposalsOK'
  BY <1>1, <1>2, <1>3, <1>6 DEF ProposalsOK, TypeOK
<1> QED BY <1>4, <1>5, <1>7

LEMMA AnswerTypes ==
    ASSUME TypeInv, request' \in [Handlers -> Request], NEW h \in Handlers,
           CommitAnswerGone(h) \/ CommitDecline(h)
    PROVE  TypeOK' /\ ProposalsOK' /\ Onward
<1> USE DEF TypeInv
<1> DEFINE p == request[h].proposal
           g == request[h].group
<1>1. p \in Proposals /\ g \in Groups /\ status[p] # "none"
  BY AnswerType DEF TypeOK, CommitAnswerGone, CommitDecline, Of, AnswersOK, Answering
<1>2. CASE CommitAnswerGone(h)
  <2>1. /\ \/ status' = [status EXCEPT ![p] = "declined"] /\ status[p] # "deleted"
           \/ status' = status
        /\ UNCHANGED <<groups, state, members, proposer, connection, answers, expired,
                       blocks, consent, exposed, overlapped>>
    BY <1>2 DEF CommitAnswerGone, edges, history
  <2> HIDE DEF p, g
  <2>2. TypeOK'
    BY <1>1, <2>1 DEF TypeOK, Live
  <2>3. Onward
    BY <1>1, <2>1 DEF Onward, TypeOK, LockedOK
  <2>4. ProposalsOK'
    BY <1>1, <2>1 DEF ProposalsOK, TypeOK
  <2> QED BY <2>2, <2>3, <2>4
<1>3. CASE CommitDecline(h)
  <2>1. /\ status' = [status EXCEPT ![p] = "declined"] /\ status[p] # "deleted"
        /\ answers' = [answers EXCEPT ![p][g] = "declined"]
        /\ UNCHANGED <<groups, state, members, proposer, connection, expired,
                       blocks, consent, exposed, overlapped>>
    BY <1>3 DEF CommitDecline, Gone, SetAnswer, edges, history
  <2> HIDE DEF p, g
  <2>2. TypeOK'
    BY <1>1, <2>1 DEF TypeOK, Live
  <2>3. Onward
    BY <1>1, <2>1 DEF Onward, TypeOK, LockedOK
  <2>4. ProposalsOK'
    BY <1>1, <2>1 DEF ProposalsOK, TypeOK
  <2> QED BY <2>2, <2>3, <2>4
<1> QED BY <1>2, <1>3

LEMMA AcceptTypes ==
    ASSUME TypeInv, request' \in [Handlers -> Request], NEW h \in Handlers,
           CommitAccept(h) \/ CommitExpansion(h) \/ \E c \in Connections : CommitFormation(h, c)
    PROVE  TypeOK' /\ ProposalsOK' /\ Onward
<1> USE DEF TypeInv
<1> DEFINE p == request[h].proposal
           g == request[h].group
           c0 == request[h].into
           J == request[h].joining
<1>1. /\ p \in Proposals /\ g \in Groups /\ status[p] \notin {"none", "deleted"}
      /\ c0 \in Connections \cup {Null} /\ J \in SUBSET Groups
      /\ c0 \in Connections => connection[p] = c0 /\ state[c0] = "live"
      /\ status[p] = "pending" => connection[p] = c0
  <2>1. h \in Of("accept") /\ ~Gone(request[h])
    BY DEF CommitAccept, CommitExpansion, CommitFormation, CommitAcceptance
  <2>2. /\ p \in Proposals /\ g \in Groups
        /\ c0 \in Connections \cup {Null} /\ J \in SUBSET Groups
    BY <2>1, AnswerType, AcceptType DEF TypeOK, Of
  <2>3. status[p] \notin {"none", "deleted"}
    BY <2>1 DEF Gone, AnswersOK, Answering
  <2>4. /\ c0 \in Connections => connection[p] = c0
        /\ status[p] = "pending" => connection[p] = c0
    BY <2>1 DEF IntoOK
  <2> QED BY <2>2, <2>3, <2>4 DEF ProposalsOK
<1>2. /\ answers' = [answers EXCEPT ![p][g] = "accepted"]
      /\ consent' = [consent EXCEPT ![p] = @ \cup {g}]
      /\ UNCHANGED <<groups, proposer, expired, blocks>>
  BY DEF CommitAccept, CommitExpansion, CommitFormation, CommitAcceptance, SetAnswer
<1>3. CASE CommitAccept(h)
  <2>1. UNCHANGED <<state, members, status, connection, exposed, overlapped>>
    BY <1>3 DEF CommitAccept, edges
  <2> HIDE DEF p, g, c0, J
  <2>2. TypeOK'
    BY <1>1, <1>2, <2>1 DEF TypeOK, Live
  <2>3. Onward
    BY <1>1, <1>2, <2>1 DEF Onward, TypeOK, LockedOK
  <2>4. ProposalsOK'
    BY <1>1, <1>2, <2>1 DEF ProposalsOK, TypeOK
  <2> QED BY <2>2, <2>3, <2>4
<1>4. CASE CommitExpansion(h)
  <2>1. /\ c0 # Null /\ J \subseteq groups
        /\ members' = [members EXCEPT ![c0] = @ \cup J]
        /\ status' = [status EXCEPT ![p] = "accepted"]
        /\ UNCHANGED <<state, connection>>
        /\ exposed' \in {exposed, exposed \cup {c0}}
        /\ overlapped' \in {overlapped, overlapped \cup {c0}}
    BY <1>4 DEF CommitExpansion
  <2> HIDE DEF p, g, c0, J
  <2>2. TypeOK'
    BY <1>1, <1>2, <2>1 DEF TypeOK, Live
  <2>3. Onward
    BY <1>1, <1>2, <2>1 DEF Onward, TypeOK, LockedOK
  <2>4. ProposalsOK'
    BY <1>1, <1>2, <2>1 DEF ProposalsOK, TypeOK
  <2> QED BY <2>2, <2>3, <2>4
<1>5. ASSUME NEW c \in Connections, CommitFormation(h, c) PROVE TypeOK' /\ ProposalsOK' /\ Onward
  <2>1. /\ c0 = Null /\ J \subseteq groups
        /\ state[c] = "none"
        /\ state' = [state EXCEPT ![c] = "live"]
        /\ members' = [members EXCEPT ![c] = J]
        /\ connection' = [connection EXCEPT ![p] = c]
        /\ status' = [status EXCEPT ![p] = "accepted"]
        /\ exposed' \in {exposed, exposed \cup {c}}
        /\ UNCHANGED overlapped
    BY <1>5 DEF CommitFormation
  <2>6. h \in Of("accept")
    BY <1>5 DEF CommitFormation, CommitAcceptance
  <2> HIDE DEF p, g, c0, J
  <2>2. TypeOK'
    BY <1>1, <1>2, <2>1 DEF TypeOK, Live
  <2>3. \A i \in Of("accept") :
           request[i].proposal \in Proposals /\ (request[i].proposal = p => request[i].into = Null)
    BY <2>1, <2>6, AnswerType DEF IntoOK, TypeOK, Of, p, c0
  <2>4. Onward
    BY <1>1, <1>2, <2>1, <2>3, NullAssumption DEF Onward, TypeOK, LockedOK
  <2>5. ProposalsOK'
    BY <1>1, <1>2, <2>1 DEF ProposalsOK, TypeOK
  <2> QED BY <2>2, <2>4, <2>5
<1> QED BY <1>3, <1>4, <1>5

LEMMA BlockTypes ==
    ASSUME TypeInv, request' \in [Handlers -> Request],
           \/ \E h \in Handlers : CommitLeave(h) \/ CommitExpel(h) \/ CommitBlock(h)
           \/ \E a \in Groups, b \in Groups : UnblockGroup(a, b)
    PROVE  TypeOK' /\ ProposalsOK' /\ Onward
<1> USE DEF TypeInv
<1>1. ASSUME NEW h \in Handlers, CommitLeave(h) \/ CommitExpel(h) \/ CommitBlock(h)
      PROVE  TypeOK' /\ ProposalsOK' /\ Onward
  <2>1. h \in Removals /\ Remove(h)
    BY <1>1 DEF CommitLeave, CommitExpel, CommitBlock, Removals
  <2>2. UNCHANGED <<groups, proposer, connection, answers, expired, consent>>
    BY <1>1 DEF CommitLeave, CommitExpel, CommitBlock
  <2>3. /\ blocks' \in SUBSET (groups \X groups)
        /\ exposed' \in SUBSET Connections
    <3>1. CASE UNCHANGED <<blocks, exposed>>
      BY <3>1 DEF TypeOK
    <3>2. CASE CommitBlock(h)
      <4>1. {request[h].by, request[h].group} \subseteq groups
        BY <3>2 DEF CommitBlock, LockedOK
      <4> QED BY <3>2, <4>1 DEF CommitBlock, JoiningInFlight, TypeOK
    <3> QED BY <1>1, <3>1, <3>2 DEF CommitLeave, CommitExpel
  <2>4. TypeOK'
    BY <2>1, <2>2, <2>3, RemoveTypes DEF TypeOK, Live
  <2> QED BY <2>1, <2>2, <2>4, RemoveTypes
<1>2. ASSUME NEW a \in Groups, NEW b \in Groups, UnblockGroup(a, b)
      PROVE  TypeOK' /\ ProposalsOK' /\ Onward
  <2>1. /\ blocks' = blocks \ {<<a, b>>}
        /\ UNCHANGED <<groups, state, members, status, proposer, connection, answers, expired,
                       request, consent, exposed, overlapped>>
    BY <1>2 DEF UnblockGroup, edges, proposals, history
  <2>2. TypeOK'
    BY <2>1 DEF TypeOK, Live
  <2> QED BY <2>1, <2>2 DEF ProposalsOK, Onward, LockedOK
<1> QED BY <1>1, <1>2

LEMMA DeleteTypes ==
    ASSUME TypeInv, request' \in [Handlers -> Request], NEW g \in Groups, DeleteGroup(g)
    PROVE  TypeOK' /\ ProposalsOK' /\ Onward
<1> USE DEF TypeInv
<1>1. /\ groups' = groups \ {g}
      /\ members' = [c \in Connections |-> members[c] \ {g}]
      /\ status' = [p \in Proposals |->
            IF proposer[p] = g /\ status[p] # "none" THEN "deleted" ELSE status[p]]
      /\ answers' = [p \in Proposals |-> [answers[p] EXCEPT ![g] = "absent"]]
      /\ blocks' = {b \in blocks : g \notin {b[1], b[2]}}
      /\ overlapped' = overlapped \cup {c \in Connections : g \in members[c]}
      /\ UNCHANGED <<state, proposer, connection, expired, request, consent, exposed>>
  BY DEF DeleteGroup
<1>2. blocks' \in SUBSET (groups' \X groups')
  BY <1>1 DEF TypeOK
<1>3. TypeOK'
  BY <1>1, <1>2 DEF TypeOK, Live
<1>4. Onward
  <2>1. \A i \in Of("block") : g \notin {request[i].by, request[i].group}
    BY DEF DeleteGroup, Of
  <2> QED BY <1>1, <2>1 DEF Onward, TypeOK, LockedOK
<1>5. ProposalsOK'
  BY <1>1 DEF ProposalsOK, TypeOK
<1> QED BY <1>3, <1>4, <1>5

\* A new request reads what holds.
LEMMA BeginTypes ==
    ASSUME TypeInv, Quiet, NEW h \in Handlers,
           \/ \E p \in Proposals, g \in Groups : BeginAccept(h, p, g) \/ BeginDecline(h, p, g)
           \/ \E c \in Connections, g \in Groups : BeginLeave(h, g, c)
           \/ BeginExpel(h)
           \/ \E a \in Groups, b \in Groups : BeginBlock(h, a, b)
    PROVE  AnswersOK' /\ IntoOK' /\ LockedOK'
<1> USE DEF TypeInv
<1>0. /\ UNCHANGED <<groups, state, status, proposer, connection>>
      /\ \A i \in Answering : request[i].proposal \in Proposals
  BY AnswerType DEF Quiet, edges, proposals, Answering, Of, TypeOK
<1>1. ASSUME NEW r, Turn(h, r), r.op \in {"sweep", "idle", "leave", "expelling", "block"},
             r.op = "block" => {r.by, r.group} \subseteq groups
      PROVE  AnswersOK' /\ IntoOK' /\ LockedOK'
  <2>0. /\ request'[h] = r
        /\ \A i \in Handlers \ {h} : request'[i] = request[i]
    BY <1>1, Turned DEF TypeOK
  <2>1. /\ Of("accept")' \subseteq Of("accept") /\ Answering' \subseteq Answering
        /\ Of("accept")' \subseteq Answering'
        /\ \A i \in Answering' : request'[i] = request[i]
        /\ \A i \in Of("block")' : \/ i = h /\ r.op = "block"
                                   \/ i \in Of("block") /\ request'[i] = request[i]
        /\ request'[h] = r
    BY <1>1, <2>0 DEF Of, Answering
  <2>2. AnswersOK'
    BY <2>1, <1>0 DEF AnswersOK
  <2>3. IntoOK'
    BY <2>1, <1>0 DEF IntoOK
  <2>4. LockedOK'
    BY <2>1, <1>0, <1>1 DEF LockedOK
  <2> QED BY <2>2, <2>3, <2>4
<1>2. ASSUME NEW p \in Proposals, NEW g \in Groups, NEW r, Turn(h, r), MayAnswer(p, g),
             r.op \in {"accept", "decline"}, r.proposal = p, r.group = g,
             r.op = "accept" => r.into = connection[p]
      PROVE  AnswersOK' /\ IntoOK' /\ LockedOK'
  <2>0. /\ request'[h] = r
        /\ \A i \in Handlers \ {h} : request'[i] = request[i]
    BY <1>2, Turned DEF TypeOK
  <2>1. /\ \A i \in Of("accept")' : \/ i = h /\ r.op = "accept"
                                    \/ i \in Of("accept") /\ request'[i] = request[i]
        /\ \A i \in Answering' : i = h \/ (i \in Answering /\ request'[i] = request[i])
        /\ \A i \in Of("block")' : i \in Of("block") /\ request'[i] = request[i]
        /\ request'[h] = r
        /\ Of("accept") \subseteq Answering
    BY <1>2, <2>0 DEF Of, Answering
  <2>2. status[p] = "pending" /\ g # proposer[p]
    BY <1>2 DEF MayAnswer, ProposalsOK
  <2>3. AnswersOK'
    BY <2>1, <2>2, <1>0, <1>2 DEF AnswersOK
  <2>4. connection[p] \in Connections => state[connection[p]] # "none"
    BY <2>2 DEF ProposalsOK
  <2>5. \A i \in Of("accept") : request[i].proposal = p => request[i].into = connection[p]
    BY <2>2 DEF IntoOK
  <2>6. IntoOK'
    BY <2>1, <2>2, <2>4, <2>5, <1>0, <1>2 DEF IntoOK
  <2>7. LockedOK'
    BY <2>1, <1>0 DEF LockedOK
  <2> QED BY <2>3, <2>6, <2>7
<1>3. ASSUME NEW p \in Proposals, NEW g \in Groups, BeginAccept(h, p, g)
      PROVE  AnswersOK' /\ IntoOK' /\ LockedOK'
  <2>1. PICK done, S : Turn(h, Accept(p, g, done, S)) /\ MayAnswer(p, g)
    BY <1>3 DEF BeginAccept, Begin, Turn
  <2> DEFINE r == Accept(p, g, done, S)
  <2>2. r.op = "accept" /\ r.proposal = p /\ r.group = g /\ r.into = connection[p]
    BY DEF Accept
  <2> HIDE DEF r
  <2> QED BY <2>1, <2>2, <1>2 DEF r
<1>4. ASSUME NEW p \in Proposals, NEW g \in Groups, BeginDecline(h, p, g)
      PROVE  AnswersOK' /\ IntoOK' /\ LockedOK'
  <2>1. Turn(h, Decline(p, g)) /\ MayAnswer(p, g)
    BY <1>4 DEF BeginDecline, Begin, Turn
  <2>2. Decline(p, g).op = "decline" /\ Decline(p, g).proposal = p /\ Decline(p, g).group = g
    BY DEF Decline
  <2> QED BY <2>1, <2>2, <1>2
<1>5. ASSUME NEW c \in Connections, NEW g \in Groups, BeginLeave(h, g, c)
      PROVE  AnswersOK' /\ IntoOK' /\ LockedOK'
  <2>1. Turn(h, Leave(g, c)) /\ Leave(g, c).op = "leave"
    BY <1>5 DEF BeginLeave, Begin, Turn, Leave
  <2> QED BY <2>1, <1>1
<1>6. ASSUME BeginExpel(h) PROVE AnswersOK' /\ IntoOK' /\ LockedOK'
  <2>1. \A c, g, T : Expelling(g, c, T).op = "expelling" /\ Sweep(c, T).op \in {"idle", "sweep"}
    BY DEF Expelling, Sweep, Idle
  <2>2. \/ Turn(h, Expelling(request[h].group, request[h].into, request[h].todo))
        \/ Turn(h, Sweep(request[h].into, request[h].todo))
    BY <1>6 DEF BeginExpel
  <2>3. CASE Turn(h, Expelling(request[h].group, request[h].into, request[h].todo))
    BY <2>1, <2>3, <1>1
  <2>4. CASE Turn(h, Sweep(request[h].into, request[h].todo))
    BY <2>1, <2>4, <1>1
  <2> QED BY <2>2, <2>3, <2>4
<1>7. ASSUME NEW a \in Groups, NEW b \in Groups, BeginBlock(h, a, b)
      PROVE  AnswersOK' /\ IntoOK' /\ LockedOK'
  <2>1. Turn(h, Block(a, b)) /\ {a, b} \subseteq groups
    BY <1>7 DEF BeginBlock, Begin, Turn
  <2>2. Block(a, b).op = "block" /\ Block(a, b).by = a /\ Block(a, b).group = b
    BY DEF Block
  <2> QED BY <2>1, <2>2, <1>1
<1> QED BY <1>3, <1>4, <1>5, <1>6, <1>7

LEMMA TypeNext == TypeInv /\ [Next]_vars => TypeInv'
<1> SUFFICES ASSUME TypeInv, [Next]_vars PROVE TypeInv'
  OBVIOUS
<1>1. CASE UNCHANGED vars
  BY <1>1 DEF TypeInv, TypeOK, ProposalsOK, AnswersOK, IntoOK, LockedOK, vars, edges, proposals,
     history, Live, Of, Answering
<1>2. CASE Next
  <2>0. request' \in [Handlers -> Request]
    BY <1>2, RequestTypes
  <2>1. ASSUME Quiet PROVE TypeOK' /\ ProposalsOK'
    <3>1. UNCHANGED <<groups, state, members, status, proposer, connection, answers, blocks,
                      consent, exposed, overlapped>>
      BY <2>1 DEF Quiet, edges, proposals, history
    <3>2. expired' \in SUBSET Proposals
      BY <2>1 DEF Quiet, TypeInv, TypeOK
    <3> QED BY <3>1, <3>2, <2>0 DEF TypeInv, TypeOK, ProposalsOK, Live
  <2>2. CASE Forgets /\ Quiet
    BY <2>1, <2>2, ForgetsKeeps, QuietOnward DEF TypeInv
  <2>3. ASSUME Quiet, NEW h \in Handlers,
               \/ \E p \in Proposals, g \in Groups : BeginAccept(h, p, g) \/ BeginDecline(h, p, g)
               \/ \E c \in Connections, g \in Groups : BeginLeave(h, g, c)
               \/ BeginExpel(h)
               \/ \E a \in Groups, b \in Groups : BeginBlock(h, a, b)
        PROVE  TypeInv'
    BY <2>1, <2>3, BeginTypes DEF TypeInv
  <2>4. CASE Forgets /\ Inserts
    BY <2>0, <2>4, InsertTypes, ForgetsKeeps DEF TypeInv
  <2>5. CASE Forgets /\ Ends
    BY <2>0, <2>5, AnswerTypes, AcceptTypes, BlockTypes, ForgetsKeeps DEF TypeInv, Ends
  <2>6. CASE Forgets /\ \E a \in Groups, b \in Groups : UnblockGroup(a, b)
    BY <2>0, <2>6, BlockTypes, ForgetsKeeps DEF TypeInv
  <2>7. CASE Forgets /\ \E g \in Groups : DeleteGroup(g)
    BY <2>0, <2>7, DeleteTypes, ForgetsKeeps DEF TypeInv
  <2> QED BY <1>2, Steps, <2>2, <2>3, <2>4, <2>5, <2>6, <2>7
<1> QED BY <1>1, <1>2

LEMMA TypeInit == Init => TypeInv
<1> SUFFICES ASSUME Init PROVE TypeInv
  OBVIOUS
<1>1. /\ Idle \in Request
      /\ \A op \in {"accept", "decline", "block"} : Of(op) = {}
  BY DEF Init, Of, Idle, Request
<1>2. TypeOK
  BY <1>1 DEF Init, TypeOK, Live
<1>3. ProposalsOK
  BY NullAssumption DEF Init, ProposalsOK
<1>4. AnswersOK /\ IntoOK /\ LockedOK
  BY <1>1 DEF AnswersOK, IntoOK, LockedOK, Answering
<1> QED BY <1>2, <1>3, <1>4 DEF TypeInv

\* Whatever the handlers overlap: the rows have their types, only live
\* connections have members, and members and blocks are groups that exist.
THEOREM ConnectionsTypes == Spec => []TypeOK
<1>1. TypeInv => TypeOK
  BY DEF TypeInv
<1> QED BY <1>1, TypeInit, TypeNext, PTL DEF Spec
-----------------------------------------------------------------------------
(* Groups enter by consent.                                                *)

\* An acceptance that found the answers complete admits groups the proposal
\* names, all of which have accepted or accept with it.
ConsentInv ==
    \A i \in Of("accept") : request[i].complete =>
        LET p == request[i].proposal
        IN /\ Named(p) \subseteq consent[p] \cup {request[i].group}
           /\ request[i].joining \cap groups \subseteq Named(p)

\* A step names no more groups, forgets no consent, and takes from the groups
\* a proposal names only one that is deleted.
Agreed ==
    /\ groups' \subseteq groups
    /\ \A p \in Proposals : status[p] # "none" =>
          /\ consent[p] \subseteq consent'[p]
          /\ Named(p)' \subseteq Named(p)
          /\ Named(p) \cap groups' \subseteq Named(p)'

LEMMA ForgetsConsent ==
    ASSUME TypeInv, ConsentInv, Forgets, Agreed
    PROVE  ConsentInv'
<1>1. /\ Of("accept")' \subseteq Of("accept")
      /\ \A i \in Of("accept")' : request'[i] = request[i]
  BY ForgetsAll DEF TypeInv, TypeOK, Answering, Removals
<1>2. \A i \in Of("accept") :
         request[i].proposal \in Proposals /\ status[request[i].proposal] # "none"
  BY AnswerType DEF TypeInv, TypeOK, AnswersOK, Answering, Of
<1>3. ASSUME NEW i \in Of("accept"), request[i].complete,
             NEW p \in Proposals, p = request[i].proposal
      PROVE  /\ Named(p)' \subseteq consent'[p] \cup {request[i].group}
             /\ request[i].joining \cap groups' \subseteq Named(p)'
  BY <1>2, <1>3 DEF ConsentInv, Agreed
<1> QED BY <1>1, <1>2, <1>3 DEF ConsentInv

LEMMA AgreedAll ==
    ASSUME TypeInv, Quiet \/ Inserts \/ Ends
              \/ (\E a \in Groups, b \in Groups : UnblockGroup(a, b))
              \/ (\E g \in Groups : DeleteGroup(g))
    PROVE  Agreed
<1> USE DEF TypeInv
<1>1. CASE UNCHANGED <<groups, answers, consent>>
  BY <1>1 DEF Agreed, Named
<1>2. CASE Quiet
  BY <1>1, <1>2 DEF Quiet, proposals, history
<1>3. CASE Inserts
  <2>1. \E p \in Proposals :
           /\ groups' = groups /\ status[p] = "none"
           /\ \A q \in Proposals \ {p} : answers'[q] = answers[q] /\ consent'[q] = consent[q]
    BY <1>3 DEF Inserts, Insert, TypeOK
  <2> QED BY <2>1 DEF Agreed, Named
<1>4. ASSUME NEW g \in Groups, DeleteGroup(g) PROVE Agreed
  <2>1. /\ groups' = groups \ {g} /\ consent' = consent
        /\ answers' = [p \in Proposals |-> [answers[p] EXCEPT ![g] = "absent"]]
    BY <1>4 DEF DeleteGroup
  <2>2. \A p \in Proposals : Named(p)' = Named(p) \ {g}
    BY <2>1 DEF Named, TypeOK
  <2> QED BY <2>1, <2>2 DEF Agreed
<1>5. ASSUME NEW h \in Answering, NEW a, SetAnswer(request[h], a), ~Gone(request[h]),
             a # "absent", groups' = groups,
             \A p \in Proposals : consent[p] \subseteq consent'[p]
      PROVE  Agreed
  <2>1. request[h].proposal \in Proposals /\ request[h].group \in Groups
    BY AnswerType DEF Answering, Of, TypeOK
  <2>2. \A p \in Proposals : Named(p)' = Named(p)
    BY <1>5, <2>1 DEF SetAnswer, Gone, Named, TypeOK
  <2> QED BY <1>5, <2>2 DEF Agreed
<1>6. CASE Ends
  <2> PICK h \in Handlers : \/ CommitAnswerGone(h) \/ CommitDecline(h)
                            \/ \E d \in BOOLEAN : CommitAcceptance(h, d)
                            \/ CommitLeave(h) \/ CommitExpel(h) \/ CommitBlock(h)
    BY <1>6 DEF Ends, CommitAccept, CommitFormation, CommitExpansion
  <2>1. CASE CommitAnswerGone(h) \/ CommitLeave(h) \/ CommitExpel(h) \/ CommitBlock(h)
    BY <1>1, <2>1 DEF CommitAnswerGone, CommitLeave, CommitExpel, CommitBlock, history
  <2>2. CASE CommitDecline(h)
    BY <1>5, <2>2 DEF CommitDecline, Answering, history
  <2>3. ASSUME NEW d \in BOOLEAN, CommitAcceptance(h, d) PROVE Agreed
    <3>1. /\ h \in Answering /\ ~Gone(request[h]) /\ SetAnswer(request[h], "accepted")
          /\ groups' = groups
      BY <2>3 DEF CommitAcceptance, Answering
    <3>2. request[h].proposal \in Proposals
      BY <3>1, AnswerType DEF Answering, Of, TypeOK
    <3>3. \A p \in Proposals : consent[p] \subseteq consent'[p]
      BY <2>3, <3>2 DEF CommitAcceptance, TypeOK
    <3> QED BY <1>5, <3>1, <3>3
  <2> QED BY <2>1, <2>2, <2>3
<1>7. CASE \E a \in Groups, b \in Groups : UnblockGroup(a, b)
  BY <1>1, <1>7 DEF UnblockGroup, proposals, history
<1> QED BY <1>2, <1>3, <1>4, <1>6, <1>7

\* A step that begins no acceptance adds none; used for the other beginnings.
LEMMA NoAccept ==
    ASSUME request \in [Handlers -> Request], NEW h \in Handlers, NEW r, Turn(h, r),
           r.op # "accept"
    PROVE  /\ Of("accept")' \subseteq Of("accept")
           /\ \A i \in Of("accept")' : request'[i] = request[i]
BY DEF Turn, Of

\* What the beginnings put into a handler.
LEMMA Begun ==
    ASSUME NEW h \in Handlers,
           \/ \E p \in Proposals, g \in Groups : BeginAccept(h, p, g) \/ BeginDecline(h, p, g)
           \/ \E c \in Connections, g \in Groups : BeginLeave(h, g, c)
           \/ BeginExpel(h)
           \/ \E a \in Groups, b \in Groups : BeginBlock(h, a, b)
    PROVE  \/ \E p \in Proposals, g \in Groups :
                 /\ MayAnswer(p, g)
                 /\ \/ Turn(h, Accept(p, g, FALSE, {})) \/ Turn(h, Decline(p, g))
                    \/ \E S \in SUBSET Groups : /\ Complete(p, g) /\ Joining(S, p, g)
                                                /\ Turn(h, Accept(p, g, TRUE, S))
           \/ \E c \in Connections, g \in Groups : Turn(h, Leave(g, c))
           \/ \E c, g, T : Turn(h, Expelling(g, c, T)) \/ Turn(h, Sweep(c, T))
           \/ \E a \in Groups, b \in Groups : Turn(h, Block(a, b))
<1>1. CASE \E p \in Proposals, g \in Groups : BeginAccept(h, p, g) \/ BeginDecline(h, p, g)
  BY <1>1 DEF BeginAccept, BeginDecline, Begin, Turn
<1>2. CASE \E c \in Connections, g \in Groups : BeginLeave(h, g, c)
  BY <1>2 DEF BeginLeave, Begin, Turn
<1>3. CASE BeginExpel(h)
  <2>1. \/ Turn(h, Expelling(request[h].group, request[h].into, request[h].todo))
        \/ Turn(h, Sweep(request[h].into, request[h].todo))
    BY <1>3 DEF BeginExpel
  <2> QED BY <2>1, Zenon
<1>4. CASE \E a \in Groups, b \in Groups : BeginBlock(h, a, b)
  BY <1>4 DEF BeginBlock, Begin, Turn
<1> QED BY <1>1, <1>2, <1>3, <1>4

LEMMA BeginConsent ==
    ASSUME TypeInv, ConsentInv, Quiet, NEW h \in Handlers,
           \/ \E p \in Proposals, g \in Groups : BeginAccept(h, p, g) \/ BeginDecline(h, p, g)
           \/ \E c \in Connections, g \in Groups : BeginLeave(h, g, c)
           \/ BeginExpel(h)
           \/ \E a \in Groups, b \in Groups : BeginBlock(h, a, b)
    PROVE  ConsentInv'
<1> USE DEF TypeInv
<1>0. UNCHANGED <<groups, answers, consent>> /\ \A p : Named(p)' = Named(p)
  BY DEF Quiet, proposals, history, Named
<1>1. ASSUME NEW r, Turn(h, r), r.op # "accept" PROVE ConsentInv'
  BY <1>0, <1>1, NoAccept DEF TypeOK, ConsentInv
<1>2. ASSUME NEW p \in Proposals, NEW g \in Groups, NEW S \in SUBSET Groups, NEW d \in BOOLEAN,
             MayAnswer(p, g), Turn(h, Accept(p, g, d, S)),
             d => Complete(p, g) /\ Joining(S, p, g)
      PROVE  ConsentInv'
  <2> DEFINE r == Accept(p, g, d, S)
  <2>1. r.proposal = p /\ r.group = g /\ r.complete = d /\ r.joining = S
    BY DEF Accept
  <2>2. /\ request'[h] = r
        /\ \A i \in Of("accept")' : i = h \/ (i \in Of("accept") /\ request'[i] = request[i])
    BY <1>2 DEF Turn, Of, TypeOK
  <2>3. ASSUME d PROVE Named(p) \subseteq consent[p] \cup {g} /\ S \subseteq Named(p)
    <3>1. \A f \in Groups : /\ answers[p][f] \in {"absent", "pending", "accepted", "declined"}
                            /\ answers[p][f] # "declined"
                            /\ answers[p][f] = "accepted" => f \in consent[p]
      BY <1>2 DEF MayAnswer, ProposalsOK, TypeOK
    <3>2. Named(p) \subseteq consent[p] \cup {g}
      BY <1>2, <2>3, <3>1 DEF Complete, Named
    <3>3. S \subseteq AcceptedWith(p, g)
      BY <1>2, <2>3 DEF Joining, Admissible
    <3> QED BY <3>2, <3>3, <1>2 DEF AcceptedWith, MayAnswer, Named
  <2> HIDE DEF r
  <2> QED BY <1>0, <2>1, <2>2, <2>3 DEF ConsentInv
<1>3. /\ \A p, g : Decline(p, g).op # "accept" /\ Leave(p, g).op # "accept"
                   /\ Block(p, g).op # "accept"
      /\ \A c, g, T : Expelling(g, c, T).op # "accept" /\ Sweep(c, T).op # "accept"
  BY DEF Decline, Leave, Expelling, Sweep, Block, Idle
<1> QED BY Begun, <1>1, <1>2, <1>3

LEMMA ConsentNext == TypeInv /\ ConsentInv /\ [Next]_vars => ConsentInv'
<1> SUFFICES ASSUME TypeInv, ConsentInv, [Next]_vars PROVE ConsentInv'
  OBVIOUS
<1>1. CASE UNCHANGED vars
  BY <1>1 DEF ConsentInv, Named, vars, proposals, history, Of
<1>2. CASE Next
  BY <1>2, Steps, ForgetsConsent, AgreedAll, BeginConsent
<1> QED BY <1>1, <1>2

\* Members only join by the commit of a complete acceptance.
LEMMA EntryStep ==
    ASSUME TypeInv, ConsentInv, [Next]_vars,
           NEW c \in Connections, NEW g \in members'[c] \ members[c]
    PROVE  \E p \in Proposals : /\ connection'[p] = c
                                /\ g \in Named(p)
                                /\ Named(p) \subseteq consent'[p]
<1> USE DEF TypeInv
<1>1. ASSUME members' = members PROVE FALSE
  BY <1>1
<1>2. ASSUME \A d \in Connections : members'[d] \subseteq members[d] PROVE FALSE
  BY <1>2
<1>3. CASE UNCHANGED vars
  BY <1>1, <1>3 DEF vars, edges
<1>4. CASE Quiet \/ Inserts \/ \E a \in Groups, b \in Groups : UnblockGroup(a, b)
  BY <1>1, <1>4 DEF Quiet, Inserts, Insert, UnblockGroup, edges
<1>5. CASE \E f \in Groups : DeleteGroup(f)
  BY <1>2, <1>5 DEF DeleteGroup
<1>6. CASE Ends
  <2> PICK h \in Handlers : \/ CommitAnswerGone(h) \/ CommitDecline(h) \/ CommitAccept(h)
                            \/ CommitLeave(h) \/ CommitExpel(h) \/ CommitBlock(h)
                            \/ CommitExpansion(h) \/ \E d \in Connections : CommitFormation(h, d)
    BY <1>6 DEF Ends
  <2> DEFINE r == request[h]
  <2>1. CASE CommitAnswerGone(h) \/ CommitDecline(h) \/ CommitAccept(h)
    BY <1>1, <2>1 DEF CommitAnswerGone, CommitDecline, CommitAccept, edges
  <2>2. CASE CommitLeave(h) \/ CommitExpel(h) \/ CommitBlock(h)
    <3>1. \A d \in Connections : members'[d] \subseteq members[d]
      BY <2>2 DEF CommitLeave, CommitExpel, CommitBlock, Remove
    <3> QED BY <3>1, <1>2
  <2>3. ASSUME h \in Of("accept"), r.complete, ~Gone(r),
               consent' = [consent EXCEPT ![r.proposal] = @ \cup {r.group}],
               g \in r.joining, r.joining \subseteq groups, connection'[r.proposal] = c
        PROVE  \E p \in Proposals : /\ connection'[p] = c
                                    /\ g \in Named(p)
                                    /\ Named(p) \subseteq consent'[p]
    <3>1. r.proposal \in Proposals
      BY <2>3, AnswerType DEF Of, TypeOK
    <3>2. consent'[r.proposal] = consent[r.proposal] \cup {r.group}
      BY <2>3, <3>1 DEF TypeOK
    <3>3. /\ Named(r.proposal) \subseteq consent'[r.proposal]
          /\ g \in Named(r.proposal)
      BY <2>3, <3>2 DEF ConsentInv
    <3> QED BY <3>1, <3>3, <2>3
  <2>4. CASE CommitExpansion(h)
    <3>1. /\ h \in Of("accept") /\ r.complete /\ ~Gone(r)
          /\ consent' = [consent EXCEPT ![r.proposal] = @ \cup {r.group}]
          /\ r.joining \subseteq groups
          /\ r.into # Null
          /\ members' = [members EXCEPT ![r.into] = @ \cup r.joining]
          /\ connection' = connection
      BY <2>4 DEF CommitExpansion, CommitAcceptance
    <3>2. r.into = c /\ g \in r.joining
      BY <3>1 DEF TypeOK
    <3>3. connection[r.proposal] = c
      BY <3>1, <3>2 DEF IntoOK
    <3> QED BY <3>1, <3>2, <3>3, <2>3
  <2>5. ASSUME NEW d \in Connections, CommitFormation(h, d)
        PROVE  \E p \in Proposals : /\ connection'[p] = c
                                    /\ g \in Named(p)
                                    /\ Named(p) \subseteq consent'[p]
    <3>1. /\ h \in Of("accept") /\ r.complete /\ ~Gone(r)
          /\ consent' = [consent EXCEPT ![r.proposal] = @ \cup {r.group}]
          /\ r.joining \subseteq groups
          /\ members' = [members EXCEPT ![d] = r.joining]
          /\ connection' = [connection EXCEPT ![r.proposal] = d]
      BY <2>5 DEF CommitFormation, CommitAcceptance
    <3>2. d = c /\ g \in r.joining
      BY <3>1 DEF TypeOK
    <3>3. connection'[r.proposal] = c
      BY <3>1, <3>2, AnswerType DEF TypeOK, Of
    <3> QED BY <3>1, <3>2, <3>3, <2>3
  <2> QED BY <2>1, <2>2, <2>4, <2>5
<1> QED BY Steps, <1>3, <1>4, <1>5, <1>6

\* A group enters a connection only by a proposal all of whose groups have
\* accepted it at some time, however the answers of RespondToProposal overlap.
THEOREM ConnectionsEntryByConsent == Spec => EntryByConsent
<1>1. Init => ConsentInv
  BY DEF Init, ConsentInv, Of, Idle
<1>2. TypeInv /\ ConsentInv /\ [Next]_vars =>
        [\A c \in Connections : \A g \in members'[c] \ members[c] :
          \E p \in Proposals : /\ connection'[p] = c
                               /\ g \in Named(p)
                               /\ Named(p) \subseteq consent'[p]]_vars
  BY EntryStep
<1> QED BY <1>1, <1>2, TypeInit, TypeNext, ConsentNext, PTL DEF Spec, EntryByConsent
-----------------------------------------------------------------------------
(* Blocks sever.                                                           *)

\* Nor does an admission in flight bring groups together that block one
\* another, and a block in flight has seen the connections its groups share.
SeverInv ==
    /\ BlocksSever
    /\ \A i \in Of("accept") : \A c \in Live \ exposed :
          request[i].complete /\ request[i].into = c
              => ~HasBlock(members[c] \cup request[i].joining)
    /\ \A i \in Of("block") : \A c \in Live \ exposed :
          {request[i].by, request[i].group} \subseteq members[c] => request[i].seen[c] # {}

\* A step adds no member, no block and no live connection.
Shrinks ==
    /\ Live' \subseteq Live
    /\ \A c \in Connections : members'[c] \subseteq members[c]
    /\ exposed \subseteq exposed'
    /\ blocks' \subseteq blocks

LEMMA ForgetsSever ==
    ASSUME TypeInv, SeverInv, Forgets, Shrinks
    PROVE  SeverInv'
<1>1. /\ Of("accept")' \subseteq Of("accept") /\ Of("block")' \subseteq Of("block")
      /\ \A i \in Of("accept")' \cup Of("block")' : request'[i] = request[i]
  BY ForgetsAll DEF TypeInv, TypeOK, Answering, Removals
<1>2. /\ (Live \ exposed)' \subseteq Live \ exposed
      /\ \A c \in Live \ exposed : members'[c] \subseteq members[c]
  BY DEF Shrinks, Live
<1>3. \A S : HasBlock(S)' => HasBlock(S)
  BY DEF Shrinks, HasBlock, Blocked
<1>4. \A S, T : S \subseteq T /\ HasBlock(S) => HasBlock(T)
  BY DEF HasBlock
<1>5. BlocksSever'
  BY <1>2, <1>3, <1>4 DEF SeverInv, BlocksSever
<1>6. ASSUME NEW i \in Of("accept")', NEW c \in (Live \ exposed)',
             request'[i].complete, request'[i].into = c
      PROVE  ~HasBlock(members[c] \cup request[i].joining)'
  <2>1. i \in Of("accept") /\ request'[i] = request[i] /\ c \in Live \ exposed
    BY <1>1, <1>2
  <2>2. ~HasBlock(members[c] \cup request[i].joining)
    BY <2>1, <1>6 DEF SeverInv
  <2>3. members'[c] \cup request'[i].joining \subseteq members[c] \cup request[i].joining
    BY <2>1, <1>2
  <2>4. ~HasBlock(members'[c] \cup request'[i].joining)
    BY <2>2, <2>3, <1>4
  <2> QED BY <2>4, <1>3 DEF HasBlock, Blocked, Shrinks
<1>7. \A i \in Of("block")' : \A c \in (Live \ exposed)' :
          {request'[i].by, request'[i].group} \subseteq members'[c] => request'[i].seen[c] # {}
  BY <1>1, <1>2 DEF SeverInv
<1> QED BY <1>5, <1>6, <1>7 DEF SeverInv

LEMMA RemoveShrinks ==
    ASSUME TypeInv, NEW h \in Removals, Remove(h)
    PROVE  /\ Live' \subseteq Live
           /\ \A c \in Connections : members'[c] \subseteq members[c]
           /\ \A c \in Touched(request[h]) \cap Live' : members'[c] = members[c] \ {request[h].group}
BY DEF Remove, Live, TypeInv, TypeOK, Dissolved, Touched

\* The steps that add no member and no block.
LEMMA ShrinksAll ==
    ASSUME TypeInv,
           \/ Quiet \/ Inserts
           \/ \E h \in Handlers : \/ CommitAnswerGone(h) \/ CommitDecline(h) \/ CommitAccept(h)
                                  \/ CommitLeave(h) \/ CommitExpel(h)
           \/ \E a \in Groups, b \in Groups : UnblockGroup(a, b)
           \/ \E g \in Groups : DeleteGroup(g)
    PROVE  Shrinks
<1>1. CASE UNCHANGED <<state, members, exposed, blocks>>
  BY <1>1 DEF Shrinks, Live
<1>2. CASE Quiet \/ Inserts
  BY <1>1, <1>2 DEF Quiet, Inserts, Insert, edges, history
<1>3. ASSUME NEW h \in Handlers, CommitAnswerGone(h) \/ CommitDecline(h) \/ CommitAccept(h)
      PROVE  Shrinks
  BY <1>1, <1>3 DEF CommitAnswerGone, CommitDecline, CommitAccept, CommitAcceptance, edges, history
<1>4. ASSUME NEW h \in Handlers, CommitLeave(h) \/ CommitExpel(h) PROVE Shrinks
  <2>1. h \in Removals /\ Remove(h) /\ UNCHANGED <<exposed, blocks>>
    BY <1>4 DEF CommitLeave, CommitExpel, Removals
  <2> QED BY <2>1, RemoveShrinks DEF Shrinks
<1>5. ASSUME NEW a \in Groups, NEW b \in Groups, UnblockGroup(a, b) PROVE Shrinks
  BY <1>5 DEF UnblockGroup, Shrinks, edges, history, Live
<1>6. ASSUME NEW g \in Groups, DeleteGroup(g) PROVE Shrinks
  BY <1>6 DEF DeleteGroup, Shrinks, Live
<1> QED BY <1>2, <1>3, <1>4, <1>5, <1>6

LEMMA AdmitSever ==
    ASSUME TypeInv, SeverInv, Forgets, NEW h \in Handlers,
           CommitExpansion(h) \/ \E d \in Connections : CommitFormation(h, d)
    PROVE  SeverInv'
<1> USE DEF TypeInv
<1> DEFINE J == request[h].joining
<1>0. /\ Of("accept")' \subseteq Of("accept") \ {h} /\ Of("block")' \subseteq Of("block")
      /\ \A i \in Of("accept")' \cup Of("block")' : request'[i] = request[i]
      /\ h \in Of("accept") /\ request[h].complete /\ ~Gone(request[h])
      /\ blocks' = blocks
  <2>1. End(h) /\ h \in Of("accept") /\ request[h].complete /\ ~Gone(request[h]) /\ blocks' = blocks
    BY DEF CommitExpansion, CommitFormation, CommitAcceptance
  <2>2. h \notin Of("accept")'
    BY <2>1, Turned DEF End, Of, Idle, TypeOK
  <2> QED BY <2>1, <2>2, ForgetsAll DEF TypeOK, Answering, Removals
<1>1. \A S : HasBlock(S)' <=> HasBlock(S)
  BY <1>0 DEF HasBlock, Blocked
<1>2. ASSUME NEW d \in Connections,
             Live' \subseteq Live \cup {d}, exposed \subseteq exposed',
             \A c \in Connections \ {d} : members'[c] = members[c],
             d \in (Live \ exposed)' => /\ ~HasBlock(members'[d])
                                        /\ ~BlockInFlight(members'[d])
                                        /\ \A i \in Of("accept") \ {h} :
                                              ~(request[i].complete /\ request[i].into = d)
      PROVE  SeverInv'
  <2>1. BlocksSever'
    BY <1>1, <1>2 DEF SeverInv, BlocksSever, Live
  <2>2. ASSUME NEW i \in Of("accept")', NEW c \in (Live \ exposed)',
               request'[i].complete, request'[i].into = c
        PROVE  ~HasBlock(members[c] \cup request[i].joining)'
    <3>1. i \in Of("accept") \ {h} /\ request'[i] = request[i]
      BY <1>0
    <3>2. c # d
      BY <3>1, <2>2, <1>2
    <3>3. c \in Live \ exposed /\ members'[c] = members[c]
      BY <3>2, <1>2 DEF Live
    <3>4. ~HasBlock(members[c] \cup request[i].joining)
      BY <3>1, <3>3, <2>2 DEF SeverInv
    <3> QED BY <3>1, <3>3, <3>4, <1>0 DEF HasBlock, Blocked
  <2>3. ASSUME NEW i \in Of("block")', NEW c \in (Live \ exposed)',
               {request'[i].by, request'[i].group} \subseteq members'[c]
        PROVE  request'[i].seen[c] # {}
    <3>1. i \in Of("block") /\ request'[i] = request[i]
      BY <1>0
    <3>2. c # d
      BY <3>1, <2>3, <1>2 DEF BlockInFlight
    <3>3. c \in Live \ exposed /\ members'[c] = members[c]
      BY <3>2, <1>2 DEF Live
    <3> QED BY <3>1, <3>3, <2>3 DEF SeverInv
  <2> QED BY <2>1, <2>2, <2>3 DEF SeverInv
<1>3. CASE CommitExpansion(h)
  <2> DEFINE c == request[h].into
  <2>1. c \in Connections
    BY <1>0, <1>3, AcceptType DEF CommitExpansion, TypeOK, Of
  <2>2. c \in Live
    <3>1. connection[request[h].proposal] = c
      BY <1>0, <2>1 DEF IntoOK
    <3>2. request[h].proposal \in Proposals /\ status[request[h].proposal] # "deleted"
      BY <1>0, AnswerType DEF TypeOK, Of, Gone
    <3> QED BY <2>1, <3>1, <3>2 DEF ProposalsOK, Live
  <2>3. /\ members' = [members EXCEPT ![c] = @ \cup J]
        /\ state' = state
        /\ exposed' = IF BlockInFlight(members'[c]) \/ ExpansionInFlight(h, c)
                      THEN exposed \cup {c} ELSE exposed
    BY <1>3 DEF CommitExpansion
  <2>4. members'[c] = members[c] \cup J
    BY <2>1, <2>3 DEF TypeOK
  <2>5. c \in (Live \ exposed)' => c \in Live \ exposed /\ ~BlockInFlight(members'[c])
                                   /\ ~ExpansionInFlight(h, c)
    BY <2>2, <2>3
  <2>6. c \in Live \ exposed => ~HasBlock(members'[c])
    BY <1>0, <2>4 DEF SeverInv
  <2>7. /\ Live' \subseteq Live \cup {c} /\ exposed \subseteq exposed'
        /\ \A d \in Connections \ {c} : members'[d] = members[d]
    BY <2>3 DEF Live, TypeOK
  <2> HIDE DEF c
  <2> QED BY <2>1, <2>5, <2>6, <2>7, <1>2 DEF ExpansionInFlight
<1>4. ASSUME NEW d \in Connections, CommitFormation(h, d) PROVE SeverInv'
  <2>1. /\ members' = [members EXCEPT ![d] = J]
        /\ state' = [state EXCEPT ![d] = "live"]
        /\ state[d] = "none"
        /\ exposed' = IF HasBlock(J) \/ BlockInFlight(J) THEN exposed \cup {d} ELSE exposed
    BY <1>4 DEF CommitFormation
  <2>2. /\ Live' \subseteq Live \cup {d} /\ exposed \subseteq exposed'
        /\ \A c \in Connections \ {d} : members'[c] = members[c]
        /\ members'[d] = J
    BY <2>1 DEF Live, TypeOK
  <2>3. d \in (Live \ exposed)' => ~HasBlock(J) /\ ~BlockInFlight(J)
    BY <2>1
  <2>4. \A i \in Of("accept") \ {h} : request[i].into # d
    BY <2>1 DEF IntoOK
  <2> QED BY <2>2, <2>3, <2>4, <1>2
<1> QED BY <1>3, <1>4

LEMMA BlockSever ==
    ASSUME TypeInv, SeverInv, Forgets, NEW h \in Handlers, CommitBlock(h)
    PROVE  SeverInv'
<1> USE DEF TypeInv
<1> DEFINE a == request[h].by
           b == request[h].group
<1>0. /\ Of("accept")' \subseteq Of("accept") /\ Of("block")' \subseteq Of("block")
      /\ \A i \in Of("accept")' \cup Of("block")' : request'[i] = request[i]
  BY ForgetsAll DEF TypeOK, Answering, Removals
<1>1. /\ h \in Of("block") /\ h \in Removals /\ Remove(h)
      /\ blocks' = blocks \cup {<<a, b>>}
      /\ exposed' = exposed \cup JoiningInFlight(request[h])
  BY DEF CommitBlock, Removals
<1>2. /\ Live' \subseteq Live
      /\ \A c \in Connections : members'[c] \subseteq members[c]
      /\ \A c \in Touched(request[h]) \cap Live' : b \notin members'[c]
  BY <1>1, RemoveShrinks
<1>3. (Live \ exposed)' \subseteq Live \ exposed
  BY <1>1, <1>2
<1>4. \A S, T : S \subseteq T /\ ~HasBlock(T) /\ ~({a, b} \subseteq S) => ~HasBlock(S)'
  BY <1>1 DEF HasBlock, Blocked
<1>5. ASSUME NEW c \in (Live \ exposed)' PROVE ~({a, b} \subseteq members'[c])
  <2>1. {a, b} \subseteq members[c] => c \in Touched(request[h])
    BY <1>1, <1>3 DEF SeverInv, Touched, Live
  <2> QED BY <2>1, <1>2 DEF Live
<1>6. BlocksSever'
  BY <1>2, <1>3, <1>4, <1>5 DEF SeverInv, BlocksSever, Live, HasBlock, Blocked
<1>7. ASSUME NEW i \in Of("accept")', NEW c \in (Live \ exposed)',
             request'[i].complete, request'[i].into = c
      PROVE  ~HasBlock(members[c] \cup request[i].joining)'
  <2>1. i \in Of("accept") /\ request'[i] = request[i] /\ c \in Live \ exposed
    BY <1>0, <1>3
  <2>2. ~HasBlock(members[c] \cup request[i].joining)
    BY <2>1, <1>7 DEF SeverInv
  <2>3. ~({a, b} \subseteq members[c] \cup request[i].joining)
    BY <1>1, <1>7, <2>1 DEF JoiningInFlight, Live
  <2>4. members'[c] \cup request'[i].joining \subseteq members[c] \cup request[i].joining
    BY <1>2, <2>1 DEF Live
  <2> DEFINE S == members'[c] \cup request'[i].joining
  <2>5. \A x, y \in S : ~Blocked(x, y)'
    BY <2>2, <2>3, <2>4, <1>1 DEF HasBlock, Blocked
  <2> QED BY <2>5 DEF HasBlock
<1>8. \A i \in Of("block")' : \A c \in (Live \ exposed)' :
          {request'[i].by, request'[i].group} \subseteq members'[c] => request'[i].seen[c] # {}
  BY <1>0, <1>2, <1>3 DEF SeverInv, Live
<1> QED BY <1>6, <1>7, <1>8 DEF SeverInv

\* What expandConnection admits blocks no member and no other admitted group.
LEMMA AdmissibleSever ==
    ASSUME NEW c, NEW S, NEW New, Admissible(S, c, New), ~HasBlock(members[c])
    PROVE  ~HasBlock(members[c] \cup S)
BY DEF Admissible, HasBlock, Blocked

LEMMA BeginSever ==
    ASSUME TypeInv, SeverInv, Quiet, NEW h \in Handlers,
           \/ \E p \in Proposals, g \in Groups : BeginAccept(h, p, g) \/ BeginDecline(h, p, g)
           \/ \E c \in Connections, g \in Groups : BeginLeave(h, g, c)
           \/ BeginExpel(h)
           \/ \E a \in Groups, b \in Groups : BeginBlock(h, a, b)
    PROVE  SeverInv'
<1> USE DEF TypeInv
<1>0. /\ UNCHANGED <<state, members, exposed, blocks>>
      /\ Live' = Live
      /\ \A S : HasBlock(S)' = HasBlock(S)
  BY DEF Quiet, edges, history, Live, HasBlock, Blocked
<1>1. ASSUME NEW r, Turn(h, r),
             \A c \in Live \ exposed :
                 /\ r.op = "accept" /\ r.complete /\ r.into = c
                        => ~HasBlock(members[c] \cup r.joining)
                 /\ r.op = "block" /\ {r.by, r.group} \subseteq members[c] => r.seen[c] # {}
      PROVE  SeverInv'
  <2>1. /\ request'[h] = r
        /\ \A i \in Handlers \ {h} : request'[i] = request[i]
    BY <1>1, Turned DEF TypeOK
  <2>2. BlocksSever'
    BY <1>0 DEF SeverInv, BlocksSever, HasBlock, Blocked
  <2>3. ASSUME NEW i \in Of("accept")', NEW c \in (Live \ exposed)',
               request'[i].complete, request'[i].into = c
        PROVE  ~HasBlock(members[c] \cup request[i].joining)'
    <3>1. ~HasBlock(members[c] \cup request'[i].joining)
      BY <1>0, <1>1, <2>1, <2>3 DEF SeverInv, Of
    <3> QED BY <3>1, <1>0 DEF HasBlock, Blocked
  <2>4. ASSUME NEW i \in Of("block")', NEW c \in (Live \ exposed)',
               {request'[i].by, request'[i].group} \subseteq members'[c]
        PROVE  request'[i].seen[c] # {}
    <3>1. i \in Handlers /\ request'[i].op = "block" /\ c \in Live \ exposed
      BY <1>0 DEF Of
    <3>2. CASE i = h
      BY <1>0, <1>1, <2>1, <2>4, <3>1, <3>2
    <3>3. CASE i # h
      <4>1. i \in Of("block") /\ request'[i] = request[i]
        BY <2>1, <3>1, <3>3 DEF Of
      <4> QED BY <4>1, <1>0, <2>4, <3>1 DEF SeverInv
    <3> QED BY <3>2, <3>3
  <2> QED BY <2>2, <2>3, <2>4 DEF SeverInv
<1>2. ASSUME NEW p \in Proposals, NEW g \in Groups, NEW S \in SUBSET Groups, NEW d \in BOOLEAN,
             Turn(h, Accept(p, g, d, S)), d => Joining(S, p, g)
      PROVE  SeverInv'
  <2> DEFINE r == Accept(p, g, d, S)
  <2>1. r.op = "accept" /\ r.into = connection[p] /\ r.complete = d /\ r.joining = S
    BY DEF Accept
  <2>2. ASSUME NEW c \in Live \ exposed, d, connection[p] = c
        PROVE  ~HasBlock(members[c] \cup S)
    <3>1. ~HasBlock(members[c])
      BY DEF SeverInv, BlocksSever
    <3>2. Admissible(S, c, AcceptedWith(p, g) \ members[c])
      BY <1>2, <2>2, NullAssumption DEF Joining, Live
    <3> QED BY <3>1, <3>2, AdmissibleSever
  <2> HIDE DEF r
  <2> QED BY <1>1, <1>2, <2>1, <2>2 DEF r
<1>3. ASSUME NEW a \in Groups, NEW b \in Groups, Turn(h, Block(a, b)) PROVE SeverInv'
  <2> DEFINE r == Block(a, b)
  <2>1. /\ r.op = "block" /\ r.by = a /\ r.group = b
        /\ r.seen = Seen({c \in Connections : {a, b} \subseteq members[c]})
    BY DEF Block
  <2>2. \A c \in Live \ exposed : {a, b} \subseteq members[c] => r.seen[c] # {}
    BY <2>1 DEF Seen, Live
  <2> HIDE DEF r
  <2> QED BY <1>1, <1>3, <2>1, <2>2 DEF r
<1>4. /\ \A p, g : Decline(p, g).op = "decline" /\ Leave(p, g).op = "leave"
      /\ \A c, g, T : Expelling(g, c, T).op = "expelling" /\ Sweep(c, T).op \in {"idle", "sweep"}
  BY DEF Decline, Leave, Expelling, Sweep, Idle
<1>5. ASSUME NEW r, Turn(h, r), r.op \in {"decline", "leave", "expelling", "idle", "sweep"}
      PROVE  SeverInv'
  BY <1>1, <1>5
<1> QED BY Begun, <1>2, <1>3, <1>4, <1>5

LEMMA SeverNext == TypeInv /\ SeverInv /\ [Next]_vars => SeverInv'
<1> SUFFICES ASSUME TypeInv, SeverInv, [Next]_vars PROVE SeverInv'
  OBVIOUS
<1>1. CASE UNCHANGED vars
  <2>1. Forgets /\ Shrinks
    BY <1>1 DEF vars, edges, history, Forgets, Shrinks, Live
  <2> QED BY <2>1, ForgetsSever
<1>2. CASE Next
  BY <1>2, Steps, ForgetsSever, ShrinksAll, AdmitSever, BlockSever, BeginSever DEF Ends
<1> QED BY <1>1, <1>2

LEMMA SeverInit == Init => SeverInv
BY DEF Init, SeverInv, BlocksSever, HasBlock, Blocked, Live, Of, Idle

\* Groups that block one another share no connection, unless it was formed in
\* spite of the block or the block, its formation or another expansion
\* overlapped the admission.
THEOREM ConnectionsBlocksSever == Spec => []BlocksSever
<1>1. SeverInv => BlocksSever
  BY DEF SeverInv
<1> QED BY <1>1, TypeInit, TypeNext, SeverInit, SeverNext, PTL DEF Spec
-----------------------------------------------------------------------------
(* A connection lasts while it has two members.                            *)

\* A connection that no removal overlapped has two members, and a removal in
\* flight has seen its members as they are; who completes a formation is
\* joined by another.
RemovalInv ==
    /\ \A c \in Live \ overlapped : \E a, b \in members[c] : a # b
    /\ \A i \in Removals : \A c \in Connections : request[i].seen[c] # {} =>
          /\ state[c] # "none"
          /\ c \notin overlapped => request[i].seen[c] = members[c]
    /\ \A i \in Of("accept") : request[i].complete /\ request[i].into = Null =>
          \E a, b \in request[i].joining : a # b

LEMMA TwoMembers ==
    ASSUME NEW S \in SUBSET Groups
    PROVE  /\ Cardinality(S) \in Nat
           /\ \A g \in S : Cardinality(S \ {g}) = Cardinality(S) - 1
           /\ Cardinality(S) >= 2 <=> \E a, b \in S : a # b
<1>1. IsFiniteSet(S)
  BY GroupsAssumption, FS_Subset
<1>2. \A T \in SUBSET S : IsFiniteSet(T) /\ Cardinality(T) \in Nat
  BY <1>1, FS_Subset, FS_CardinalityType
<1>3. \A T \in SUBSET S : \A g \in T : Cardinality(T \ {g}) = Cardinality(T) - 1
  BY <1>2, FS_RemoveElement
<1>4. \A T \in SUBSET S : Cardinality(T) = 0 <=> T = {}
  BY <1>2, FS_EmptySet
<1>5. ASSUME NEW a \in S, NEW b \in S, a # b PROVE Cardinality(S) >= 2
  <2>1. S \ {a} \in SUBSET S /\ b \in S \ {a} /\ (S \ {a}) \ {b} \in SUBSET S
    BY <1>5
  <2>2. /\ Cardinality(S \ {a}) = Cardinality(S) - 1
        /\ Cardinality((S \ {a}) \ {b}) = Cardinality(S \ {a}) - 1
        /\ Cardinality((S \ {a}) \ {b}) \in Nat /\ Cardinality(S) \in Nat
    BY <2>1, <1>2, <1>3
  <2> QED BY <2>2
<1>6. ASSUME Cardinality(S) >= 2 PROVE \E a, b \in S : a # b
  <2>1. S # {}
    BY <1>4, <1>6
  <2> PICK a \in S : TRUE
    BY <2>1
  <2>2. Cardinality(S \ {a}) # 0
    BY <1>2, <1>3, <1>6
  <2> QED BY <2>2, <1>4
<1> QED BY <1>2, <1>3, <1>5, <1>6

\* What a removal that nothing overlapped leaves.
LEMMA RemoveCounts ==
    ASSUME TypeInv, RemovalInv, NEW h \in Removals, Remove(h), NEW c \in Connections \ overlapped
    PROVE  /\ c \in Live' => \E a, b \in members'[c] : a # b
           /\ state[c] = "live" /\ state'[c] = "gone" => Cardinality(members[c]) = 2
<1> USE DEF TypeInv
<1> DEFINE r == request[h]
           g == r.group
<1>1. /\ members'[c] = IF c \in Dissolved(r) THEN {}
                       ELSE IF c \in Touched(r) THEN members[c] \ {g} ELSE members[c]
      /\ state'[c] = IF c \in Dissolved(r) THEN "gone" ELSE state[c]
  BY DEF Remove
<1>2. members[c] \in SUBSET Groups
  BY DEF TypeOK
<1>3. c \in Live => \E a, b \in members[c] : a # b
  BY DEF RemovalInv
<1>4. CASE c \notin Touched(r)
  BY <1>1, <1>3, <1>4 DEF Dissolved, Live
<1>5. CASE c \in Touched(r)
  <2>1. r.seen[c] = members[c]
    BY <1>5 DEF RemovalInv, Touched
  <2>2. Remaining(r, c) = members[c] \ {g}
    BY <2>1 DEF Remaining
  <2>3. c \in Dissolved(r) <=> Cardinality(members[c] \ {g}) <= 1
    BY <2>2, <1>5 DEF Dissolved
  <2>4. /\ Cardinality(members[c]) \in Nat /\ Cardinality(members[c] \ {g}) \in Nat
        /\ g \in members[c] => Cardinality(members[c] \ {g}) = Cardinality(members[c]) - 1
        /\ g \notin members[c] => members[c] \ {g} = members[c]
        /\ Cardinality(members[c]) >= 2 <=> \E a, b \in members[c] : a # b
        /\ Cardinality(members[c] \ {g}) >= 2 <=> \E a, b \in members[c] \ {g} : a # b
    <3>1. members[c] \ {g} \in SUBSET Groups
      BY <1>2
    <3> QED BY <1>2, <3>1, TwoMembers
  <2> HIDE DEF g
  <2>5. c \in Live' => \E a, b \in members'[c] : a # b
    BY <1>1, <1>5, <2>3, <2>4 DEF Live
  <2>6. state[c] = "live" /\ state'[c] = "gone" => Cardinality(members[c]) = 2
    BY <1>1, <1>3, <2>3, <2>4 DEF Live
  <2> QED BY <2>5, <2>6
<1> QED BY <1>4, <1>5

LEMMA ForgetsRemoval ==
    ASSUME TypeInv, RemovalInv, Forgets, Onward, overlapped \subseteq overlapped',
           \A c \in (Live \ overlapped)' : \E a, b \in members'[c] : a # b,
           \A c \in Connections \ overlapped' : \A i \in Removals' :
               request[i].seen[c] # {} => members'[c] = members[c]
    PROVE  RemovalInv'
<1>1. /\ Of("accept")' \subseteq Of("accept") /\ Removals' \subseteq Removals
      /\ \A i \in Of("accept")' \cup Removals' : request'[i] = request[i]
  BY ForgetsAll DEF TypeInv, TypeOK, Answering
<1>2. \A i \in Removals' : \A c \in Connections : request'[i].seen[c] # {} =>
          /\ state'[c] # "none"
          /\ c \notin overlapped' => request'[i].seen[c] = members'[c]
  BY <1>1 DEF RemovalInv, Onward
<1>3. \A i \in Of("accept")' : request'[i].complete /\ request'[i].into = Null =>
          \E a, b \in request'[i].joining : a # b
  BY <1>1 DEF RemovalInv
<1> QED BY <1>2, <1>3 DEF RemovalInv

LEMMA OverlapRemoval ==
    ASSUME TypeInv, RemovalInv, Forgets, Onward, Ends \/ \E g \in Groups : DeleteGroup(g)
    PROVE  RemovalInv'
<1> USE DEF TypeInv
<1>1. CASE UNCHANGED <<state, members, overlapped>>
  BY <1>1, ForgetsRemoval DEF RemovalInv, Live
<1>2. ASSUME NEW g \in Groups, DeleteGroup(g) PROVE RemovalInv'
  <2>1. /\ overlapped' = overlapped \cup {c \in Connections : g \in members[c]}
        /\ members' = [c \in Connections |-> members[c] \ {g}]
        /\ state' = state
    BY <1>2 DEF DeleteGroup
  <2>2. \A c \in Connections \ overlapped' : members'[c] = members[c]
    BY <2>1
  <2> QED BY <2>1, <2>2, ForgetsRemoval DEF RemovalInv, Live
<1>3. ASSUME NEW h \in Handlers, CommitAnswerGone(h) \/ CommitDecline(h) \/ CommitAccept(h)
      PROVE  RemovalInv'
  BY <1>1, <1>3 DEF CommitAnswerGone, CommitDecline, CommitAccept, edges, history
<1>4. ASSUME NEW h \in Handlers, CommitLeave(h) \/ CommitExpel(h) \/ CommitBlock(h)
      PROVE  RemovalInv'
  <2>1. h \in Removals /\ Remove(h)
    BY <1>4 DEF CommitLeave, CommitExpel, CommitBlock, Removals
  <2>2. h \notin Removals'
    <3>1. \E r : Turn(h, r) /\ r.op \in {"idle", "left", "sweep"}
      <4>1. /\ Idle.op = "idle" /\ \A c : Left(c).op = "left"
            /\ \A c, T : Sweep(c, T).op \in {"idle", "sweep"}
        BY DEF Idle, Left, Sweep
      <4> QED BY <1>4, <4>1 DEF CommitLeave, CommitExpel, CommitBlock, End
    <3> QED BY <3>1, Turned DEF Removals, Of, TypeOK
  <2>3. /\ overlapped' = overlapped \cup {c \in Touched(request[h]) : Removing(h, c) # {}}
        /\ \A c \in Connections \ Touched(request[h]) : members'[c] = members[c]
    BY <2>1 DEF Remove, Dissolved
  <2>4. \A c \in (Live \ overlapped)' : \E a, b \in members'[c] : a # b
    BY <2>1, <2>3, RemoveCounts DEF Live
  <2>5. Removals' \subseteq Removals
    BY ForgetsAll DEF TypeOK
  <2>6. ASSUME NEW c \in Connections \ overlapped', NEW i \in Removals', request[i].seen[c] # {}
        PROVE  members'[c] = members[c]
    <3>1. i \in Removing(h, c)
      BY <2>2, <2>5, <2>6 DEF Removing, Removals
    <3> QED BY <2>3, <2>6, <3>1
  <2> QED BY <2>3, <2>4, <2>6, ForgetsRemoval
<1>5. ASSUME NEW h \in Handlers, CommitExpansion(h) PROVE RemovalInv'
  <2> DEFINE c == request[h].into
  <2>1. /\ h \in Of("accept")
        /\ members' = [members EXCEPT ![c] = @ \cup request[h].joining]
        /\ overlapped' = IF Removing(h, c) # {} THEN overlapped \cup {c} ELSE overlapped
        /\ state' = state
    BY <1>5 DEF CommitExpansion, CommitAcceptance
  <2>2. \A d \in Connections : members[d] \subseteq members'[d] /\ (d # c => members'[d] = members[d])
    BY <2>1 DEF TypeOK
  <2>3. h \notin Removals' /\ Removals' \subseteq Removals
    BY <2>1, ForgetsAll DEF TypeOK, Removals, Of
  <2>4. ASSUME NEW d \in Connections \ overlapped', NEW i \in Removals', request[i].seen[d] # {}
        PROVE  members'[d] = members[d]
    <3>1. i \in Removing(h, d)
      BY <2>3, <2>4 DEF Removing, Removals
    <3> QED BY <2>1, <2>2, <2>4, <3>1
  <2>5. \A d \in (Live \ overlapped)' : \E a, b \in members'[d] : a # b
    BY <2>1, <2>2 DEF RemovalInv, Live
  <2>6. overlapped \subseteq overlapped'
    BY <2>1
  <2> QED BY <2>4, <2>5, <2>6, ForgetsRemoval
<1>6. ASSUME NEW h \in Handlers, NEW d \in Connections, CommitFormation(h, d) PROVE RemovalInv'
  <2>1. /\ h \in Of("accept") /\ request[h].complete /\ request[h].into = Null
        /\ members' = [members EXCEPT ![d] = request[h].joining]
        /\ state' = [state EXCEPT ![d] = "live"]
        /\ state[d] = "none" /\ overlapped' = overlapped
    BY <1>6 DEF CommitFormation, CommitAcceptance
  <2>2. \E a, b \in request[h].joining : a # b
    BY <2>1 DEF RemovalInv
  <2>3. /\ members'[d] = request[h].joining
        /\ \A c \in Connections \ {d} : members'[c] = members[c] /\ state'[c] = state[c]
    BY <2>1 DEF TypeOK
  <2>4. \A i \in Removals' : request[i].seen[d] = {}
    BY <2>1, ForgetsAll DEF RemovalInv, TypeOK
  <2>5. \A c \in (Live \ overlapped)' : \E a, b \in members'[c] : a # b
    BY <2>1, <2>2, <2>3 DEF RemovalInv, Live
  <2> QED BY <2>1, <2>3, <2>4, <2>5, ForgetsRemoval
<1> QED BY <1>2, <1>3, <1>4, <1>5, <1>6 DEF Ends

LEMMA BeginRemoval ==
    ASSUME TypeInv, RemovalInv, Quiet, NEW h \in Handlers,
           \/ \E p \in Proposals, g \in Groups : BeginAccept(h, p, g) \/ BeginDecline(h, p, g)
           \/ \E c \in Connections, g \in Groups : BeginLeave(h, g, c)
           \/ BeginExpel(h)
           \/ \E a \in Groups, b \in Groups : BeginBlock(h, a, b)
    PROVE  RemovalInv'
<1> USE DEF TypeInv
<1>0. UNCHANGED <<state, members, overlapped>> /\ Live' = Live
  BY DEF Quiet, edges, history, Live
<1>1. ASSUME NEW r, Turn(h, r),
             r.op \in {"leave", "expelling", "block"} => \E C : r.seen = Seen(C),
             r.op = "accept" /\ r.complete /\ r.into = Null => \E a, b \in r.joining : a # b
      PROVE  RemovalInv'
  <2>1. /\ request'[h] = r
        /\ \A i \in Handlers \ {h} : request'[i] = request[i]
    BY <1>1, Turned DEF TypeOK
  <2>2. \A c \in (Live \ overlapped)' : \E a, b \in members'[c] : a # b
    BY <1>0 DEF RemovalInv
  <2>3. \A C : \A c \in Connections : Seen(C)[c] # {} =>
            Seen(C)[c] = members[c] /\ state[c] # "none"
    BY DEF Seen, TypeOK, Live
  <2>4. ASSUME NEW i \in Removals', NEW c \in Connections, request'[i].seen[c] # {}
        PROVE  state'[c] # "none" /\ (c \notin overlapped' => request'[i].seen[c] = members'[c])
    <3>1. i \in Handlers /\ request'[i].op \in {"leave", "expelling", "block"}
      BY DEF Removals, Of
    <3>2. CASE i = h
      BY <1>0, <1>1, <2>1, <2>3, <2>4, <3>1, <3>2
    <3>3. CASE i # h
      <4>1. i \in Removals /\ request'[i] = request[i]
        BY <2>1, <3>1, <3>3 DEF Removals, Of
      <4> QED BY <4>1, <1>0, <2>4 DEF RemovalInv
    <3> QED BY <3>2, <3>3
  <2>5. ASSUME NEW i \in Of("accept")', request'[i].complete, request'[i].into = Null
        PROVE  \E a, b \in request'[i].joining : a # b
    BY <1>1, <2>1, <2>5 DEF RemovalInv, Of
  <2> QED BY <2>2, <2>4, <2>5 DEF RemovalInv
<1>2. ASSUME NEW p \in Proposals, NEW g \in Groups, NEW S \in SUBSET Groups, NEW d \in BOOLEAN,
             Turn(h, Accept(p, g, d, S)), MayAnswer(p, g), d => Joining(S, p, g)
      PROVE  RemovalInv'
  <2> DEFINE r == Accept(p, g, d, S)
  <2>1. r.op = "accept" /\ r.into = connection[p] /\ r.complete = d /\ r.joining = S
    BY DEF Accept
  <2>2. ASSUME d, connection[p] = Null PROVE \E a, b \in S : a # b
    <3>1. S = AcceptedWith(p, g)
      BY <1>2, <2>2 DEF Joining
    <3>2. proposer[p] \in Groups /\ answers[p][proposer[p]] = "accepted" /\ answers[p][g] = "pending"
      BY <1>2 DEF MayAnswer, ProposalsOK
    <3>3. proposer[p] \in S /\ g \in S /\ proposer[p] # g
      BY <3>1, <3>2 DEF AcceptedWith
    <3> QED BY <3>3
  <2> HIDE DEF r
  <2> QED BY <1>1, <1>2, <2>1, <2>2 DEF r
<1>3. /\ \A p, g : /\ Decline(p, g).op = "decline"
                   /\ Leave(p, g).op = "leave" /\ Leave(p, g).seen = Seen({g})
      /\ \A a, b : /\ Block(a, b).op = "block"
                   /\ Block(a, b).seen = Seen({c \in Connections : {a, b} \subseteq members[c]})
      /\ \A c, g, T : /\ Expelling(g, c, T).op = "expelling" /\ Expelling(g, c, T).seen = Seen({c})
                      /\ Sweep(c, T).op \in {"idle", "sweep"}
  BY DEF Decline, Leave, Expelling, Sweep, Idle, Block
<1>4. ASSUME NEW r, Turn(h, r), r.op \in {"decline", "idle", "sweep"} PROVE RemovalInv'
  BY <1>1, <1>4
<1>5. ASSUME NEW r, NEW C, Turn(h, r), r.op \in {"leave", "expelling", "block"}, r.seen = Seen(C)
      PROVE  RemovalInv'
  BY <1>1, <1>5
<1>6. ASSUME NEW c \in Connections, NEW g \in Groups, Turn(h, Leave(g, c)) PROVE RemovalInv'
  <2> DEFINE r == Leave(g, c)
  <2>1. Turn(h, r) /\ r.op = "leave" /\ r.seen = Seen({c})
    BY <1>3, <1>6
  <2> QED BY <2>1, <1>5
<1>7. ASSUME NEW c, NEW g, NEW T, Turn(h, Expelling(g, c, T)) PROVE RemovalInv'
  <2> DEFINE r == Expelling(g, c, T)
  <2>1. Turn(h, r) /\ r.op = "expelling" /\ r.seen = Seen({c})
    BY <1>3, <1>7
  <2> QED BY <2>1, <1>5
<1>8. ASSUME NEW a \in Groups, NEW b \in Groups, Turn(h, Block(a, b)) PROVE RemovalInv'
  <2> DEFINE r == Block(a, b)
             C == {c \in Connections : {a, b} \subseteq members[c]}
  <2>1. Turn(h, r) /\ r.op = "block" /\ r.seen = Seen(C)
    BY <1>3, <1>8
  <2> HIDE DEF r, C
  <2> QED BY <2>1, <1>5
<1>9. /\ \A p, g : Turn(h, Decline(p, g)) => RemovalInv'
      /\ \A c, T : Turn(h, Sweep(c, T)) => RemovalInv'
  BY <1>3, <1>4
<1> QED BY Begun, <1>2, <1>6, <1>7, <1>8, <1>9

LEMMA QuietRemoval ==
    ASSUME TypeInv, RemovalInv, Forgets,
           Quiet \/ Inserts \/ \E a \in Groups, b \in Groups : UnblockGroup(a, b)
    PROVE  RemovalInv'
<1>1. UNCHANGED <<state, members, overlapped>>
  BY DEF Quiet, Inserts, Insert, UnblockGroup, edges, history
<1>2. /\ Of("accept")' \subseteq Of("accept") /\ Removals' \subseteq Removals
      /\ \A i \in Of("accept")' \cup Removals' : request'[i] = request[i]
  BY ForgetsAll DEF TypeInv, TypeOK, Answering
<1> QED BY <1>1, <1>2 DEF RemovalInv, Live

LEMMA RemovalNext == TypeInv /\ RemovalInv /\ [Next]_vars => RemovalInv'
<1> SUFFICES ASSUME TypeInv, RemovalInv, [Next]_vars PROVE RemovalInv'
  OBVIOUS
<1>1. CASE UNCHANGED vars
  BY <1>1 DEF RemovalInv, Live, Of, Removals, vars, edges, history
<1>2. CASE Next
  <2>1. CASE Forgets /\ (Ends \/ \E g \in Groups : DeleteGroup(g))
    <3>1. request' \in [Handlers -> Request]
      BY <1>2, RequestTypes
    <3>2. Onward
      BY <2>1, <3>1, AnswerTypes, AcceptTypes, BlockTypes, DeleteTypes DEF Ends
    <3> QED BY <2>1, <3>2, OverlapRemoval
  <2> QED BY <1>2, <2>1, Steps, QuietRemoval, BeginRemoval
<1> QED BY <1>1, <1>2

LEMMA DissolvedStep ==
    ASSUME TypeInv, RemovalInv, [Next]_vars, NEW c \in Connections,
           state[c] = "live", state'[c] = "gone", c \notin overlapped'
    PROVE  Cardinality(members[c]) = 2
<1>1. state' # state
  OBVIOUS
<1>2. ~Quiet /\ ~Inserts /\ ~UNCHANGED vars
  BY <1>1 DEF Quiet, Inserts, Insert, vars, edges
<1>3. ASSUME NEW g \in Groups, DeleteGroup(g) PROVE FALSE
  BY <1>1, <1>3 DEF DeleteGroup
<1>4. ASSUME NEW a \in Groups, NEW b \in Groups, UnblockGroup(a, b) PROVE FALSE
  BY <1>1, <1>4 DEF UnblockGroup, edges
<1>5. Ends
  BY Steps, <1>2, <1>3, <1>4
<1>6. ASSUME NEW h \in Handlers, \/ CommitAnswerGone(h) \/ CommitDecline(h)
                                 \/ CommitAccept(h) \/ CommitExpansion(h)
      PROVE  FALSE
  BY <1>1, <1>6 DEF CommitAnswerGone, CommitDecline, CommitAccept, CommitExpansion, edges
<1>7. ASSUME NEW h \in Handlers, NEW d \in Connections, CommitFormation(h, d) PROVE FALSE
  BY <1>7 DEF CommitFormation, TypeInv, TypeOK
<1>8. PICK h \in Handlers : CommitLeave(h) \/ CommitExpel(h) \/ CommitBlock(h)
  BY <1>5, <1>6, <1>7 DEF Ends
<1>9. h \in Removals /\ Remove(h)
  BY <1>8 DEF CommitLeave, CommitExpel, CommitBlock, Removals
<1>10. c \notin overlapped
  BY <1>9 DEF Remove
<1> QED BY <1>9, <1>10, RemoveCounts

\* Where nothing overlaps a removal and no group is deleted, LeaveConnection,
\* the sweep and the eviction of blocked groups leave a connection with at
\* least two members or delete one that had two.
THEOREM ConnectionsLiveWhileTwo == Spec => LiveWhileTwo
<1>1. Init => RemovalInv
  BY DEF Init, RemovalInv, Live, Removals, Of, Idle
<1>2. ASSUME TypeInv, TypeInv', RemovalInv, RemovalInv', [Next]_vars
      PROVE  \A c \in Connections \ overlapped' :
                /\ state'[c] = "live" => Cardinality(members'[c]) >= 2
                /\ state[c] = "live" /\ state'[c] = "gone" => Cardinality(members[c]) = 2
  <2>1. ASSUME NEW c \in Connections \ overlapped', state'[c] = "live"
        PROVE  Cardinality(members'[c]) >= 2
    <3>1. \E a, b \in members'[c] : a # b
      BY <1>2, <2>1 DEF RemovalInv, Live
    <3>2. members'[c] \in SUBSET Groups
      BY <1>2 DEF TypeInv, TypeOK
    <3> QED BY <3>1, <3>2, TwoMembers
  <2> QED BY <1>2, <2>1, DissolvedStep
<1> QED BY <1>1, <1>2, TypeInit, TypeNext, RemovalNext, PTL DEF Spec, LiveWhileTwo
=============================================================================
