---------------------------- MODULE Connections ----------------------------
(***************************************************************************)
(* Connections between groups: the tables connections, connection_members, *)
(* connection_proposals, connection_proposal_groups and group_blocks, and  *)
(* the endpoints that change them.                                         *)
(*                                                                         *)
(* Every transaction here reads with plain SELECTs, so (MariaDB,           *)
(* REPEATABLE READ) it counts answers and members on the snapshot of its   *)
(* first read, overlaid with its own writes, while its UPDATE, DELETE and  *)
(* INSERT act on current rows.  A transaction is therefore two actions:    *)
(* Begin... takes the snapshot into a handler's request and decides,       *)
(* Commit... writes.  A handler is a goroutine that serves a request; a    *)
(* permission that is only read is checked with the snapshot.              *)
(*                                                                         *)
(* A formation proposal has no connection_id while it is pending, an       *)
(* expansion always has one.  Status 'expired' is never stored: the UPDATE *)
(* that would is rolled back by the error returned after it.               *)
(***************************************************************************)
EXTENDS Naturals, FiniteSets

CONSTANTS
    Groups,         \* groups that ever exist
    Proposals,      \* bound: proposals that may be made
    Connections,    \* bound: connections that may be formed
    Handlers,       \* bound: requests in flight at a time
    Expiring,       \* bound: proposals whose seven days may pass
    Proposers,      \* bound: groups that propose and invite
    Blockers,       \* bound: groups that block others
    Deletable,      \* bound: groups a superuser may delete
    Null            \* SQL's NULL, and the proposer of a proposal not made

ASSUME GroupsAssumption == IsFiniteSet(Groups)
ASSUME NullAssumption == Null \notin Connections
ASSUME ExpiringAssumption == Expiring \subseteq Proposals

VARIABLES
    groups,       \* groups that exist
    state,        \* of each connection: "none", "live" or "gone"
    members,      \* connection_members
    status,       \* connection_proposals.status, or "none" or "deleted"
    proposer,     \* proposer_group_id
    connection,   \* connection_id
    answers,      \* connection_proposal_groups
    expired,      \* proposals whose expires_at has passed
    blocks,       \* group_blocks: <<blocker, blocked>>
    request,      \* what each handler is doing
    \* History, read by the properties only.
    consent,      \* groups that ever accepted each proposal
    exposed,      \* connections a block and an admission overlooked each other in
    overlapped    \* connections whose members changed while a removal was counting

edges     == <<state, members>>
proposals == <<status, proposer, connection, answers>>
history   == <<consent, exposed, overlapped>>
vars      == <<groups, edges, proposals, expired, blocks, request, history>>

Blocked(a, b) == <<a, b>> \in blocks \/ <<b, a>> \in blocks

\* A pair of S blocks one another.
HasBlock(S) == \E a, b \in S : Blocked(a, b)

Live == {c \in Connections : state[c] = "live"}

Named(p) == {g \in Groups : answers[p][g] # "absent"}

\* connection -> the members a removal has seen, {} where it removes nobody.
Seen(C) == [c \in Connections |-> IF c \in C THEN members[c] ELSE {}]

Idle == [op |-> "idle"]
Invite(c, g, t) == [op |-> "invite", into |-> c, by |-> g, target |-> t]
Decline(p, g)   == [op |-> "decline", proposal |-> p, group |-> g]
Accept(p, g, done, S) ==
    [op |-> "accept", proposal |-> p, group |-> g, into |-> connection[p],
     complete |-> done, joining |-> S]
Leave(g, c)     == [op |-> "leave", group |-> g, into |-> c, seen |-> Seen({c})]
Left(c)         == [op |-> "left", into |-> c]
Sweep(c, T)     == IF T = {} THEN Idle ELSE [op |-> "sweep", into |-> c, todo |-> T]
Expel(c, g, T)  == [op |-> "expel", into |-> c, group |-> g, todo |-> T]
Expelling(g, c, T) ==
    [op |-> "expelling", group |-> g, into |-> c, seen |-> Seen({c}), todo |-> T]
Block(a, b)     ==
    [op |-> "block", by |-> a, group |-> b,
     seen |-> Seen({c \in Connections : {a, b} \subseteq members[c]})]

Of(op) == {h \in Handlers : request[h].op = op}

Begin(h, r) == h \in Of("idle") /\ request' = [request EXCEPT ![h] = r]
Turn(h, r)  == request' = [request EXCEPT ![h] = r]
End(h)      == Turn(h, Idle)

\* Handlers other than h that are removing somebody from connection c.
Removing(h, c) ==
    {i \in (Of("leave") \cup Of("expelling") \cup Of("block")) \ {h} : request[i].seen[c] # {}}
-----------------------------------------------------------------------------
Init ==
    /\ groups = Groups
    /\ state = [c \in Connections |-> "none"]
    /\ members = [c \in Connections |-> {}]
    /\ status = [p \in Proposals |-> "none"]
    /\ proposer = [p \in Proposals |-> Null]
    /\ connection = [p \in Proposals |-> Null]
    /\ answers = [p \in Proposals |-> [g \in Groups |-> "absent"]]
    /\ expired = {}
    /\ blocks = {}
    /\ request = [h \in Handlers |-> Idle]
    /\ consent = [p \in Proposals |-> {}]
    /\ exposed = {}
    /\ overlapped = {}
-----------------------------------------------------------------------------
(* Proposals.                                                              *)

\* The rows of a new proposal: accepted by g, to be answered by T.
Insert(p, g, c, T) ==
    /\ status[p] = "none"
    /\ status' = [status EXCEPT ![p] = "pending"]
    /\ proposer' = [proposer EXCEPT ![p] = g]
    /\ connection' = [connection EXCEPT ![p] = c]
    /\ answers' = [answers EXCEPT ![p] =
          [h \in Groups |-> IF h = g THEN "accepted"
                            ELSE IF h \in T THEN "pending" ELSE "absent"]]
    /\ consent' = [consent EXCEPT ![p] = {g}]
    /\ UNCHANGED <<groups, edges, expired, blocks, exposed, overlapped>>

\* The targets exist and are not blocked; g may be among them.
ProposeConnection(g, T, p) ==
    /\ g \in groups
    /\ T \in SUBSET groups \ {{}}
    /\ \A t \in T : ~Blocked(g, t)
    /\ Insert(p, g, Null, T)
    /\ UNCHANGED request

\* InviteToConnection up to its transaction.
BeginInvite(h, c, g, t) ==
    /\ c \in Live
    /\ t \in groups \ members[c]
    /\ g \in members[c]
    /\ \A m \in members[c] : ~Blocked(m, t)
    /\ Begin(h, Invite(c, g, t))
    /\ UNCHANGED <<groups, edges, proposals, expired, blocks, history>>

\* Its transaction asks the members of that moment; a target that has become
\* one violates the unique key, a connection or group that is gone a foreign
\* key.
CommitInvite(h, p) ==
    /\ h \in Of("invite")
    /\ LET r == request[h]
       IN /\ r.into \in Live
          /\ {r.by, r.target} \subseteq groups
          /\ r.target \notin members[r.into]
          /\ Insert(p, r.by, r.into, members[r.into] \cup {r.target})
    /\ End(h)

ExpireProposal(p) ==
    /\ status[p] = "pending"
    /\ p \notin expired
    /\ expired' = expired \cup {p}
    /\ UNCHANGED <<groups, edges, proposals, blocks, request, history>>
-----------------------------------------------------------------------------
(* Answers.                                                                *)

\* RespondToProposal's checks.
MayAnswer(p, g) ==
    /\ status[p] = "pending"
    /\ p \notin expired
    /\ answers[p][g] = "pending"

\* Mutant of Complete: one pending answer is overlooked.
CompleteButOne(p, g) == Cardinality({h \in Groups \ {g} : answers[p][h] = "pending"}) <= 1

\* COUNT(*) ... status = 'pending' is zero for a transaction that has set g's
\* row to accepted.
Complete(p, g) == \A h \in Groups \ {g} : answers[p][h] # "pending"

AcceptedWith(p, g) == {g} \cup {h \in Groups : answers[p][h] = "accepted"}

\* Mutant of Admissible: the check for blocks is dropped.
AdmissibleUnchecked(S, c, New) == S = New

\* expandConnection admits the groups in New one after the other, in any
\* order, and skips those a member, an admitted one included, is blocked with.
Admissible(S, c, New) ==
    /\ S \subseteq New
    /\ \A g \in S : \A m \in members[c] \cup S : ~Blocked(m, g)
    /\ \A g \in New \ S : \E m \in members[c] \cup S : Blocked(m, g)

\* The groups that form the connection or are added to it.
Joining(S, p, g) ==
    IF connection[p] = Null
    THEN S = AcceptedWith(p, g)
    ELSE Admissible(S, connection[p], AcceptedWith(p, g) \ members[connection[p]])

BeginAccept(h, p, g) ==
    /\ MayAnswer(p, g)
    /\ IF Complete(p, g)
       THEN \E S \in SUBSET Groups : Joining(S, p, g) /\ Begin(h, Accept(p, g, TRUE, S))
       ELSE Begin(h, Accept(p, g, FALSE, {}))
    /\ UNCHANGED <<groups, edges, proposals, expired, blocks, history>>

BeginDecline(h, p, g) ==
    /\ MayAnswer(p, g)
    /\ Begin(h, Decline(p, g))
    /\ UNCHANGED <<groups, edges, proposals, expired, blocks, history>>

\* The rows an answer updates are gone.
Gone(r) == status[r.proposal] = "deleted" \/ answers[r.proposal][r.group] = "absent"

SetAnswer(r, a) == answers' = [answers EXCEPT ![r.proposal][r.group] = a]

\* UPDATE finds no row: the transaction still counts its own answer as
\* pending.  A decline goes on to the proposal, if that is there.
CommitAnswerGone(h) ==
    /\ h \in Of("accept") \cup Of("decline")
    /\ Gone(request[h])
    /\ LET p == request[h].proposal
       IN status' = IF h \in Of("decline") /\ status[p] # "deleted"
                    THEN [status EXCEPT ![p] = "declined"] ELSE status
    /\ End(h)
    /\ UNCHANGED <<groups, edges, proposer, connection, answers, expired, blocks, history>>

CommitDecline(h) ==
    /\ h \in Of("decline")
    /\ ~Gone(request[h])
    /\ SetAnswer(request[h], "declined")
    /\ status' = [status EXCEPT ![request[h].proposal] = "declined"]
    /\ End(h)
    /\ UNCHANGED <<groups, edges, proposer, connection, expired, blocks, history>>

\* The group had accepted meanwhile, within the same second: UPDATE changes
\* nothing and again the transaction counts its own answer as pending.
CommitAcceptAgain(h) ==
    /\ h \in Of("accept")
    /\ ~Gone(request[h])
    /\ answers[request[h].proposal][request[h].group] = "accepted"
    /\ End(h)
    /\ UNCHANGED <<groups, edges, proposals, expired, blocks, history>>

\* What the commits of an acceptance have in common.
CommitAcceptance(h, done) ==
    /\ h \in Of("accept")
    /\ LET r == request[h]
       IN /\ ~Gone(r)
          /\ r.complete = done
          /\ SetAnswer(r, "accepted")
          /\ consent' = [consent EXCEPT ![r.proposal] = @ \cup {r.group}]
    /\ End(h)
    /\ UNCHANGED <<groups, proposer, expired, blocks>>

CommitAccept(h) ==
    /\ CommitAcceptance(h, FALSE)
    /\ UNCHANGED <<edges, status, connection, exposed, overlapped>>

\* A block request in flight has not seen two of S together.
BlockInFlight(S) == \E i \in Of("block") : {request[i].by, request[i].group} \subseteq S

\* Another expansion of connection c is in flight.
ExpansionInFlight(h, c) ==
    \E i \in Of("accept") \ {h} :
        request[i].complete /\ request[i].into = c

\* formConnection, with a foreign key to groups.
CommitFormation(h, c) ==
    /\ CommitAcceptance(h, TRUE)
    /\ LET r == request[h]
       IN /\ r.into = Null
          /\ r.joining \subseteq groups
          /\ state[c] = "none"
          /\ state' = [state EXCEPT ![c] = "live"]
          /\ members' = [members EXCEPT ![c] = r.joining]
          /\ connection' = [connection EXCEPT ![r.proposal] = c]
          /\ status' = [status EXCEPT ![r.proposal] = "accepted"]
          /\ exposed' = IF HasBlock(r.joining) \/ BlockInFlight(r.joining)
                        THEN exposed \cup {c} ELSE exposed
    /\ UNCHANGED overlapped

\* expandConnection: a group that has become a member is skipped.
CommitExpansion(h) ==
    /\ CommitAcceptance(h, TRUE)
    /\ LET r == request[h]
           c == r.into
       IN /\ c # Null
          /\ r.joining \subseteq groups
          /\ members' = [members EXCEPT ![c] = @ \cup r.joining]
          /\ status' = [status EXCEPT ![r.proposal] = "accepted"]
          /\ exposed' = IF BlockInFlight(members'[c]) \/ ExpansionInFlight(h, c)
                        THEN exposed \cup {c} ELSE exposed
          /\ overlapped' = IF Removing(h, c) # {}
                           THEN overlapped \cup {c} ELSE overlapped
    /\ UNCHANGED <<state, connection>>
-----------------------------------------------------------------------------
(* Leaving.                                                                *)

\* The members a removal counts are those of its snapshot, without the removed
\* group if its DELETE found that group's row.
Remaining(r, c) == r.seen[c] \ ({r.group} \cap members[c])

\* The connections a removal has found its group in.
Touched(r) == {c \in Connections : r.seen[c] # {}}

\* Mutant of Dissolved: only an empty connection is deleted.
DissolvedEmpty(r) == {c \in Touched(r) : Remaining(r, c) = {}}

Dissolved(r) == {c \in Touched(r) : Cardinality(Remaining(r, c)) <= 1}

\* Mutant of Remove: deleting a connection leaves its members' rows.
RemoveUncascaded(h) ==
    LET r == request[h]
    IN /\ members' = [c \in Connections |->
             IF c \in Touched(r) THEN members[c] \ {r.group} ELSE members[c]]
       /\ state' = [c \in Connections |-> IF c \in Dissolved(r) THEN "gone" ELSE state[c]]
       /\ status' = [p \in Proposals |->
             IF connection[p] \in Touched(r) /\ status[p] = "pending" THEN "deleted" ELSE status[p]]
       /\ overlapped' = overlapped \cup {c \in Touched(r) : Removing(h, c) # {}}

\* The writes of LeaveConnection and of evictBlockedFromSharedConnectionsTx.
Remove(h) ==
    LET r == request[h]
    IN /\ members' = [c \in Connections |->
             IF c \in Dissolved(r) THEN {}
             ELSE IF c \in Touched(r) THEN members[c] \ {r.group} ELSE members[c]]
       /\ state' = [c \in Connections |-> IF c \in Dissolved(r) THEN "gone" ELSE state[c]]
       /\ status' = [p \in Proposals |->
             IF \/ connection[p] \in Dissolved(r)
                \/ connection[p] \in Touched(r) /\ status[p] = "pending"
             THEN "deleted" ELSE status[p]]
       /\ overlapped' = overlapped \cup {c \in Touched(r) : Removing(h, c) # {}}

BeginLeave(h, g, c) ==
    /\ g \in members[c]
    /\ Begin(h, Leave(g, c))
    /\ UNCHANGED <<groups, edges, proposals, expired, blocks, history>>

CommitLeave(h) ==
    /\ h \in Of("leave")
    /\ Remove(h)
    /\ Turn(h, Left(request[h].into))
    /\ UNCHANGED <<groups, proposer, connection, answers, expired, blocks, consent, exposed>>

\* The handler loads the connection again, to check its members for blocks.
BeginSweep(h) ==
    /\ h \in Of("left")
    /\ LET c == request[h].into IN Turn(h, Sweep(c, members[c]))
    /\ UNCHANGED <<groups, edges, proposals, expired, blocks, history>>

CheckUnanimousBlock(c, g) ==
    /\ members[c] \ {g} # {}
    /\ \A m \in members[c] \ {g} : <<m, g>> \in blocks

SweepMember(h, g) ==
    /\ h \in Of("sweep")
    /\ g \in request[h].todo
    /\ LET c == request[h].into
           rest == request[h].todo \ {g}
       IN Turn(h, IF CheckUnanimousBlock(c, g) THEN Expel(c, g, rest) ELSE Sweep(c, rest))
    /\ UNCHANGED <<groups, edges, proposals, expired, blocks, history>>

\* LeaveConnection on behalf of the blocked member, if it still is one.
BeginExpel(h) ==
    /\ h \in Of("expel")
    /\ LET r == request[h]
       IN Turn(h, IF r.group \in members[r.into]
                  THEN Expelling(r.group, r.into, r.todo) ELSE Sweep(r.into, r.todo))
    /\ UNCHANGED <<groups, edges, proposals, expired, blocks, history>>

CommitExpel(h) ==
    /\ h \in Of("expelling")
    /\ Remove(h)
    /\ Turn(h, Sweep(request[h].into, request[h].todo))
    /\ UNCHANGED <<groups, proposer, connection, answers, expired, blocks, consent, exposed>>
-----------------------------------------------------------------------------
(* Blocks and deleted groups.                                              *)

\* The row of the block is inserted and locked, then the shared connections
\* are read.
BeginBlock(h, a, b) ==
    /\ a # b
    /\ {a, b} \subseteq groups
    /\ <<a, b>> \notin blocks
    /\ \A i \in Of("block") : ~(request[i].by = a /\ request[i].group = b)
    /\ Begin(h, Block(a, b))
    /\ UNCHANGED <<groups, edges, proposals, expired, blocks, history>>

\* Connections an acceptance in flight is about to bring both groups into.
JoiningInFlight(r) ==
    {c \in Connections : \E i \in Of("accept") :
        /\ request[i].complete
        /\ request[i].into = c
        /\ {r.by, r.group} \subseteq members[c] \cup request[i].joining}

\* Mutant of CommitBlock: the connections are left alone.
CommitBlockOnly(h) ==
    /\ h \in Of("block")
    /\ blocks' = blocks \cup {<<request[h].by, request[h].group>>}
    /\ exposed' = exposed \cup JoiningInFlight(request[h])
    /\ End(h)
    /\ UNCHANGED <<groups, edges, proposals, expired, consent, overlapped>>

CommitBlock(h) ==
    /\ h \in Of("block")
    /\ Remove(h)
    /\ blocks' = blocks \cup {<<request[h].by, request[h].group>>}
    /\ exposed' = exposed \cup JoiningInFlight(request[h])
    /\ End(h)
    /\ UNCHANGED <<groups, proposer, connection, answers, expired, consent>>

UnblockGroup(a, b) ==
    /\ <<a, b>> \in blocks
    /\ blocks' = blocks \ {<<a, b>>}
    /\ UNCHANGED <<groups, edges, proposals, expired, request, history>>

\* Deletion cascades to the group's memberships, proposals, answers and
\* blocks; no connection is dissolved.  A block in flight locks its groups.
DeleteGroup(g) ==
    /\ g \in groups
    /\ \A i \in Of("block") : g \notin {request[i].by, request[i].group}
    /\ groups' = groups \ {g}
    /\ members' = [c \in Connections |-> members[c] \ {g}]
    /\ status' = [p \in Proposals |->
          IF proposer[p] = g /\ status[p] # "none" THEN "deleted" ELSE status[p]]
    /\ answers' = [p \in Proposals |-> [answers[p] EXCEPT ![g] = "absent"]]
    /\ blocks' = {b \in blocks : g \notin {b[1], b[2]}}
    /\ overlapped' = overlapped \cup {c \in Connections : g \in members[c]}
    /\ UNCHANGED <<state, proposer, connection, expired, request, consent, exposed>>
-----------------------------------------------------------------------------
\* A statement fails and its transaction rolls back, the request is cancelled
\* or the process dies; the sweep goes on when an expulsion fails.
Abort(h) ==
    /\ h \notin Of("idle")
    /\ \/ End(h)
       \/ /\ h \in Of("expelling")
          /\ request[h].todo # {}
          /\ Turn(h, Sweep(request[h].into, request[h].todo))
    /\ UNCHANGED <<groups, edges, proposals, expired, blocks, history>>

Next ==
    \/ \E p \in Proposals, g \in Proposers : \E T \in SUBSET Groups : ProposeConnection(g, T, p)
    \/ \E p \in Expiring : ExpireProposal(p)
    \/ \E g \in Deletable : DeleteGroup(g)
    \/ \E a \in Blockers, b \in Groups : UnblockGroup(a, b)
    \/ \E h \in Handlers :
           \/ \E c \in Connections, g \in Groups : BeginLeave(h, g, c)
           \/ \E c \in Connections, g \in Proposers, t \in Groups : BeginInvite(h, c, g, t)
           \/ \E p \in Proposals : CommitInvite(h, p)
           \/ \E p \in Proposals, g \in Groups : BeginAccept(h, p, g) \/ BeginDecline(h, p, g)
           \/ CommitAnswerGone(h)
           \/ CommitDecline(h)
           \/ CommitAccept(h)
           \/ CommitAcceptAgain(h)
           \/ \E c \in Connections : CommitFormation(h, c)
           \/ CommitExpansion(h)
           \/ CommitLeave(h)
           \/ BeginSweep(h)
           \/ \E g \in Groups : SweepMember(h, g)
           \/ BeginExpel(h)
           \/ CommitExpel(h)
           \/ \E a \in Blockers, b \in Groups : BeginBlock(h, a, b)
           \/ CommitBlock(h)
           \/ Abort(h)

Spec == Init /\ [][Next]_vars
-----------------------------------------------------------------------------
Request ==
    [op : {"idle"}]
    \cup [op : {"invite"}, into : Connections, by : Groups, target : Groups]
    \cup [op : {"decline"}, proposal : Proposals, group : Groups]
    \cup [op : {"accept"}, proposal : Proposals, group : Groups,
          into : Connections \cup {Null}, complete : BOOLEAN, joining : SUBSET Groups]
    \cup [op : {"leave"}, group : Groups, into : Connections,
          seen : [Connections -> SUBSET Groups]]
    \cup [op : {"left"}, into : Connections]
    \cup [op : {"sweep"}, into : Connections, todo : SUBSET Groups]
    \cup [op : {"expel"}, into : Connections, group : Groups, todo : SUBSET Groups]
    \cup [op : {"expelling"}, group : Groups, into : Connections,
          seen : [Connections -> SUBSET Groups], todo : SUBSET Groups]
    \cup [op : {"block"}, by : Groups, group : Groups,
          seen : [Connections -> SUBSET Groups]]

\* The types; only a live connection has members, and only groups that exist
\* are members of a connection or part of a block.
TypeOK ==
    /\ groups \in SUBSET Groups
    /\ state \in [Connections -> {"none", "live", "gone"}]
    /\ members \in [Connections -> SUBSET groups]
    /\ \A c \in Connections \ Live : members[c] = {}
    /\ status \in [Proposals -> {"none", "pending", "accepted", "declined", "deleted"}]
    /\ proposer \in [Proposals -> Groups \cup {Null}]
    /\ connection \in [Proposals -> Connections \cup {Null}]
    /\ answers \in [Proposals -> [Groups -> {"absent", "pending", "accepted", "declined"}]]
    /\ expired \in SUBSET Proposals
    /\ blocks \in SUBSET (groups \X groups)
    /\ request \in [Handlers -> Request]
    /\ consent \in [Proposals -> SUBSET Groups]
    /\ exposed \in SUBSET Connections
    /\ overlapped \in SUBSET Connections

\* Two groups of one connection block each other only if the connection was
\* formed in spite of the block, or if the block, the connection's formation
\* or another expansion overlapped the admission: otherwise no sequence of
\* proposals, answers, blocks, leaves and sweeps brings them together or
\* leaves them together.
BlocksSever == \A c \in Live \ exposed : ~HasBlock(members[c])

\* A group enters a connection by a proposal only, and only when every group
\* the proposal names has accepted it at some time: no overlap of answers
\* counts one that was not given.
EntryByConsent ==
    [][\A c \in Connections : \A g \in members'[c] \ members[c] :
          \E p \in Proposals : /\ connection'[p] = c
                               /\ g \in Named(p)
                               /\ Named(p) \subseteq consent'[p]]_vars

\* A connection lasts exactly as long as it has two members: a step leaves two
\* of them or deletes the connection of the last two.  The exceptions are
\* removals that overlap with another or with an admission, and a group that
\* was deleted.
LiveWhileTwo ==
    [][\A c \in Connections \ overlapped' :
          /\ state'[c] = "live" => Cardinality(members'[c]) >= 2
          /\ state[c] = "live" /\ state'[c] = "gone" => Cardinality(members[c]) = 2]_vars
=============================================================================
