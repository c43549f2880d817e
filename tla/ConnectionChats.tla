-------------------------- MODULE ConnectionChats --------------------------
(***************************************************************************)
(* Chats of one connection: the tables connection_chat_proposals, their    *)
(* votes and wrapped keys, and the signal_groups, encrypted_secrets and    *)
(* encrypted_secret_keys that an approved proposal makes.                  *)
(*                                                                         *)
(* As in Connections, a transaction reads a snapshot and writes current    *)
(* rows: Begin... reads and decides, Commit... writes.  A group has one    *)
(* admin (GroupMembership), so a group stands for its admin's user too.    *)
(* How the connection is formed and expanded is left to Connections; here  *)
(* groups join it, leave it (LeaveConnection, and the eviction of a        *)
(* blocked group, write the same) or are deleted.  A departure asks those  *)
(* who stay to rotate the secrets; the rotation is SubmitGroupRotation.    *)
(***************************************************************************)
EXTENDS Naturals, FiniteSets

CONSTANTS
    Groups,     \* groups that ever exist
    Founders,   \* members of the connection as it is formed
    Proposals,  \* bound: chat proposals that may be made
    Chats,      \* bound: chats that may be made
    Handlers,   \* bound: requests in flight at a time
    ChatLimit,  \* chats a connection may have
    Proposers,  \* bound: groups that propose chats
    Leavers,    \* bound: groups that leave
    Joiners,    \* bound: groups that join
    Deletable,  \* bound: groups that may be deleted
    Departing,  \* bound: groups whose admin may be banned or deleted
    Rotators,   \* bound: groups whose admin submits rotations
    Audiences,  \* bound: sets of admins that keys are wrapped for
    None

ASSUME GroupsAssumption ==
    IsFiniteSet(Groups) /\ Founders \subseteq Groups /\ Audiences \subseteq SUBSET Groups
ASSUME ChatsAssumption == IsFiniteSet(Chats) /\ ChatLimit \in Nat \ {0}
ASSUME NoneAssumption == None \notin Groups \cup Proposals

VARIABLES
    live,       \* the connection exists
    groups,     \* groups that exist
    members,    \* connection_members
    accounts,   \* groups whose admin's row of users exists
    seated,     \* groups whose admin is in group_members
    status,     \* connection_chat_proposals.status, or "none" or "deleted"
    proposer,   \* proposer_group_id
    signed,     \* proposals whose proposer_user_id is not NULL
    audience,   \* connection_chat_proposal_wrapped_keys
    vote,       \* connection_chat_proposal_votes
    made,       \* the proposal each chat was made of, None for a chat not made
    holders,    \* encrypted_secret_keys of the chat's secret
    rotation,   \* those rows' group_rotation_pending
    author,     \* encrypted_secrets.updated_by, None without a secret
    request,    \* what each handler is doing
    \* History, read by the properties only.
    asked,      \* groups whose vote was asked for
    consent,    \* groups that ever approved
    crossed,    \* proposals two votes overlapped on, or that lost a pending vote
    rivals,     \* two proposals, or two votes on one, were open together
    stray       \* groups whose admin may keep a key: see Strays

people    == <<groups, accounts, seated>>
proposals == <<status, proposer, signed, audience, vote>>
chats     == <<made, holders, rotation, author>>
history   == <<asked, consent, crossed, rivals, stray>>
vars      == <<live, members, people, proposals, chats, request, history>>

Pending(p) == {g \in Groups : vote[p][g] = "pending"}
Made       == {c \in Chats : made[c] # None}
MadeOf(p)  == {c \in Chats : made[c] = p}

Idle           == [op |-> "idle"]
Proposing(g, S) ==
    [op |-> "propose", group |-> g, audience |-> S, asked |-> members, signed |-> g \in seated]
Voting(p, g, yes) ==
    [op |-> "vote", proposal |-> p, group |-> g, approve |-> yes,
     last |-> Pending(p) \ {g} = {}, signed |-> p \in signed]
Leaving(g) ==
    [op |-> "leave", group |-> g, seen |-> members, chats |-> Made, seated |-> g \in seated,
     stay |-> (members \ {g}) \cap seated]
Rotating(g, c) ==
    [op |-> "rotate", group |-> g, chat |-> c, keys |-> holders[c]]

Of(op)      == {h \in Handlers : request[h].op = op}
Begin(h, r) == h \in Of("idle") /\ request' = [request EXCEPT ![h] = r]
End(h)      == request' = [request EXCEPT ![h] = Idle]

\* Handlers that decided on a vote of proposal p.
VotingOn(p) == {h \in Of("vote") : request[h].proposal = p}

\* Proposals that may still be approved.
Open == {p \in Proposals : status[p] = "pending" \/ VotingOn(p) # {}}

\* Members of S that no later departure takes the key from: they left, or
\* are leaving on a snapshot without the chat.
Strays(S) == S \ (members \ {request[h].group : h \in Of("leave")})

\* A rotation in flight that read its recipients lists group g.
InRotation(g) == \E h \in Of("rotate") : g \in request[h].keys
-----------------------------------------------------------------------------
Init ==
    /\ live = TRUE
    /\ groups = Groups
    /\ members = Founders
    /\ accounts = Groups
    /\ seated = Groups
    /\ status = [p \in Proposals |-> "none"]
    /\ proposer = [p \in Proposals |-> None]
    /\ signed = {}
    /\ audience = [p \in Proposals |-> {}]
    /\ vote = [p \in Proposals |-> [g \in Groups |-> "absent"]]
    /\ made = [c \in Chats |-> None]
    /\ holders = [c \in Chats |-> {}]
    /\ rotation = [c \in Chats |-> {}]
    /\ author = [c \in Chats |-> None]
    /\ request = [h \in Handlers |-> Idle]
    /\ asked = [p \in Proposals |-> {}]
    /\ consent = [p \in Proposals |-> {}]
    /\ crossed = {}
    /\ rivals = FALSE
    /\ stray = {}
-----------------------------------------------------------------------------
(* Proposals.                                                              *)

\* Mutant of BeginPropose: the limit is compared with <=.
BeginProposeAtLimit(h, g, S) ==
    /\ live
    /\ g \in members \cap seated
    /\ Cardinality(Made) <= ChatLimit
    /\ Begin(h, Proposing(g, S))
    /\ rivals' = (rivals \/ Open # {} \/ Of("propose") # {})
    /\ UNCHANGED <<live, members, people, proposals, chats, asked, consent, crossed, stray>>

\* ProposeSignalChat up to its first INSERT.  Nothing compares the keys with
\* the members; a chat of all members carries none (S = {}).
BeginPropose(h, g, S) ==
    /\ live
    /\ g \in members \cap seated
    /\ Cardinality(Made) < ChatLimit
    /\ Begin(h, Proposing(g, S))
    /\ rivals' = (rivals \/ Open # {} \/ Of("propose") # {})
    /\ UNCHANGED <<live, members, people, proposals, chats, asked, consent, crossed, stray>>

\* createConnectionSignalGroup: the secret needs the proposer's account and
\* keys (ok); foreign keys refuse accounts that are gone.
CreateChat(c, p, S, g, ok) ==
    /\ made[c] = None
    /\ ok => S \cup {g} \subseteq accounts
    /\ made' = [made EXCEPT ![c] = p]
    /\ holders' = [holders EXCEPT ![c] = IF ok THEN S ELSE {}]
    /\ rotation' = [rotation EXCEPT ![c] = {}]
    /\ author' = [author EXCEPT ![c] = IF ok THEN g ELSE None]
    /\ stray' = IF ok THEN stray \cup Strays(S) ELSE stray

\* The rows of proposal p: the proposer's vote is given.
InsertProposal(h, p) ==
    LET r == request[h]
    IN /\ h \in Of("propose")
       /\ live
       /\ status[p] = "none"
       /\ r.asked \subseteq groups
       /\ r.signed => r.group \in accounts
       /\ proposer' = [proposer EXCEPT ![p] = r.group]
       /\ signed' = IF r.signed THEN signed \cup {p} ELSE signed
       /\ audience' = [audience EXCEPT ![p] = r.audience]
       /\ vote' = [vote EXCEPT ![p] =
              [g \in Groups |-> IF g = r.group THEN "approved"
                                ELSE IF g \in r.asked THEN "pending" ELSE "absent"]]
       /\ asked' = [asked EXCEPT ![p] = r.asked]
       /\ consent' = [consent EXCEPT ![p] = {r.group}]
       /\ End(h)
       /\ UNCHANGED <<live, members, people, crossed, rivals>>

CommitPropose(h, p) ==
    /\ InsertProposal(h, p)
    /\ request[h].asked # {request[h].group}
    /\ status' = [status EXCEPT ![p] = "pending"]
    /\ UNCHANGED <<chats, stray>>

\* Of the only member: the chat is made at once.
CommitProposeAlone(h, p, c) ==
    LET r == request[h]
    IN /\ InsertProposal(h, p)
       /\ r.asked = {r.group}
       /\ CreateChat(c, p, r.audience, r.group, r.signed /\ r.audience # {})
       /\ status' = [status EXCEPT ![p] = "approved"]
-----------------------------------------------------------------------------
(* Votes.                                                                  *)

\* VoteOnChatProposal up to its UPDATE, by g's admin, of the connection or not.
\* After expires_at it is refused; the status stays (the UPDATE is rolled back).
BeginVote(h, p, g, yes) ==
    /\ g \in seated
    /\ status[p] = "pending"
    /\ vote[p][g] = "pending"
    /\ Begin(h, Voting(p, g, yes))
    /\ crossed' = IF VotingOn(p) # {} THEN crossed \cup {p} ELSE crossed
    /\ rivals' = (rivals \/ VotingOn(p) # {})
    /\ UNCHANGED <<live, members, people, proposals, chats, asked, consent, stray>>

\* The row of the vote, if it still exists.
SetVote(p, g, answer) ==
    vote' = IF vote[p][g] = "absent" THEN vote ELSE [vote EXCEPT ![p][g] = answer]

SetStatus(p, s) == status' = [status EXCEPT ![p] = IF @ = "deleted" THEN @ ELSE s]

\* Mutant of CommitDecline: the proposal stays pending.
CommitDeclineVoteOnly(h) ==
    LET r == request[h]
    IN /\ h \in Of("vote")
       /\ ~r.approve
       /\ SetVote(r.proposal, r.group, "declined")
       /\ End(h)
       /\ UNCHANGED <<live, members, people, status, proposer, signed, audience, chats, history>>

CommitDecline(h) ==
    LET r == request[h]
    IN /\ h \in Of("vote")
       /\ ~r.approve
       /\ SetVote(r.proposal, r.group, "declined")
       /\ SetStatus(r.proposal, "declined")
       /\ End(h)
       /\ UNCHANGED <<live, members, people, proposer, signed, audience, chats, history>>

\* The snapshot shows another pending vote; so does it the own one, if it was
\* deleted or if the UPDATE changed nothing because an equal one came first.
CommitVote(h) ==
    LET r == request[h]
    IN /\ h \in Of("vote")
       /\ r.approve
       /\ ~r.last \/ vote[r.proposal][r.group] \in {"absent", "approved"}
       /\ SetVote(r.proposal, r.group, "approved")
       /\ consent' = IF vote[r.proposal][r.group] = "absent" THEN consent
                     ELSE [consent EXCEPT ![r.proposal] = @ \cup {r.group}]
       /\ End(h)
       /\ UNCHANGED <<live, members, people, status, proposer, signed, audience, chats,
                      asked, crossed, rivals, stray>>

\* Mutant of CommitApproval: the last vote seen is compared with one pending.
CommitApprovalButOne(h, c) ==
    LET r == request[h]
        p == r.proposal
    IN /\ h \in Of("vote")
       /\ r.approve
       /\ Cardinality(Pending(p) \ {r.group}) <= 1
       /\ vote[p][r.group] # "absent"
       /\ SetVote(p, r.group, "approved")
       /\ CreateChat(c, p, audience[p], proposer[p], r.signed /\ audience[p] # {})
       /\ SetStatus(p, "approved")
       /\ consent' = [consent EXCEPT ![p] = @ \cup {r.group}]
       /\ End(h)
       /\ UNCHANGED <<live, members, people, proposer, signed, audience,
                      asked, crossed, rivals>>

\* The snapshot shows no other pending vote: the chat is made.
CommitApproval(h, c) ==
    LET r == request[h]
        p == r.proposal
    IN /\ h \in Of("vote")
       /\ r.approve /\ r.last
       /\ vote[p][r.group] # "absent"
       /\ SetVote(p, r.group, "approved")
       /\ CreateChat(c, p, audience[p], proposer[p], r.signed /\ audience[p] # {})
       /\ SetStatus(p, "approved")
       /\ consent' = [consent EXCEPT ![p] = @ \cup {r.group}]
       /\ End(h)
       /\ UNCHANGED <<live, members, people, proposer, signed, audience,
                      asked, crossed, rivals>>
-----------------------------------------------------------------------------
(* Members and people.                                                     *)

Join(g) ==
    /\ live
    /\ g \in groups \ members
    /\ members' = members \cup {g}
    /\ UNCHANGED <<live, people, proposals, chats, request, history>>

BeginLeave(h, g) ==
    /\ g \in members
    /\ Begin(h, Leaving(g))
    /\ UNCHANGED <<live, members, people, proposals, chats, history>>

\* Mutant of RevokeKeys: the keys of the leaving group are kept.
RevokeNothing(h) == UNCHANGED <<holders, rotation>>

\* RevokeConnectionSecretKeysForGroup: users and secrets of the snapshot.  The rows
\* of who leaves go, those of who stays are flagged.
RevokeKeys(h) ==
    LET r == request[h]
        gone == IF r.seated THEN {r.group} ELSE {}
    IN /\ holders' = [c \in Chats |-> IF c \in r.chats THEN holders[c] \ gone ELSE holders[c]]
       /\ rotation' = [c \in Chats |->
              IF c \in r.chats THEN (rotation[c] \cup (r.stay \cap holders[c])) \ gone
              ELSE rotation[c]]

CommitLeave(h) ==
    LET g == request[h].group
    IN /\ h \in Of("leave")
       /\ Cardinality(request[h].seen \ {g}) > 1
       /\ RevokeKeys(h)
       /\ members' = members \ {g}
       /\ stray' = IF InRotation(g) THEN stray \cup {g} ELSE stray
       /\ End(h)
       /\ UNCHANGED <<live, people, proposals, made, author, asked, consent, crossed, rivals>>

\* One or none remain on the snapshot: the connection goes, with its chats
\* and proposals.
CommitDissolve(h) ==
    /\ h \in Of("leave")
    /\ Cardinality(request[h].seen \ {request[h].group}) <= 1
    /\ live' = FALSE
    /\ members' = {}
    /\ status' = [p \in Proposals |-> IF status[p] = "none" THEN "none" ELSE "deleted"]
    /\ vote' = [p \in Proposals |-> [g \in Groups |-> "absent"]]
    /\ made' = [c \in Chats |-> None]
    /\ holders' = [c \in Chats |-> {}]
    /\ rotation' = [c \in Chats |-> {}]
    /\ author' = [c \in Chats |-> None]
    /\ End(h)
    /\ UNCHANGED <<people, proposer, signed, audience, history>>

\* GroupHandler.Delete: the cascade takes its votes and its proposals, and no
\* keys.
DeleteGroup(g) ==
    /\ g \in groups
    /\ groups' = groups \ {g}
    /\ members' = members \ {g}
    /\ seated' = seated \ {g}
    /\ status' = [p \in Proposals |-> IF proposer[p] = g THEN "deleted" ELSE status[p]]
    /\ vote' = [p \in Proposals |-> [t \in Groups |->
                   IF t = g \/ proposer[p] = g THEN "absent" ELSE vote[p][t]]]
    /\ crossed' = crossed \cup {p \in Proposals : g \in Pending(p)}
    /\ stray' = stray \cup {g}
    /\ UNCHANGED <<live, accounts, proposer, signed, audience, chats, request,
                   asked, consent, rivals>>

\* A superuser bans g's admin: only secrets of the group itself are revoked.
BanAdmin(g) ==
    /\ g \in seated
    /\ seated' = seated \ {g}
    /\ stray' = stray \cup {g}
    /\ UNCHANGED <<live, members, groups, accounts, proposals, chats, request,
                   asked, consent, crossed, rivals>>

\* UserRepository.Delete: refused while the user is some secret's updated_by.
DeleteUser(g) ==
    /\ g \in accounts
    /\ \A c \in Chats : author[c] # g
    /\ accounts' = accounts \ {g}
    /\ seated' = seated \ {g}
    /\ signed' = {p \in signed : proposer[p] # g}
    /\ holders' = [c \in Chats |-> holders[c] \ {g}]
    /\ rotation' = [c \in Chats |-> rotation[c] \ {g}]
    /\ UNCHANGED <<live, members, groups, status, proposer, audience, vote,
                   made, author, request, history>>

\* SubmitGroupRotation up to its UPDATE: a flagged holder, member or not, submits a
\* key for exactly the holders of the snapshot.
BeginRotation(h, g, c) ==
    /\ g \in rotation[c]
    /\ author[c] # None
    /\ Begin(h, Rotating(g, c))
    /\ UNCHANGED <<live, members, people, proposals, chats, history>>

\* The rows are replaced by those submitted; foreign keys refuse a secret or an
\* account that is gone.
CommitRotation(h) ==
    LET r == request[h]
    IN /\ h \in Of("rotate")
       /\ author[r.chat] # None
       /\ r.keys \cup {r.group} \subseteq accounts
       /\ holders' = [holders EXCEPT ![r.chat] = r.keys]
       /\ rotation' = [rotation EXCEPT ![r.chat] = {}]
       /\ author' = [author EXCEPT ![r.chat] = r.group]
       /\ End(h)
       /\ UNCHANGED <<live, members, people, proposals, made, history>>

\* A statement fails and the transaction rolls back, the request is cancelled
\* or the process dies.
Fail(h) ==
    /\ h \notin Of("idle")
    /\ End(h)
    /\ UNCHANGED <<live, members, people, proposals, chats, history>>

Next ==
    \/ \E g \in Joiners : Join(g)
    \/ \E g \in Deletable : DeleteGroup(g)
    \/ \E g \in Departing : BanAdmin(g) \/ DeleteUser(g)
    \/ \E h \in Handlers :
           \/ \E g \in Proposers : \E S \in Audiences : BeginPropose(h, g, S)
           \/ \E p \in Proposals : CommitPropose(h, p)
           \/ \E p \in Proposals, c \in Chats : CommitProposeAlone(h, p, c)
           \/ \E p \in Proposals, g \in Groups, yes \in BOOLEAN : BeginVote(h, p, g, yes)
           \/ CommitDecline(h)
           \/ CommitVote(h)
           \/ \E c \in Chats : CommitApproval(h, c)
           \/ \E g \in Leavers : BeginLeave(h, g)
           \/ CommitLeave(h)
           \/ CommitDissolve(h)
           \/ \E g \in Rotators, c \in Chats : BeginRotation(h, g, c)
           \/ CommitRotation(h)
           \/ Fail(h)

Spec == Init /\ [][Next]_vars
-----------------------------------------------------------------------------
Requests ==
    [op : {"idle"}]
    \cup [op : {"propose"}, group : Groups, audience : SUBSET Groups, asked : SUBSET Groups,
          signed : BOOLEAN]
    \cup [op : {"vote"}, proposal : Proposals, group : Groups, approve : BOOLEAN,
          last : BOOLEAN, signed : BOOLEAN]
    \cup [op : {"leave"}, group : Groups, seen : SUBSET Groups, chats : SUBSET Chats,
          seated : BOOLEAN, stay : SUBSET Groups]
    \cup [op : {"rotate"}, group : Groups, chat : Chats, keys : SUBSET Groups]

\* The types; members and admins exist, keys are of accounts that exist, of
\* chats of a connection that exists, and no secret's author is deleted.
TypeOK ==
    /\ live \in BOOLEAN
    /\ groups \in SUBSET Groups
    /\ members \in SUBSET groups
    /\ accounts \in SUBSET Groups
    /\ seated \in SUBSET (accounts \cap groups)
    /\ status \in [Proposals -> {"none", "pending", "approved", "declined", "deleted"}]
    /\ proposer \in [Proposals -> Groups \cup {None}]
    /\ signed \in SUBSET Proposals
    /\ audience \in [Proposals -> SUBSET Groups]
    /\ vote \in [Proposals -> [Groups -> {"absent", "pending", "approved", "declined"}]]
    /\ made \in [Chats -> Proposals \cup {None}]
    /\ holders \in [Chats -> SUBSET accounts]
    /\ rotation \in [Chats -> SUBSET Groups]
    /\ \A c \in Chats : rotation[c] \subseteq holders[c]
    /\ author \in [Chats -> accounts \cup {None}]
    /\ request \in [Handlers -> Requests]
    /\ ~live => members = {} /\ Made = {}
    /\ asked \in [Proposals -> SUBSET Groups]
    /\ consent \in [Proposals -> SUBSET Groups]
    /\ crossed \in SUBSET Proposals
    /\ rivals \in BOOLEAN
    /\ stray \in SUBSET Groups

\* A chat is made only when every group that was asked has approved, however
\* votes overlap (connections.go:1077): the only one that may be missing was
\* deleted with its vote.
ChatsAreAgreed ==
    \A c \in Made : asked[made[c]] \ consent[made[c]] \subseteq Groups \ groups

\* Votes that do not overlap decide: a proposal waits for a vote, an approved
\* one has exactly one chat, and no other has one (connections.go:1077).
VotesDecide ==
    \A p \in Proposals \ crossed :
        /\ status[p] = "pending" => Pending(p) # {}
        /\ status[p] = "approved" => \E c \in Chats : MadeOf(p) = {c}
        /\ MadeOf(p) # {} => status[p] \in {"approved", "deleted"}

\* Without two proposals open at a time the limit of chats holds, although it
\* is compared before the votes only (connections.go:861).
LimitHolds == rivals \/ Cardinality(Made) <= ChatLimit

\* The keys of a chat are its members' admins': whoever holds one otherwise
\* left before the chat was made or while it was (connections.go:1085), was
\* banned as admin, belongs to a deleted group, or left while a rotation that had
\* read him among the recipients was not yet committed (encrypted_secrets.go:425).
HoldersBelong == \A c \in Chats : holders[c] \subseteq (members \cap seated) \cup stray
=============================================================================
