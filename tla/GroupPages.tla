------------------------------ MODULE GroupPages ------------------------------
(***************************************************************************)
(* What a group shares and who is shown it: the resources, the Signal      *)
(* chats and the Meshtastic channels of one group, each with an access     *)
(* tier, its posting on the topic board, the visibility of the group, and  *)
(* the pages that list them.                                               *)
(*                                                                         *)
(* A request is a sequence of statements, each a transaction of its own:   *)
(* rights and the limits are compared by earlier statements than the one   *)
(* that writes, and a page reads its rows, the membership and the          *)
(* residence of its reader one after the other.                            *)
(***************************************************************************)
EXTENDS Accounts, Naturals, FiniteSets, FiniteSetsExt

CONSTANTS
    Joiners,    \* bound: users who join and leave the group
    Founders,   \* admins of the group at the start
    Tiers,      \* bound: access tiers in use, of each kind
    Kinds,      \* rows with a limit: "chat" and "channel"
    MaxItems,   \* bound: rows that may be made
    Limit,      \* maxSignalGroupsPerOwnerGroup, maxMeshtasticChannelsPerOwnerGroup
    Handlers,   \* bound: requests at a time
    Readers,    \* bound: handlers that read
    Editors,    \* bound: handlers that write anything but a new chat
    Viewers     \* bound: users who open pages

AllTiers == {"open", "resident", "member", "trusted", "admin_only"}

ASSUME PagesUsersAssumption ==
    Joiners \subseteq Users /\ Founders \subseteq Users /\ Viewers \subseteq Users
ASSUME PagesBoundsAssumption ==
    /\ Tiers \in [{"resource"} \cup Kinds -> SUBSET AllTiers]
    /\ Kinds \subseteq {"chat", "channel"}
    /\ {MaxItems, Limit} \subseteq Nat
    /\ Readers \subseteq Handlers /\ IsFiniteSet(Handlers)

VARIABLES
    status,   \* groups.status
    listed,   \* groups.visibility is "listed"
    rank,     \* membership of each user: "none", "member", "trusted", "admin"
    resident, \* users verified in one of the group's regions
    row,      \* resources, chats, channels and the posting, with the users a key is wrapped for
    owed,     \* chats whose key rows are flagged group_rotation_pending
    request,  \* what each handler has read and does next
    \* History, read by the properties only.
    crowd,    \* the most requests that were past their count of a kind together, or 1
    met,      \* rows whose tier the reader met, or that changed, during a request
    visible,  \* handlers whose reader might see the group during the request
    revived   \* chats and the users whose removed key row a rotation put back

group        == <<status, listed>>
people       == <<rank, resident>>
pagesKeys    == <<owed, revived>>
pagesHistory == <<crowd, met, visible>>
pagesVars    == <<group, people, row, pagesKeys, request, pagesHistory>>

Items == 1 .. MaxItems
Idle  == [op |-> "idle"]
Gone  == [kind |-> "gone", tier |-> "none", keys |-> {}]
NoRow == [kind |-> "none", tier |-> "none", keys |-> {}]
\* A posting, whose page is for the admins of the group.
Posting == [kind |-> "posting", tier |-> "admin_only", keys |-> {}]

Rows(k)       == {i \in Items : row[i].kind = k}
At(h, op)     == request[h].op = op
Turn(h, r)    == request' = [request EXCEPT ![h] = r]
IsMember(u)   == rank[u] # "none"
MayEdit(u)    == rank[u] = "admin" \/ u \in Superusers
InFlight(k)   == {h \in Handlers : At(h, "insert") /\ request[h].row.kind = k}

\* UserMeetsAccessTier.
Meets(tier, standing, isResident) ==
    \/ tier = "open"
    \/ tier = "resident" /\ isResident
    \/ tier = "member" /\ standing # "none"
    \/ tier = "trusted" /\ standing \in {"trusted", "admin"}
    \/ tier = "admin_only" /\ standing = "admin"
-----------------------------------------------------------------------------
PagesInit ==
    /\ status = "provisional" /\ listed = FALSE
    /\ rank = [u \in Users |-> IF u \in Founders THEN "admin" ELSE "none"]
    /\ resident \in SUBSET Joiners
    /\ row = [i \in Items |-> NoRow]
    /\ request = [h \in Handlers |-> Idle]
    /\ crowd = [k \in Kinds |-> 1]
    /\ met = [h \in Handlers |-> {}]
    /\ visible = {} /\ owed = {} /\ revived = {}
-----------------------------------------------------------------------------
(* History of the requests that read, kept by every action.                *)

\* A page is being read by somebody whose rights are compared.
Reading(h) ==
    /\ \/ request[h].op \in {"guard", "rows", "posting"}
       \/ request[h].op \in {"rank", "residence"} /\ ~request[h].secret
    /\ request[h].user \notin Superusers
Allowed(u) == {i \in Items : Meets(row[i].tier, rank[u], u \in resident)}
MaySee(u)  == listed \/ IsMember(u)
\* Resources that change and a posting that is made.
Changed == {i \in Items : row[i] # row'[i] /\ (row[i].kind = "resource" \/ row'[i].kind = "posting")}

Watch ==
    /\ met' = [h \in Handlers |->
           IF ~Reading(h)' THEN {}
           ELSE met[h] \cup Allowed(request[h].user)' \cup Changed]
    /\ visible' = {h \in Handlers : Reading(h)' /\ (h \in visible \/ MaySee(request[h].user)')}

Only(changed) == \* of the tables and their history
    /\ "group" \notin changed => UNCHANGED group
    /\ "people" \notin changed => UNCHANGED people
    /\ "row" \notin changed => UNCHANGED row
    /\ "keys" \notin changed => UNCHANGED pagesKeys
    /\ "crowd" \notin changed => UNCHANGED crowd
    /\ Watch
-----------------------------------------------------------------------------
(* Writing.  Before the count, a check can only refuse: they are one step. *)

BeginResource(h, u, t) ==
    /\ At(h, "idle")
    /\ IsMember(u) \/ u \in Superusers
    /\ Turn(h, [op |-> "insert", row |-> [kind |-> "resource", tier |-> t, keys |-> {}]])
    /\ Only({})

MayShare(u) == status = "active" /\ MayEdit(u)

Counted(h, k, t, keys) ==
    /\ Turn(h, [op |-> "insert", row |-> [kind |-> k, tier |-> t, keys |-> keys]])
    /\ crowd' = [crowd EXCEPT ![k] = Max({@, Cardinality(InFlight(k)) + 1})]
    /\ Only({"crowd"})

\* Mutant of BeginChat: the chats are not counted.
BeginUncounted(h, u, t, keys) ==
    /\ At(h, "idle")
    /\ MayShare(u)
    /\ keys # {} => t # "open"
    /\ Counted(h, "chat", t, keys)

\* CreateSignalGroup up to the insertion.  The wrapped keys are whatever the
\* browser sent.
BeginChat(h, u, t, keys) ==
    /\ At(h, "idle")
    /\ MayShare(u)
    /\ Cardinality(Rows("chat")) < Limit
    /\ keys # {} => t # "open"
    /\ Counted(h, "chat", t, keys)

BeginChannel(h, u, t) ==
    /\ At(h, "idle")
    /\ MayShare(u)
    /\ Cardinality(Rows("channel")) < Limit
    /\ Counted(h, "channel", t, {})

Insert(h, k) ==
    /\ At(h, "insert") /\ request[h].row.kind = k
    /\ Rows("none") # {}
    /\ row' = [row EXCEPT ![Min(Rows("none"))] = request[h].row]
    /\ Turn(h, Idle)
    /\ Only({"row"})

CreateResource(h) == Insert(h, "resource")
\* The chat and its wrapped keys, in one transaction.
CreateChat(h)     == Insert(h, "chat")
CreateChannel(h)  == Insert(h, "channel")

BeginChange(h, u, i, change) ==
    /\ At(h, "idle")
    /\ MayEdit(u)
    /\ row[i].kind = "resource"
    /\ Turn(h, [op |-> "change", item |-> i, row |-> change])
    /\ Only({})

BeginUpdateResource(h, u, i, t) ==
    BeginChange(h, u, i, [kind |-> "resource", tier |-> t, keys |-> {}])
BeginDeleteResource(h, u, i) == BeginChange(h, u, i, Gone)

\* A row that is gone by now is an error.
Change(h) ==
    /\ At(h, "change")
    /\ LET i == request[h].item
       IN row' = IF row[i].kind = "resource"
                 THEN [row EXCEPT ![i] = request[h].row] ELSE row
    /\ Turn(h, Idle)
    /\ Only({"row"})

UpdateResource(h) == At(h, "change") /\ request[h].row # Gone /\ Change(h)
DeleteResource(h) == At(h, "change") /\ request[h].row = Gone /\ Change(h)

BeginUpdate(h, u, v) ==
    /\ At(h, "idle")
    /\ MayEdit(u)
    /\ v => status = "active"
    /\ Turn(h, [op |-> "visibility", listed |-> v])
    /\ Only({})

Update(h) ==
    /\ At(h, "visibility")
    /\ listed' = request[h].listed
    /\ UNCHANGED status
    /\ Turn(h, Idle)
    /\ Only({"group"})

BeginPosting(h, u, op) ==
    /\ At(h, "idle")
    /\ MayEdit(u)
    /\ Turn(h, [op |-> op])
    /\ Only({})

BeginPost(h, u)          == BeginPosting(h, u, "post")
BeginRemovePosting(h, u) == BeginPosting(h, u, "unpost")

\* The key of the group is unique: a posting that is there is rewritten in place.
CreateOrUpdatePosting(h) ==
    /\ At(h, "post")
    /\ \/ Rows("posting") # {} /\ UNCHANGED row
       \/ /\ Rows("posting") = {} /\ Rows("none") # {}
          /\ row' = [row EXCEPT ![Min(Rows("none"))] = Posting]
    /\ Turn(h, Idle)
    /\ Only({"row"})

RemovePosting(h) ==
    /\ At(h, "unpost")
    /\ row' = [i \in Items |-> IF row[i].kind = "posting" THEN Gone ELSE row[i]]
    /\ Turn(h, Idle)
    /\ Only({"row"})

\* SubmitGroupRotation by a flagged user for exactly the users who have a row,
\* as the transaction's snapshot shows them.
BeginRotation(h, u, i) ==
    /\ At(h, "idle")
    /\ i \in owed /\ u \in row[i].keys
    /\ Turn(h, [op |-> "rotate", item |-> i, keys |-> row[i].keys])
    /\ Only({})

\* Its statements that write: every row of the chat is deleted and the rows of
\* the snapshot are inserted unflagged, whoever's row was removed meanwhile.
Rotate(h) ==
    /\ At(h, "rotate")
    /\ LET i == request[h].item
       IN /\ row' = [row EXCEPT ![i].keys = request[h].keys]
          /\ owed' = owed \ {i}
          /\ revived' = revived \cup ({i} \X (request[h].keys \ row[i].keys))
    /\ Turn(h, Idle)
    /\ Only({"row", "keys"})

\* An error or a crash before the statement that writes.
Fail(h) ==
    /\ request[h].op \in {"insert", "change", "visibility", "post", "unpost", "rotate"}
    /\ Turn(h, Idle)
    /\ Only({})
-----------------------------------------------------------------------------
(* The group and its people.                                               *)

CheckAndGraduate ==
    /\ status = "provisional"
    /\ status' = "active"
    /\ UNCHANGED <<listed, request>>
    /\ Only({"group"})

AddMember(u) ==
    /\ ~IsMember(u)
    /\ rank' = [rank EXCEPT ![u] = "member"]
    /\ UNCHANGED <<resident, request>>
    /\ Only({"people"})

\* Mutant of EndMembership: the key rows stay.
RemoveUnrevoked(u) ==
    /\ IsMember(u)
    /\ rank' = [rank EXCEPT ![u] = "none"]
    /\ UNCHANGED <<resident, request>>
    /\ Only({"people"})

\* Of the key rows, which a departure flags for a rotation if they stay.
Flag == owed' = owed \cup Rows("chat")

\* Leaving, or being removed or banned.
EndMembership(u) ==
    /\ IsMember(u)
    /\ rank' = [rank EXCEPT ![u] = "none"]
    /\ row' = [i \in Items |-> [row[i] EXCEPT !.keys = @ \ {u}]]
    /\ Flag
    /\ revived' = {p \in revived : p[2] # u}
    /\ UNCHANGED <<resident, request>>
    /\ Only({"people", "row", "keys"})

\* A member who leaves and of whom the model follows neither rank nor keys.
EndOther ==
    /\ Flag
    /\ UNCHANGED <<revived, request>>
    /\ Only({"keys"})

\* A verification in a region of the group, or the deletion of that region.
Move(u) ==
    /\ resident' = IF u \in resident THEN resident \ {u} ELSE resident \cup {u}
    /\ UNCHANGED <<rank, request>>
    /\ Only({"people"})
-----------------------------------------------------------------------------
(* Pages.                                                                  *)

Page(op, u, k) == [op |-> op, user |-> u, kind |-> k]

Open(h, op, u, k) ==
    /\ At(h, "idle") /\ h \in Readers
    /\ Turn(h, Page(op, u, k))
    /\ Only({})

\* guardUnlistedGroup, which spares superusers.
Guard(h, u, k) ==
    Open(h, IF u \in Superusers \/ listed THEN "rows" ELSE "guard", u, k)

\* The page of the group itself, whose check spares nobody.
Get(h, u) == Open(h, IF listed THEN "rows" ELSE "guard", u, "chat")

\* Mutant of CheckMember: nobody is turned away.
CheckNobody(h) ==
    /\ At(h, "guard")
    /\ Turn(h, Page("rows", request[h].user, request[h].kind))
    /\ Only({})

CheckMember(h) ==
    /\ At(h, "guard")
    /\ Turn(h, IF IsMember(request[h].user)
               THEN Page("rows", request[h].user, request[h].kind) ELSE Idle)
    /\ Only({})

ReadRows(h) ==
    /\ At(h, "rows")
    /\ Turn(h, [op |-> "rank", user |-> request[h].user, secret |-> FALSE,
                rows |-> {<<i, row[i].tier>> : i \in Rows(request[h].kind)}])
    /\ Only({})

\* GetSignalGroupSecret up to the comparison of the tier.
BeginSecret(h, u, i) ==
    /\ At(h, "idle") /\ h \in Readers
    /\ row[i].kind = "chat"
    /\ IsMember(u) \/ u \in Superusers
    /\ Turn(h, [op |-> "rank", user |-> u, secret |-> TRUE, rows |-> {<<i, row[i].tier>>}])
    /\ Only({})

ReadRank(h) ==
    /\ At(h, "rank")
    /\ Turn(h, [op |-> "residence", user |-> request[h].user, secret |-> request[h].secret,
                rows |-> request[h].rows, rank |-> rank[request[h].user]])
    /\ Only({})

\* The rows that the reader's tier allows, when the residence is read.
Shown(h) ==
    LET u == request[h].user
    IN {r[1] : r \in {q \in request[h].rows :
            u \in Superusers \/ Meets(q[2], request[h].rank, u \in resident)}}

Show(h) ==
    /\ At(h, "residence") /\ ~request[h].secret
    /\ Turn(h, Idle)
    /\ Only({})

CompareTier(h) ==
    /\ At(h, "residence") /\ request[h].secret
    /\ \/ Shown(h) = {} /\ Turn(h, Idle)
       \/ \E i \in Shown(h) : Turn(h, [op |-> "key", user |-> request[h].user, item |-> i])
    /\ Only({})

HandSecret(h) ==
    /\ At(h, "key")
    /\ request[h].user \in row[request[h].item].keys
    /\ Turn(h, Idle)
    /\ Only({})

RefuseSecret(h) ==
    /\ At(h, "key")
    /\ request[h].user \notin row[request[h].item].keys
    /\ Turn(h, Idle)
    /\ Only({})

\* The page of the posting, for admins and superusers.
BeginGetPosting(h, u) ==
    /\ At(h, "idle") /\ h \in Readers
    /\ MayEdit(u)
    /\ Turn(h, [op |-> "posting", user |-> u])
    /\ Only({})

GetPosting(h) ==
    /\ At(h, "posting")
    /\ Turn(h, Idle)
    /\ Only({})

\* What the three lists and the page of the group have in common.
ReadGroup(h) == CheckMember(h) \/ ReadRows(h)
ListPage(h)  == ReadGroup(h) \/ ReadRank(h) \/ Show(h)
-----------------------------------------------------------------------------
Write(h) ==
    \/ \E u \in Users :
           "chat" \in Kinds /\ \E t \in Tiers["chat"], keys \in SUBSET Joiners :
                                   BeginChat(h, u, t, keys)
    \/ h \in Editors /\ \E u \in Users :
           \/ \E t \in Tiers["resource"] : BeginResource(h, u, t)
           \/ "channel" \in Kinds /\ \E t \in Tiers["channel"] : BeginChannel(h, u, t)
           \/ \E i \in Items, t \in Tiers["resource"] : BeginUpdateResource(h, u, i, t)
           \/ \E i \in Items : BeginDeleteResource(h, u, i)
           \/ \E v \in BOOLEAN : BeginUpdate(h, u, v)
           \/ BeginPost(h, u) \/ BeginRemovePosting(h, u)
           \/ \E i \in Items : BeginRotation(h, u, i)
    \/ CreateResource(h) \/ CreateChat(h) \/ CreateChannel(h)
    \/ UpdateResource(h) \/ DeleteResource(h) \/ Update(h)
    \/ CreateOrUpdatePosting(h) \/ RemovePosting(h) \/ Rotate(h) \/ Fail(h)

Read(h) ==
    \/ \E u \in Viewers :
           \/ \E k \in Kinds \cup {"resource"} : Guard(h, u, k)
           \/ Get(h, u)
           \/ \E i \in Items : BeginSecret(h, u, i)
           \/ BeginGetPosting(h, u)
    \/ GetPosting(h)
    \/ ListPage(h) \/ CompareTier(h) \/ HandSecret(h) \/ RefuseSecret(h)

PagesNext ==
    \/ \E h \in Handlers : Write(h) \/ Read(h)
    \/ CheckAndGraduate
    \/ \E u \in Joiners : AddMember(u) \/ EndMembership(u) \/ Move(u)
    \/ EndOther

PagesSpec == PagesInit /\ [][PagesNext]_pagesVars
-----------------------------------------------------------------------------
\* The chats and the channels exceed their limit by no more requests than
\* counted before one of them inserted (CreateSignalGroup and
\* CreateMeshtasticChannel count outside the transaction); of postings there is
\* one at most, however many requests overlap (CreateOrUpdatePosting).
LimitHolds ==
    /\ \A k \in Kinds : Cardinality(Rows(k)) < Limit + crowd[k]
    /\ \A i, j \in Rows("posting") : i = j

\* A page shows a row only to somebody who at some instant of the request met
\* its tier, or whose row was changed during the request, and the rows of an
\* unlisted group only to somebody who was a member at some instant of it: the
\* rows are read after the visibility and before the membership.  The posting is
\* read after the rights, and may be made meanwhile.
PageWasAllowed ==
    [][\A h \in Handlers :
           /\ Show(h) /\ request[h].user \notin Superusers =>
                  h \in visible /\ Shown(h) \subseteq met[h]
           /\ GetPosting(h) /\ request[h].user \notin Superusers =>
                  Rows("posting") \subseteq met[h]]_pagesVars

\* A wrapped DEK is handed out to a member only, and to an admin only where the
\* tier is admin_only: whoever left since the tier was compared is refused,
\* because EndMembership revoked the key.  Of a superuser no more is asked than
\* that the browser wrapped the key for them.  The exception is a key row that
\* EndMembership removed and a rotation that had read the rows before put back:
\* it may be handed to whoever left, if they had passed the checks by then.
SecretToMembers ==
    [][\A h \in Handlers :
           HandSecret(h) /\ request[h].user \notin Superusers
           /\ <<request[h].item, request[h].user>> \notin revived =>
               /\ IsMember(request[h].user)
               /\ LET t == row[request[h].item].tier
                  IN t = "resident" \/ Meets(t, rank[request[h].user], TRUE)]_pagesVars
-----------------------------------------------------------------------------
(* What the proofs rest on.                                                *)

Standing == {"none", "member", "trusted", "admin"}
Tier     == AllTiers \cup {"none"}
Row      == [kind : Kinds \cup {"resource", "gone", "none"}, tier : Tier, keys : SUBSET Users]
                \cup [kind : {"posting"}, tier : {"admin_only"}, keys : SUBSET Users]

\* What a request holds at each of its steps.
RequestOK(r) ==
    /\ r.op \in {"insert", "change"} => r.row \in Row
    /\ r.op = "insert" => r.row.kind \in Kinds \cup {"resource"}
    /\ r.op = "change" => r.item \in Items /\ r.row.kind \in {"resource", "gone"}
    /\ r.op = "visibility" => r.listed \in BOOLEAN
    /\ r.op \in {"guard", "rows", "rank", "residence", "key", "posting"} => r.user \in Users
    /\ r.op \in {"guard", "rows"} => r.kind \in {"resource", "chat", "channel"}
    /\ r.op \in {"rank", "residence"} =>
           r.rows \in SUBSET (Items \X Tier) /\ r.secret \in BOOLEAN
    /\ r.op = "residence" => r.rank \in Standing
    /\ r.op \in {"key", "rotate"} => r.item \in Items
    /\ r.op = "rotate" => r.keys \in SUBSET Users

PagesTypeOK ==
    /\ status \in {"provisional", "active"} /\ listed \in BOOLEAN
    /\ rank \in [Users -> Standing] /\ resident \subseteq Users
    /\ row \in [Items -> Row]
    /\ DOMAIN request = Handlers /\ \A h \in Handlers : RequestOK(request[h])
    /\ owed \subseteq Items /\ revived \subseteq Items \X Users
    /\ crowd \in [Kinds -> Nat]
    /\ met \in [Handlers -> SUBSET Items] /\ visible \subseteq Handlers

\* A request between its count and its insertion has taken its place.
PlacesHold ==
    \A k \in Kinds : Cardinality(Rows(k)) + Cardinality(InFlight(k)) < Limit + crowd[k]

\* A page that has passed the visibility was visible.  The rows it has read have
\* the tiers it read or are noted, and so are those that its reader will be shown.
ReadingHolds(h) ==
    Reading(h) =>
        /\ ~At(h, "guard") => h \in visible
        /\ At(h, "posting") => Rows("posting") \subseteq met[h]
        /\ request[h].op \in {"rank", "residence"} =>
               \A p \in request[h].rows :
                   /\ row[p[1]].kind \notin {"none", "posting"}
                   /\ row[p[1]].tier = p[2] \/ p[1] \in met[h]
        /\ At(h, "residence") =>
               \A p \in request[h].rows :
                   Meets(p[2], request[h].rank, request[h].user \in resident) =>
                       p[1] \in met[h]
PagesHold == \A h \in Handlers : ReadingHolds(h)

\* Who has a key of a chat, not one that was put back, and is on the way to it
\* has not left meanwhile, and so has the standing that was read.
HasKey(u, i) == u \in row[i].keys \ Superusers /\ <<i, u>> \notin revived

KeyHolds(h) ==
    /\ request[h].op \in {"rank", "residence"} /\ request[h].secret =>
           \A p \in request[h].rows :
               /\ row[p[1]].kind = "chat" /\ row[p[1]].tier = p[2]
               /\ HasKey(request[h].user, p[1]) =>
                      /\ IsMember(request[h].user)
                      /\ At(h, "residence") => rank[request[h].user] = request[h].rank
    /\ At(h, "key") =>
           /\ row[request[h].item].kind = "chat"
           /\ HasKey(request[h].user, request[h].item) =>
                  /\ IsMember(request[h].user)
                  /\ LET t == row[request[h].item].tier
                     IN t = "resident" \/ Meets(t, rank[request[h].user], TRUE)
KeysHold == \A h \in Handlers : KeyHolds(h)
=============================================================================
