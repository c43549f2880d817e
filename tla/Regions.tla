------------------------------ MODULE Regions ------------------------------
(***************************************************************************)
(* The tree of regions: state, county, city, locality, neighborhood.       *)
(* Verification requests walk down the names of an address and make the    *)
(* regions that are missing, administrators make, rename and superusers    *)
(* delete regions.                                                         *)
(*                                                                         *)
(* A walk looks a region up, asks an outside service for its boundary and  *)
(* looks it up again, locked, in the transaction that makes it (of two     *)
(* that overlap one fails).  RegionHandler looks up once.  parent_region_id *)
(* has no foreign key since migration 006 dropped the first of the table.  *)
(***************************************************************************)
EXTENDS Naturals, FiniteSets

CONSTANTS
    Ids,         \* bound: rows geographic_regions ever holds
    Sites,       \* addresses; a region made by hand takes its names from one
    Names,
    Name,        \* Name[s][t]: the geocoder's name of s at level t, or None
    Boundary,    \* Boundary[n]: the name that n's boundary comes with
    Users,
    Superusers,
    Full,        \* users with both verifications
    MaxOdd,      \* bound: regions made by hand or renamed
    Handlers,    \* bound: requests in flight at a time
    ByHand,      \* bound: levels of regions made by hand
    Manual,      \* bound: handlers of requests by hand
    Renames,     \* bound: names that regions are given
    MaxCards,    \* bound: verification requests at a time
    None

Types == {"state", "county", "city", "locality", "neighborhood", "city_block"}

ASSUME IdsAssumption == IsFiniteSet(Ids) /\ None \notin Ids
ASSUME NamesAssumption ==
    /\ Name \in [Sites -> [Types -> Names \cup {None}]]
    /\ \A s \in Sites, t \in {"state", "county", "city"} : Name[s][t] # None
    /\ Boundary \in [Names -> Names]
    /\ Renames \subseteq Names
    /\ None \notin Types
ASSUME ByHandAssumption == ByHand \subseteq Types
ASSUME SuperusersAssumption == Superusers \subseteq Users

VARIABLES
    row,      \* whether the row of an id is "free", "live" or "deleted"
    name, type, parent,
    member,   \* user_regions
    admin,    \* user_regions with is_admin
    cards,    \* verification_requests: who asked for a card, for which region
    request,  \* what each handler is doing
    odd,      \* history: rows made by hand, renamed, or made under a name not looked up
    handmade  \* history: rows of which Create of RegionHandler chose the parent

rows   == <<row, name, type, parent, odd, handmade>>
people == <<member, admin, cards>>
vars   == <<rows, people, request>>

Live == {i \in Ids : row[i] = "live"}

Idle == [op |-> "idle"]
Walk(u, s, t, p, goal) ==
    [op |-> "walk", user |-> u, site |-> s, type |-> t, parent |-> p, goal |-> goal]
Missing(q) ==
    [op |-> "missing", user |-> q.user, site |-> q.site, type |-> q.type, parent |-> q.parent,
     goal |-> q.goal]
Make(u, s, t, p) == [op |-> "make", user |-> u, site |-> s, type |-> t, parent |-> p]
Valid(q) ==
    [op |-> "valid", user |-> q.user, site |-> q.site, type |-> q.type, parent |-> q.parent]
Arrive(u, i) == [op |-> "arrived", user |-> u, region |-> i]
Lead(u, i)   == [op |-> "lead", user |-> u, region |-> i]
Rename(u, i) == [op |-> "rename", user |-> u, region |-> i]

Goals == {"verify", "county", "city"}
Requests ==
    {Idle}
    \cup [op : {"walk", "missing"}, user : Users, site : Sites, type : Types,
          parent : Ids \cup {None}, goal : Goals]
    \cup [op : {"make", "valid"}, user : Users, site : Sites, type : Types,
          parent : Ids \cup {None}]
    \cup [op : {"arrived", "lead", "rename"}, user : Users, region : Ids]

Turn(h, q) == request' = [request EXCEPT ![h] = q]
-----------------------------------------------------------------------------
Init ==
    /\ row = [i \in Ids |-> "free"]
    /\ name = [i \in Ids |-> None]
    /\ type = [i \in Ids |-> None]
    /\ parent = [i \in Ids |-> None]
    /\ member = [u \in Users |-> {}]
    /\ admin = [u \in Users |-> {}]
    /\ cards = {}
    /\ request = [h \in Handlers |-> Idle]
    /\ odd = {}
    /\ handmade = {}

\* A row is inserted; nothing checks that its parent is still there.
Insert(i, n, t, p) ==
    /\ row[i] = "free"
    /\ row' = [row EXCEPT ![i] = "live"]
    /\ name' = [name EXCEPT ![i] = n]
    /\ type' = [type EXCEPT ![i] = t]
    /\ parent' = [parent EXCEPT ![i] = p]
    /\ UNCHANGED people
-----------------------------------------------------------------------------
(* Walks.                                                                  *)

\* Localities and neighborhoods are looked up under their parent, the others by
\* name and type alone.
Local == {"locality", "neighborhood"}
Known(n, t, p) ==
    {i \in Live : name[i] = n /\ type[i] = t /\ (t \in Local => parent[i] = p)}

\* A county or a city is made under the name it was looked up by, the others under
\* the name of the boundary, which for a state is also what the lock looks for.
Given(t, n)  == IF t \in {"county", "city"} THEN n ELSE Boundary[n]
Sought(t, n) == IF t = "state" THEN Boundary[n] ELSE n

\* What the look that locks finds, for a level that the first look found missing.
KnownLocked(q) == Known(Sought(q.type, Name[q.site][q.type]), q.type, q.parent)

\* The next level at which s has a name; "done" after the last.
Below(s, t) ==
    IF t = "state" THEN "county"
    ELSE IF t = "county" THEN "city"
    ELSE IF t = "city" /\ Name[s]["locality"] # None THEN "locality"
    ELSE IF t \in {"city", "locality"} /\ Name[s]["neighborhood"] # None THEN "neighborhood"
    ELSE "done"

\* What follows once level q.type is settled as x: the region of a verification,
\* the region made by hand, or the next level.
After(q, x) ==
    LET t == Below(q.site, q.type) IN
    IF t = "done" THEN Arrive(q.user, x)
    ELSE IF q.goal = t THEN Make(q.user, q.site, t, x)
    ELSE Walk(q.user, q.site, t, x, q.goal)

\* RequestPostcardVerification, when no region of a city or below holds the address.
StartWalk(h, u, s) ==
    /\ request[h] = Idle
    /\ Turn(h, Walk(u, s, "state", None, "verify"))
    /\ UNCHANGED <<rows, people>>

\* ... and when one does, or the request names it.
UseExisting(h, u, i) ==
    /\ request[h] = Idle
    /\ i \in Live
    /\ type[i] \notin {"state", "county"}
    /\ Turn(h, Arrive(u, i))
    /\ UNCHANGED <<rows, people>>

\* The quick look at one level, and the call of the boundary service.
Lookup(h) ==
    /\ request[h].op = "walk"
    /\ LET q == request[h]
           known == Known(Name[q.site][q.type], q.type, q.parent) IN
       \/ \E x \in known : Turn(h, After(q, x))
       \/ known = {} /\ Turn(h, Missing(q))
    /\ UNCHANGED <<rows, people>>

\* Mutant of CreateLocked: the second look is left out.
CreateUnchecked(h, i) ==
    /\ request[h].op = "missing" /\ request[h].goal = "verify"
    /\ LET q == request[h]
           asked == Name[q.site][q.type] IN
       /\ Insert(i, Given(q.type, asked), q.type, q.parent)
       /\ odd' = IF Given(q.type, asked) = Sought(q.type, asked) THEN odd ELSE odd \cup {i}
       /\ handmade' = handmade
       /\ Turn(h, After(q, i))

\* The transaction of a walk: a second look that locks, then the insert.
CreateLocked(h, i) ==
    /\ request[h].op = "missing" /\ request[h].goal = "verify"
    /\ LET q == request[h]
           asked == Name[q.site][q.type] IN
       \/ \E x \in KnownLocked(q) : Turn(h, After(q, x)) /\ UNCHANGED <<rows, people>>
       \/ /\ KnownLocked(q) = {}
          /\ Insert(i, Given(q.type, asked), q.type, q.parent)
          /\ odd' = IF Given(q.type, asked) = Sought(q.type, asked) THEN odd ELSE odd \cup {i}
          /\ handmade' = handmade
          /\ Turn(h, After(q, i))

\* A locality or a neighborhood that cannot be made is skipped.
SkipLocal(h) ==
    /\ request[h].op \in {"walk", "missing"}
    /\ request[h].type \in Local
    /\ Turn(h, After(request[h], request[h].parent))
    /\ UNCHANGED <<rows, people>>
-----------------------------------------------------------------------------
(* Cards and memberships.                                                  *)

\* region_id of a verification request has a foreign key.
AddCard(h) ==
    /\ request[h].op = "arrived"
    /\ request[h].region \in Live
    /\ Cardinality(cards) < MaxCards
    /\ cards' = cards \cup {<<request[h].user, request[h].region>>}
    /\ Turn(h, Idle)
    /\ UNCHANGED <<rows, member, admin>>

\* VerifyCode; users who hold both verifications administer the region.
Redeem(u, i) ==
    /\ <<u, i>> \in cards
    /\ member' = [member EXCEPT ![u] = @ \cup {i}]
    /\ admin' = IF u \in Full THEN [admin EXCEPT ![u] = @ \cup {i}] ELSE admin
    /\ UNCHANGED <<rows, cards, request>>

DropCard(u, i) ==
    /\ <<u, i>> \in cards
    /\ cards' = cards \ {<<u, i>>}
    /\ UNCHANGED <<rows, member, admin, request>>
-----------------------------------------------------------------------------
(* RegionHandler.                                                          *)

\* The type a parent must have, in validateTypeParentHierarchy.
ParentType ==
    [t \in {"county", "city", "neighborhood", "city_block"} |->
        CASE t = "county" -> "state"
          [] t = "city" -> "county"
          [] t = "neighborhood" -> "city"
          [] OTHER -> "neighborhood"]

\* Whoever is not a superuser stays within a region he administers (every site is in the US).
MayCreate(u) == u \in Superusers \/ admin[u] # {}

\* A county or a city without a parent has its parents made.
BeginCreate(h, u, s, t, p) ==
    /\ h \in Manual /\ Cardinality(odd) < MaxOdd
    /\ request[h] = Idle
    /\ MayCreate(u)
    /\ Name[s][t] # None
    /\ \/ p # None /\ Turn(h, Make(u, s, t, p))
       \/ p = None /\ t \in {"state", "locality"} /\ Turn(h, Make(u, s, t, None))
       \/ p = None /\ t \in {"county", "city"} /\ Turn(h, Walk(u, s, "state", None, t))
    /\ UNCHANGED <<rows, people>>

\* getOrCreateStateRegion and getOrCreateCountyRegion look only once.
CreateParent(h, i) ==
    /\ request[h].op = "missing" /\ request[h].goal # "verify"
    /\ LET q == request[h] IN
       /\ Insert(i, Boundary[Name[q.site][q.type]], q.type, q.parent)
       /\ odd' = odd \cup {i}
       /\ handmade' = handmade
       /\ Turn(h, After(q, i))

\* Mutant of Validate: any region will do as a parent.
ValidateExists(h) ==
    /\ request[h].op = "make"
    /\ request[h].parent \in Live \/ request[h].type \in {"state", "locality"}
    /\ Turn(h, Valid(request[h]))
    /\ UNCHANGED <<rows, people>>

\* A locality passes with any parent.
Validate(h) ==
    /\ request[h].op = "make"
    /\ LET q == request[h] IN
       /\ q.type = "state" => q.parent = None
       /\ q.type \in DOMAIN ParentType => q.parent \in Live /\ type[q.parent] = ParentType[q.type]
       /\ Turn(h, Valid(q))
    /\ UNCHANGED <<rows, people>>

CreateRegion(h, i) ==
    /\ request[h].op = "valid"
    /\ LET q == request[h] IN
       /\ Insert(i, Name[q.site][q.type], q.type, q.parent)
       /\ odd' = odd \cup {i}
       /\ handmade' = handmade \cup {i}
       /\ Turn(h, Lead(q.user, i))

\* Mutant of AddCreator: user_regions takes a region that is gone.
AddCreatorAnyway(h) ==
    /\ request[h].op = "lead"
    /\ LET q == request[h] IN
       /\ member' = [member EXCEPT ![q.user] = @ \cup {q.region}]
       /\ admin' = [admin EXCEPT ![q.user] = @ \cup {q.region}]
    /\ Turn(h, Idle)
    /\ UNCHANGED <<rows, cards>>

\* AddUserToRegion; region_id of user_regions has a foreign key.
AddCreator(h) ==
    /\ request[h].op = "lead"
    /\ request[h].region \in Live
    /\ LET q == request[h] IN
       /\ member' = [member EXCEPT ![q.user] = @ \cup {q.region}]
       /\ admin' = [admin EXCEPT ![q.user] = @ \cup {q.region}]
    /\ Turn(h, Idle)
    /\ UNCHANGED <<rows, cards>>

\* The regions of S and all above them.
Upward(S) ==
    LET up[n \in 0 .. Cardinality(Ids)] ==
            IF n = 0 THEN S
            ELSE up[n - 1] \cup {parent[i] : i \in up[n - 1] \cap Live}
    IN  up[Cardinality(Ids)] \cap Live

IsUserAdmin(u, i) == i \in Upward(admin[u])

BeginUpdate(h, u, i) ==
    /\ h \in Manual /\ Cardinality(odd) < MaxOdd
    /\ request[h] = Idle
    /\ i \in Live
    /\ u \in Superusers \/ IsUserAdmin(u, i)
    /\ Turn(h, Rename(u, i))
    /\ UNCHANGED <<rows, people>>

Update(h, n) ==
    /\ request[h].op = "rename"
    /\ request[h].region \in Live
    /\ name' = [name EXCEPT ![request[h].region] = n]
    /\ odd' = odd \cup {request[h].region}
    /\ Turn(h, Idle)
    /\ UNCHANGED <<row, type, parent, handmade, people>>

Children(i) == {j \in Live : parent[j] = i}

\* Mutant of Delete: the memberships of the children stay.
DeleteShallow(u, i) ==
    /\ u \in Superusers
    /\ i \in Live
    /\ LET S == {i} \cup Children(i) IN
       /\ ~ \E c \in cards : c[2] \in S
       /\ row' = [j \in Ids |-> IF j \in S THEN "deleted" ELSE row[j]]
       /\ member' = [w \in Users |-> member[w] \ {i}]
       /\ admin' = [w \in Users |-> admin[w] \ {i}]
       /\ odd' = odd \ S
       /\ name' = [j \in Ids |-> IF j \in S THEN None ELSE name[j]]
    /\ UNCHANGED <<type, parent, handmade, cards, request>>

\* One transaction deletes a region and its direct children, with their
\* memberships; a card for one of them makes it fail.
Delete(u, i) ==
    /\ u \in Superusers
    /\ i \in Live
    /\ LET S == {i} \cup Children(i) IN
       /\ ~ \E c \in cards : c[2] \in S
       /\ row' = [j \in Ids |-> IF j \in S THEN "deleted" ELSE row[j]]
       /\ member' = [w \in Users |-> member[w] \ S]
       /\ admin' = [w \in Users |-> admin[w] \ S]
       /\ odd' = odd \ S
       /\ name' = [j \in Ids |-> IF j \in S THEN None ELSE name[j]]
    /\ UNCHANGED <<type, parent, handmade, cards, request>>

\* A statement or a call fails, or the process stops.
Fail(h) ==
    /\ request[h] # Idle
    /\ Turn(h, Idle)
    /\ UNCHANGED <<rows, people>>
-----------------------------------------------------------------------------
Next ==
    \/ \E h \in Handlers :
        \/ \E u \in Users, s \in Sites : StartWalk(h, u, s)
        \/ \E u \in Users, i \in Ids : UseExisting(h, u, i)
        \/ Lookup(h)
        \/ \E i \in Ids : CreateLocked(h, i)
        \/ SkipLocal(h)
        \/ AddCard(h)
        \/ \E u \in Users, s \in Sites, t \in ByHand, p \in Ids \cup {None} :
              BeginCreate(h, u, s, t, p)
        \/ \E i \in Ids : CreateParent(h, i)
        \/ Validate(h)
        \/ \E i \in Ids : CreateRegion(h, i)
        \/ AddCreator(h)
        \/ \E u \in Users, i \in Ids : BeginUpdate(h, u, i)
        \/ \E n \in Renames : Update(h, n)
        \/ Fail(h)
    \/ \E u \in Users, i \in Ids : Redeem(u, i) \/ DropCard(u, i) \/ Delete(u, i)

Spec == Init /\ [][Next]_vars
-----------------------------------------------------------------------------
\* Type invariant of the tables and of the requests in flight.
TypeOK ==
    /\ row \in [Ids -> {"free", "live", "deleted"}]
    /\ name \in [Ids -> Names \cup {None}]
    /\ type \in [Ids -> Types \cup {None}]
    /\ parent \in [Ids -> Ids \cup {None}]
    /\ member \in [Users -> SUBSET Ids] /\ admin \in [Users -> SUBSET Ids]
    /\ cards \subseteq Users \X Ids
    /\ request \in [Handlers -> Requests]
    /\ odd \subseteq Ids /\ handmade \subseteq Ids

\* The types that a parent of a region of type t may have, and whether p is one.
MayHold ==
    [t \in Types |->
        CASE t = "state" -> {}
          [] t = "county" -> {"state"}
          [] t = "city" -> {"county"}
          [] t = "locality" -> {"city"}
          [] t = "neighborhood" -> {"city", "locality"}
          [] OTHER -> {"neighborhood"}]

Fits(t, p) ==
    IF p = None THEN t = "state" ELSE row[p] # "free" /\ type[p] \in MayHold[t]

\* However walks, requests by hand and deletions interleave, a region hangs
\* below one of the level above (or one that has been deleted since): the parent
\* that a handler carries from one transaction to the next is never of another
\* level (verification.go:668, regions.go:320).  Not so a locality made by hand:
\* validateTypeParentHierarchy has no case for it (regions.go:789) and accepts it
\* below any parent or none, where models/region.go:8 wants a city; those a walk
\* makes, or finds on its way down, hang below a city.
Unplaced(i) == type[i] = "locality" /\ i \in handmade

LevelsDescend ==
    \A i \in Ids : row[i] # "free" /\ ~Unplaced(i) => Fits(type[i], parent[i])

\* Verification requests that find the same region missing (verification.go:709)
\* make it once: of two live regions of the same name, type and, below a city,
\* parent, one was made by hand, renamed, or made under another name than the one
\* looked up (verification.go:912).
NoTwins ==
    \A i, j \in Live \ odd :
        name[i] = name[j] /\ type[i] = type[j] /\ (type[i] \in Local => parent[i] = parent[j])
            => i = j

\* Memberships, administrators and cards are of regions that exist: also for a
\* creator whose region is deleted before he is made its administrator
\* (regions.go:337) and for a card whose region is deleted on the way.
PeopleOfRegions ==
    /\ \A u \in Users : member[u] \subseteq Live /\ admin[u] \subseteq member[u]
    /\ \A c \in cards : c[2] \in Live
=============================================================================
