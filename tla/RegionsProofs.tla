--------------------------- MODULE RegionsProofs ---------------------------
(* Theorems of Regions, for every value of its constants.                  *)
EXTENDS Regions, TLAPS

\* The fields of the requests in flight.
LEMMA RequestFields ==
    ASSUME NEW q \in Requests
    PROVE  /\ q.op \in {"walk", "missing"} =>
                /\ q.user \in Users /\ q.site \in Sites /\ q.type \in Types
                /\ q.parent \in Ids \cup {None} /\ q.goal \in Goals
           /\ q.op \in {"make", "valid"} =>
                /\ q.user \in Users /\ q.site \in Sites /\ q.type \in Types
                /\ q.parent \in Ids \cup {None}
           /\ q.op \in {"arrived", "lead", "rename"} => q.user \in Users /\ q.region \in Ids
<1>1. CASE q = Idle
  BY <1>1 DEF Idle
<1>2. CASE q \in [op : {"walk", "missing"}, user : Users, site : Sites, type : Types,
                  parent : Ids \cup {None}, goal : Goals]
  BY <1>2
<1>3. CASE q \in [op : {"make", "valid"}, user : Users, site : Sites, type : Types,
                  parent : Ids \cup {None}]
  BY <1>3
<1>4. CASE q \in [op : {"arrived", "lead", "rename"}, user : Users, region : Ids]
  BY <1>4
<1> QED
  BY <1>1, <1>2, <1>3, <1>4 DEF Requests

LEMMA RequestTypes ==
    /\ Idle \in Requests
    /\ \A u \in Users, s \in Sites, t \in Types, p \in Ids \cup {None}, g \in Goals :
          Walk(u, s, t, p, g) \in Requests
    /\ \A q \in Requests : q.op = "walk" => Missing(q) \in Requests
    /\ \A u \in Users, s \in Sites, t \in Types, p \in Ids \cup {None} : Make(u, s, t, p) \in Requests
    /\ \A q \in Requests : q.op = "make" => Valid(q) \in Requests
    /\ \A u \in Users, i \in Ids :
          Arrive(u, i) \in Requests /\ Lead(u, i) \in Requests /\ Rename(u, i) \in Requests
BY RequestFields DEF Requests, Idle, Walk, Missing, Make, Valid, Arrive, Lead, Rename

\* The requests that name a level of a site know its name there.
Walking == {"walk", "missing"}
Naming  == Walking \cup {"make", "valid"}
Named(q) == q.op \in Naming => Name[q.site][q.type] # None

TypeInv == TypeOK /\ \A h \in Handlers : Named(request[h])

LEMMA BelowTypes ==
    ASSUME NEW s \in Sites, NEW t \in Types
    PROVE  Below(s, t) # "done" => Below(s, t) \in Types /\ Name[s][Below(s, t)] # None
<1>1. Name[s]["county"] # None /\ Name[s]["city"] # None
  BY NamesAssumption
<1>2. CASE t = "state"
  BY <1>1, <1>2 DEF Below, Types
<1>3. CASE t = "county"
  BY <1>1, <1>3 DEF Below, Types
<1>4. CASE t = "city"
  BY <1>4 DEF Below, Types
<1>5. CASE t = "locality"
  BY <1>5 DEF Below, Types
<1>6. CASE t \in {"neighborhood", "city_block"}
  BY <1>6 DEF Below, Types
<1> QED
  BY <1>2, <1>3, <1>4, <1>5, <1>6 DEF Types

\* What follows a level is a request again.
LEMMA AfterTypes ==
    ASSUME NEW q \in Requests, q.op \in Walking, NEW x \in Ids
    PROVE  After(q, x) \in Requests /\ Named(After(q, x))
<1>1. q.user \in Users /\ q.site \in Sites /\ q.type \in Types /\ q.goal \in Goals
  BY RequestFields DEF Walking
<1> DEFINE t == Below(q.site, q.type)
<1>2. t # "done" => t \in Types /\ Name[q.site][t] # None
  BY <1>1, BelowTypes
<1>3. CASE t = "done"
  BY <1>1, <1>3, RequestTypes DEF After, Arrive, Named, Naming, Walking
<1>4. CASE t # "done" /\ q.goal = t
  BY <1>1, <1>2, <1>4, RequestTypes DEF After, Make, Named, Naming, Walking
<1>5. CASE t # "done" /\ q.goal # t
  BY <1>1, <1>2, <1>5, RequestTypes DEF After, Walk, Named, Naming, Walking
<1> QED
  BY <1>3, <1>4, <1>5

-----------------------------------------------------------------------------
(* Levels.                                                                 *)

\* The parent p is one for type t, in the table of rows R with types T.
Holds(R, T, t, p) == IF p = None THEN t = "state" ELSE R[p] # "free" /\ T[p] \in MayHold[t]

\* The parent that a request carries is one for the level it is at.
Hung(q, R, T) ==
    q.op \in Walking \/ (q.op = "valid" /\ q.type # "locality") => Holds(R, T, q.type, q.parent)

TreeInv ==
    /\ TypeInv
    /\ LevelsDescend
    /\ \A h \in Handlers : Hung(request[h], row, type)

\* The rows that have been made stay of their type, and are never free again.
Grows == \A i \in Ids : row[i] # "free" => row'[i] # "free" /\ type'[i] = type[i]

\* The region a level was settled as is a parent for the next.
LEMMA AfterHung ==
    ASSUME NEW q \in Requests, q.op \in Walking, NEW x \in Ids, NEW R, NEW T,
           R[x] # "free", Below(q.site, q.type) # "done" => T[x] \in MayHold[Below(q.site, q.type)]
    PROVE  Hung(After(q, x), R, T)
<1> DEFINE t == Below(q.site, q.type)
<1> HIDE DEF t
<1>1. After(q, x) = IF t = "done" THEN Arrive(q.user, x)
                    ELSE IF q.goal = t THEN Make(q.user, q.site, t, x)
                    ELSE Walk(q.user, q.site, t, x, q.goal)
  BY DEF After, t
<1>2. CASE t = "done"
  BY <1>1, <1>2 DEF Arrive, Hung, Walking
<1>3. CASE t # "done" /\ q.goal = t
  BY <1>1, <1>3 DEF Make, Hung, Walking
<1>4. CASE t # "done" /\ q.goal # t
  <2>1. x # None
    BY IdsAssumption
  <2>2. Holds(R, T, t, x)
    BY <1>4, <2>1 DEF Holds, t
  <2> QED
    BY <1>1, <1>4, <2>2 DEF Walk, Hung, Walking
<1> QED
  BY <1>2, <1>3, <1>4

\* A region of q's type may hold the level below, and so may the parent of a
\* locality or a neighborhood that is skipped.
LEMMA BelowHeld ==
    ASSUME NEW s \in Sites, NEW t \in Types, Below(s, t) # "done"
    PROVE  t \in MayHold[Below(s, t)] /\ (t \in Local => MayHold[t] \subseteq MayHold[Below(s, t)])
<1>1. CASE t = "state"
  BY <1>1 DEF Below, Types, MayHold, Local
<1>2. CASE t = "county"
  BY <1>2 DEF Below, Types, MayHold, Local
<1>3. CASE t = "city"
  BY <1>3 DEF Below, Types, MayHold, Local
<1>4. CASE t = "locality"
  BY <1>4 DEF Below, Types, MayHold, Local
<1>5. CASE t \in {"neighborhood", "city_block"}
  BY <1>5 DEF Below, Types
<1> QED
  BY <1>1, <1>2, <1>3, <1>4, <1>5 DEF Types

\* A request hung below a parent stays so.
LEMMA HungStays ==
    ASSUME TypeInv, Grows, NEW q \in Requests, Hung(q, row, type)
    PROVE  Hung(q, row', type')
<1>1. ASSUME q.op \in Walking \/ (q.op = "valid" /\ q.type # "locality")
      PROVE  Holds(row', type', q.type, q.parent)
  <2>1. Holds(row, type, q.type, q.parent)
    BY <1>1 DEF Hung
  <2>2. q.parent = None \/ q.parent \in Ids
    BY <1>1, RequestFields DEF Walking
  <2> QED
    BY <2>1, <2>2 DEF Holds, Grows
<1> QED
  BY <1>1 DEF Hung

\* What a step that turns one handler to q keeps of the requests.
RequestsInv == \A h \in Handlers :
    request[h] \in Requests /\ Named(request[h]) /\ Hung(request[h], row, type)

LEMMA TurnKeeps ==
    ASSUME TreeInv, Grows, NEW h \in Handlers, NEW q \in Requests, Turn(h, q),
           Named(q), Hung(q, row', type')
    PROVE  RequestsInv' /\ request' \in [Handlers -> Requests]
<1>1. request \in [Handlers -> Requests] /\ \A k \in Handlers : Named(request[k]) /\ Hung(request[k], row, type)
  BY DEF TreeInv, TypeInv, TypeOK
<1>2. request' = [request EXCEPT ![h] = q]
  BY DEF Turn
<1>3. ASSUME NEW k \in Handlers
      PROVE  request'[k] \in Requests /\ Named(request'[k]) /\ Hung(request'[k], row', type')
  <2>1. CASE k = h
    BY <1>1, <1>2, <2>1
  <2>2. CASE k # h
    <3>1. request'[k] = request[k]
      BY <1>1, <1>2, <2>2
    <3>2. Hung(request[k], row', type')
      BY <1>1, HungStays DEF TreeInv
    <3> QED
      BY <1>1, <3>1, <3>2
  <2> QED
    BY <2>1, <2>2
<1> QED
  BY <1>1, <1>2, <1>3 DEF RequestsInv

\* Steps that leave the table of regions alone.
LEMMA QuietStep ==
    ASSUME TreeInv, UNCHANGED rows, NEW h \in Handlers, NEW q \in Requests, Turn(h, q),
           Named(q), Hung(q, row, type),
           member' \in [Users -> SUBSET Ids], admin' \in [Users -> SUBSET Ids],
           cards' \subseteq Users \X Ids
    PROVE  TreeInv'
<1>1. Grows
  BY DEF Grows, rows
<1>2. RequestsInv' /\ request' \in [Handlers -> Requests]
  BY <1>1, TurnKeeps DEF rows
<1>3. TypeOK'
  BY <1>2 DEF TreeInv, TypeInv, TypeOK, rows
<1>4. LevelsDescend'
  BY DEF TreeInv, LevelsDescend, Unplaced, Fits, rows
<1> QED
  BY <1>2, <1>3, <1>4 DEF TreeInv, TypeInv, RequestsInv

\* A row inserted where a parent of its level was seen.
LEMMA InsertStep ==
    ASSUME TreeInv, NEW i \in Ids, NEW n \in Names, NEW t \in Types, NEW p \in Ids \cup {None},
           Insert(i, n, t, p), odd' \subseteq Ids, handmade \subseteq handmade', handmade' \subseteq Ids,
           Holds(row, type, t, p) \/ (t = "locality" /\ i \in handmade'),
           NEW h \in Handlers, NEW q \in Requests, Turn(h, q), Named(q), Hung(q, row', type')
    PROVE  TreeInv'
<1>a. /\ row \in [Ids -> {"free", "live", "deleted"}] /\ type \in [Ids -> Types \cup {None}]
      /\ name \in [Ids -> Names \cup {None}] /\ parent \in [Ids -> Ids \cup {None}]
  BY DEF TreeInv, TypeInv, TypeOK
<1>b. /\ row[i] = "free" /\ row' = [row EXCEPT ![i] = "live"]
      /\ name' = [name EXCEPT ![i] = n] /\ type' = [type EXCEPT ![i] = t]
      /\ parent' = [parent EXCEPT ![i] = p] /\ UNCHANGED people
  BY DEF Insert
<1>1. Grows
  BY <1>a, <1>b DEF Grows
<1>2. RequestsInv' /\ request' \in [Handlers -> Requests]
  BY <1>1, TurnKeeps
<1>3. TypeOK'
  <2>1. row' \in [Ids -> {"free", "live", "deleted"}] /\ type' \in [Ids -> Types \cup {None}]
    BY <1>a, <1>b
  <2>2. name' \in [Ids -> Names \cup {None}] /\ parent' \in [Ids -> Ids \cup {None}]
    BY <1>a, <1>b
  <2> QED
    BY <1>2, <1>b, <2>1, <2>2 DEF TreeInv, TypeInv, TypeOK, people
<1>4. ASSUME NEW j \in Ids, row'[j] # "free", ~(type'[j] = "locality" /\ j \in handmade')
      PROVE  Holds(row', type', type'[j], parent'[j])
  <2>1. CASE j = i
    <3>1. type'[j] = t /\ parent'[j] = p
      BY <1>a, <1>b, <2>1
    <3>2. Holds(row, type, t, p)
      BY <1>4, <2>1, <3>1
    <3> QED
      BY <1>1, <3>1, <3>2 DEF Holds, Grows
  <2>2. CASE j # i
    <3>1. row[j] # "free" /\ type'[j] = type[j] /\ parent'[j] = parent[j]
      BY <1>4, <1>a, <1>b, <2>2
    <3>2. Holds(row, type, type[j], parent[j])
      BY <1>4, <3>1 DEF TreeInv, LevelsDescend, Unplaced, Fits, Holds
    <3>3. parent[j] \in Ids \cup {None}
      BY <1>a
    <3> QED
      BY <1>1, <3>1, <3>2, <3>3 DEF Holds, Grows
  <2> QED
    BY <2>1, <2>2
<1>5. LevelsDescend'
  BY <1>4 DEF LevelsDescend, Unplaced, Fits, Holds
<1> QED
  BY <1>2, <1>3, <1>5 DEF TreeInv, TypeInv, RequestsInv

LEMMA TreeStep == TreeInv /\ [Next]_vars => TreeInv'
<1> SUFFICES ASSUME TreeInv, [Next]_vars PROVE TreeInv'
  OBVIOUS
<1>a. \A h \in Handlers :
        request[h] \in Requests /\ Named(request[h]) /\ Hung(request[h], row, type)
  BY DEF TreeInv, TypeInv, TypeOK
<1>b. /\ member \in [Users -> SUBSET Ids] /\ admin \in [Users -> SUBSET Ids]
      /\ cards \subseteq Users \X Ids /\ odd \subseteq Ids /\ handmade \subseteq Ids
      /\ type \in [Ids -> Types \cup {None}]
  BY DEF TreeInv, TypeInv, TypeOK
<1>1. ASSUME NEW h \in Handlers, NEW u \in Users, NEW s \in Sites, StartWalk(h, u, s) PROVE TreeInv'
  <2> DEFINE q == Walk(u, s, "state", None, "verify")
  <2>1. q \in Requests /\ Named(q) /\ Hung(q, row, type)
    BY RequestTypes, NamesAssumption DEF Walk, Types, Goals, Named, Hung, Holds, Naming, Walking
  <2> QED
    BY <1>1, <1>b, <2>1, QuietStep DEF StartWalk, people
<1>2. ASSUME NEW h \in Handlers, NEW u \in Users, NEW i \in Ids, UseExisting(h, u, i) PROVE TreeInv'
  <2>1. Arrive(u, i) \in Requests /\ Named(Arrive(u, i)) /\ Hung(Arrive(u, i), row, type)
    BY RequestTypes DEF Arrive, Named, Hung, Naming, Walking
  <2> QED
    BY <1>2, <1>b, <2>1, QuietStep DEF UseExisting, people
<1>3. ASSUME NEW h \in Handlers, Lookup(h) PROVE TreeInv'
  <2> DEFINE q == request[h]
             known == Known(Name[q.site][q.type], q.type, q.parent)
  <2>1. q \in Requests /\ q.op = "walk" /\ Named(q) /\ Hung(q, row, type) /\ q.type \in Types
    BY <1>3, <1>a, RequestFields DEF Lookup
  <2>2. ASSUME NEW x \in known, Turn(h, After(q, x)) PROVE TreeInv'
    <3>1. x \in Ids /\ row[x] = "live" /\ type[x] = q.type
      BY <2>2 DEF Known, Live
    <3>2. After(q, x) \in Requests /\ Named(After(q, x))
      BY <2>1, <3>1, AfterTypes DEF Walking
    <3>3. Below(q.site, q.type) # "done" => type[x] \in MayHold[Below(q.site, q.type)]
      BY <2>1, <3>1, BelowHeld, RequestFields
    <3>4. Hung(After(q, x), row, type)
      BY <2>1, <3>1, <3>3, AfterHung DEF Walking
    <3> QED
      BY <1>3, <1>b, <2>2, <3>2, <3>4, QuietStep DEF Lookup, people
  <2>3. CASE Turn(h, Missing(q))
    <3>1. Missing(q) \in Requests /\ Named(Missing(q)) /\ Hung(Missing(q), row, type)
      BY <2>1, RequestTypes DEF Missing, Named, Hung, Naming, Walking
    <3> QED
      BY <1>3, <1>b, <2>3, <3>1, QuietStep DEF Lookup, people
  <2> QED
    BY <1>3, <2>2, <2>3 DEF Lookup
<1>4. ASSUME NEW h \in Handlers, NEW i \in Ids, CreateLocked(h, i) PROVE TreeInv'
  <2> DEFINE q == request[h]
             asked == Name[q.site][q.type]
             known == Known(Sought(q.type, asked), q.type, q.parent)
  <2>1. /\ q \in Requests /\ q.op = "missing" /\ Named(q) /\ Hung(q, row, type)
        /\ q.type \in Types /\ q.site \in Sites /\ q.parent \in Ids \cup {None}
    BY <1>4, <1>a, RequestFields DEF CreateLocked
  <2>2. ASSUME NEW x \in known, Turn(h, After(q, x)), UNCHANGED <<rows, people>> PROVE TreeInv'
    <3>1. x \in Ids /\ row[x] = "live" /\ type[x] = q.type
      BY <2>2 DEF Known, Live
    <3>2. After(q, x) \in Requests /\ Named(After(q, x))
      BY <2>1, <3>1, AfterTypes DEF Walking
    <3>3. Below(q.site, q.type) # "done" => type[x] \in MayHold[Below(q.site, q.type)]
      BY <2>1, <3>1, BelowHeld, RequestFields
    <3>4. Hung(After(q, x), row, type)
      BY <2>1, <3>1, <3>3, AfterHung DEF Walking
    <3> QED
      BY <1>b, <2>2, <3>2, <3>4, QuietStep DEF people
  <2>3. CASE /\ Insert(i, Given(q.type, asked), q.type, q.parent)
             /\ odd' = IF Given(q.type, asked) = Sought(q.type, asked) THEN odd ELSE odd \cup {i}
             /\ handmade' = handmade
             /\ Turn(h, After(q, i))
    <3>1. Given(q.type, asked) \in Names
      BY <2>1, NamesAssumption DEF Given, Named, Naming, Walking
    <3>2. After(q, i) \in Requests /\ Named(After(q, i))
      BY <2>1, AfterTypes DEF Walking
    <3>3. row'[i] = "live" /\ type'[i] = q.type
      BY <2>3 DEF Insert, TreeInv, TypeInv, TypeOK
    <3>4. Below(q.site, q.type) # "done" => type'[i] \in MayHold[Below(q.site, q.type)]
      BY <2>1, <3>3, BelowHeld
    <3>5. Hung(After(q, i), row', type')
      BY <2>1, <3>3, <3>4, AfterHung DEF Walking
    <3>6. Holds(row, type, q.type, q.parent)
      BY <2>1 DEF Hung, Walking
    <3>7. odd' \subseteq Ids /\ handmade \subseteq handmade' /\ handmade' \subseteq Ids
      BY <1>b, <2>3
    <3> HIDE DEF q, asked
    <3> QED
      BY <2>1, <2>3, <3>1, <3>2, <3>5, <3>6, <3>7, InsertStep
  <2> QED
    BY <1>4, <2>2, <2>3 DEF CreateLocked, KnownLocked
<1>5. ASSUME NEW h \in Handlers, SkipLocal(h) PROVE TreeInv'
  <2> DEFINE q == request[h]
  <2>1. /\ q \in Requests /\ q.op \in Walking /\ Hung(q, row, type)
        /\ q.type \in Local /\ q.type \in Types /\ q.site \in Sites /\ q.parent \in Ids \cup {None}
    BY <1>5, <1>a, RequestFields DEF SkipLocal, Walking
  <2>2. q.parent \in Ids /\ row[q.parent] # "free" /\ type[q.parent] \in MayHold[q.type]
    BY <2>1 DEF Hung, Holds, Local
  <2>3. After(q, q.parent) \in Requests /\ Named(After(q, q.parent))
    BY <2>1, <2>2, AfterTypes
  <2>4. Below(q.site, q.type) # "done" => type[q.parent] \in MayHold[Below(q.site, q.type)]
    BY <2>1, <2>2, BelowHeld
  <2>5. Hung(After(q, q.parent), row, type)
    BY <2>1, <2>2, <2>4, AfterHung
  <2> QED
    BY <1>5, <1>b, <2>3, <2>5, QuietStep DEF SkipLocal, people
<1>i. Idle \in Requests /\ Named(Idle) /\ Hung(Idle, row, type)
  BY RequestTypes DEF Idle, Named, Hung, Naming, Walking
<1>6. ASSUME NEW h \in Handlers, AddCard(h) PROVE TreeInv'
  <2>1. cards' \subseteq Users \X Ids
    BY <1>6, <1>a, <1>b, RequestFields DEF AddCard
  <2> QED
    BY <1>6, <1>b, <1>i, <2>1, QuietStep DEF AddCard
<1>7. ASSUME NEW h \in Handlers, NEW u \in Users, NEW s \in Sites, NEW t \in Types,
             NEW p \in Ids \cup {None}, BeginCreate(h, u, s, t, p) PROVE TreeInv'
  <2>1. ASSUME NEW r \in Ids \cup {None}, Turn(h, Make(u, s, t, r)) PROVE TreeInv'
    <3>1. /\ Make(u, s, t, r) \in Requests /\ Named(Make(u, s, t, r))
          /\ Hung(Make(u, s, t, r), row, type)
      BY <1>7, RequestTypes DEF BeginCreate, Make, Named, Hung, Walking
    <3> QED
      BY <1>7, <1>b, <2>1, <3>1, QuietStep DEF BeginCreate, people
  <2>2. ASSUME t \in {"county", "city"}, Turn(h, Walk(u, s, "state", None, t)) PROVE TreeInv'
    <3> DEFINE q == Walk(u, s, "state", None, t)
    <3>1. q \in Requests /\ Named(q) /\ Hung(q, row, type)
      BY <2>2, RequestTypes, NamesAssumption DEF Walk, Types, Goals, Named, Hung, Holds, Naming, Walking
    <3> QED
      BY <1>7, <1>b, <2>2, <3>1, QuietStep DEF BeginCreate, people
  <2> QED
    BY <1>7, <2>1, <2>2 DEF BeginCreate
<1>8. ASSUME NEW h \in Handlers, NEW i \in Ids, CreateParent(h, i) PROVE TreeInv'
  <2> DEFINE q == request[h]
             n == Boundary[Name[q.site][q.type]]
  <2>1. /\ q \in Requests /\ q.op = "missing" /\ Named(q) /\ Hung(q, row, type)
        /\ q.type \in Types /\ q.site \in Sites /\ q.parent \in Ids \cup {None}
    BY <1>8, <1>a, RequestFields DEF CreateParent
  <2>2. Insert(i, n, q.type, q.parent) /\ odd' = odd \cup {i} /\ handmade' = handmade /\ Turn(h, After(q, i))
    BY <1>8 DEF CreateParent
  <2>3. n \in Names
    BY <2>1, NamesAssumption DEF Named, Naming, Walking
  <2>4. After(q, i) \in Requests /\ Named(After(q, i))
    BY <2>1, AfterTypes DEF Walking
  <2>5. row'[i] = "live" /\ type'[i] = q.type
    BY <2>2 DEF Insert, TreeInv, TypeInv, TypeOK
  <2>6. Below(q.site, q.type) # "done" => type'[i] \in MayHold[Below(q.site, q.type)]
    BY <2>1, <2>5, BelowHeld
  <2>7. Hung(After(q, i), row', type')
    BY <2>1, <2>5, <2>6, AfterHung DEF Walking
  <2>8. Holds(row, type, q.type, q.parent)
    BY <2>1 DEF Hung, Walking
  <2>9. odd' \subseteq Ids /\ handmade \subseteq handmade' /\ handmade' \subseteq Ids
    BY <1>b, <2>2
  <2> HIDE DEF q, n
  <2> QED
    BY <2>1, <2>2, <2>3, <2>4, <2>7, <2>8, <2>9, InsertStep
<1>9. ASSUME NEW h \in Handlers, Validate(h) PROVE TreeInv'
  <2> DEFINE q == request[h]
  <2>1. /\ q \in Requests /\ q.op = "make" /\ Named(q) /\ q.type \in Types
        /\ q.parent \in Ids \cup {None}
    BY <1>9, <1>a, RequestFields DEF Validate
  <2>2. Turn(h, Valid(q)) /\ Valid(q) \in Requests /\ Named(Valid(q))
    BY <1>9, <2>1, RequestTypes DEF Validate, Valid, Named, Naming, Walking
  <2>3. Hung(Valid(q), row, type)
    <3>1. SUFFICES ASSUME q.type # "locality" PROVE Holds(row, type, q.type, q.parent)
      BY DEF Hung, Valid, Walking
    <3>2. CASE q.type = "state"
      BY <1>9, <3>2 DEF Validate, Holds
    <3>3. CASE q.type \in {"county", "city", "neighborhood", "city_block"}
      <4>1. q.parent \in Live /\ type[q.parent] = ParentType[q.type]
        BY <1>9, <3>3 DEF Validate, ParentType
      <4>2. ParentType[q.type] \in MayHold[q.type]
        BY <3>3 DEF ParentType, MayHold, Types
      <4>3. q.parent \in Ids /\ row[q.parent] # "free" /\ q.parent # None
        BY <4>1, IdsAssumption DEF Live
      <4> QED
        BY <4>1, <4>2, <4>3 DEF Holds
    <3> QED
      BY <2>1, <3>1, <3>2, <3>3 DEF Types
  <2> QED
    BY <1>9, <1>b, <2>2, <2>3, QuietStep DEF Validate, people
<1>10. ASSUME NEW h \in Handlers, NEW i \in Ids, CreateRegion(h, i) PROVE TreeInv'
  <2> DEFINE q == request[h]
             n == Name[q.site][q.type]
  <2>1. /\ q \in Requests /\ q.op = "valid" /\ Named(q) /\ Hung(q, row, type)
        /\ q.user \in Users /\ q.type \in Types /\ q.site \in Sites /\ q.parent \in Ids \cup {None}
    BY <1>10, <1>a, RequestFields DEF CreateRegion
  <2>2. Insert(i, n, q.type, q.parent) /\ odd' = odd \cup {i} /\ handmade' = handmade \cup {i} /\ Turn(h, Lead(q.user, i))
    BY <1>10 DEF CreateRegion
  <2>3. n \in Names
    BY <2>1, NamesAssumption DEF Named, Naming
  <2>4. Lead(q.user, i) \in Requests /\ Named(Lead(q.user, i)) /\ Hung(Lead(q.user, i), row', type')
    BY <2>1, RequestTypes DEF Lead, Named, Hung, Naming, Walking
  <2>5. Holds(row, type, q.type, q.parent) \/ (q.type = "locality" /\ i \in handmade')
    BY <2>1, <2>2 DEF Hung
  <2>6. odd' \subseteq Ids /\ handmade \subseteq handmade' /\ handmade' \subseteq Ids
    BY <1>b, <2>2
  <2> HIDE DEF q, n
  <2> QED
    BY <2>1, <2>2, <2>3, <2>4, <2>5, <2>6, InsertStep
<1>11. ASSUME NEW h \in Handlers, AddCreator(h) PROVE TreeInv'
  <2>1. request[h].user \in Users /\ request[h].region \in Ids
    BY <1>11, <1>a, RequestFields DEF AddCreator
  <2>2. member' \in [Users -> SUBSET Ids] /\ admin' \in [Users -> SUBSET Ids]
    BY <1>11, <1>b, <2>1 DEF AddCreator
  <2> QED
    BY <1>11, <1>b, <1>i, <2>2, QuietStep DEF AddCreator
<1>12. ASSUME NEW h \in Handlers, NEW u \in Users, NEW i \in Ids, BeginUpdate(h, u, i) PROVE TreeInv'
  <2>1. Rename(u, i) \in Requests /\ Named(Rename(u, i)) /\ Hung(Rename(u, i), row, type)
    BY RequestTypes DEF Rename, Named, Hung, Naming, Walking
  <2> QED
    BY <1>12, <1>b, <2>1, QuietStep DEF BeginUpdate, people
<1>13. ASSUME NEW h \in Handlers, NEW n \in Renames, Update(h, n) PROVE TreeInv'
  <2>1. request[h].region \in Ids /\ n \in Names
    BY <1>13, <1>a, RequestFields, NamesAssumption DEF Update
  <2>2. UNCHANGED <<row, type, parent, handmade, people>> /\ Turn(h, Idle)
        /\ name' = [name EXCEPT ![request[h].region] = n] /\ odd' = odd \cup {request[h].region}
    BY <1>13 DEF Update
  <2>3. Grows
    BY <2>2 DEF Grows
  <2>4. RequestsInv' /\ request' \in [Handlers -> Requests]
    BY <1>i, <2>2, <2>3, TurnKeeps
  <2>5. TypeOK'
    BY <2>1, <2>2, <2>4 DEF TreeInv, TypeInv, TypeOK, people
  <2>6. LevelsDescend'
    BY <2>2 DEF TreeInv, LevelsDescend, Unplaced, Fits
  <2> QED
    BY <2>4, <2>5, <2>6 DEF TreeInv, TypeInv, RequestsInv
<1>14. ASSUME NEW h \in Handlers, Fail(h) PROVE TreeInv'
  BY <1>14, <1>b, <1>i, QuietStep DEF Fail, people
<1>15. ASSUME NEW u \in Users, NEW i \in Ids, Redeem(u, i) \/ DropCard(u, i) PROVE TreeInv'
  <2>1. UNCHANGED <<rows, request>>
    BY <1>15 DEF Redeem, DropCard
  <2>2. /\ member' \in [Users -> SUBSET Ids] /\ admin' \in [Users -> SUBSET Ids]
        /\ cards' \subseteq Users \X Ids
    BY <1>15, <1>b DEF Redeem, DropCard
  <2> QED
    BY <2>1, <2>2 DEF TreeInv, TypeInv, TypeOK, LevelsDescend, Unplaced, Fits, Named, Hung, Holds, rows
<1>16. ASSUME NEW u \in Users, NEW i \in Ids, Delete(u, i) PROVE TreeInv'
  <2> DEFINE S == {i} \cup Children(i)
  <2>1. /\ S \subseteq Live
        /\ row' = [j \in Ids |-> IF j \in S THEN "deleted" ELSE row[j]]
        /\ name' = [j \in Ids |-> IF j \in S THEN None ELSE name[j]]
        /\ member' = [w \in Users |-> member[w] \ S]
        /\ admin' = [w \in Users |-> admin[w] \ S]
        /\ odd' = odd \ S /\ UNCHANGED <<type, parent, handmade, cards, request>>
    BY <1>16 DEF Delete, Children
  <2> HIDE DEF S
  <2>2. Grows
    BY <2>1 DEF Grows, Live
  <2>3. TypeOK'
    <3>1. row' \in [Ids -> {"free", "live", "deleted"}] /\ name' \in [Ids -> Names \cup {None}]
      BY <2>1 DEF TreeInv, TypeInv, TypeOK
    <3>2. member' \in [Users -> SUBSET Ids] /\ admin' \in [Users -> SUBSET Ids]
      BY <1>b, <2>1
    <3> QED
      BY <2>1, <3>1, <3>2 DEF TreeInv, TypeInv, TypeOK
  <2>4. ASSUME NEW h \in Handlers PROVE Hung(request'[h], row', type')
    BY <1>a, <2>1, <2>2, HungStays DEF TreeInv
  <2>5. ASSUME NEW j \in Ids, row'[j] # "free", ~(type'[j] = "locality" /\ j \in handmade')
        PROVE  Holds(row', type', type'[j], parent'[j])
    <3>1. row[j] # "free"
      BY <2>1, <2>5 DEF Live
    <3>2. Holds(row, type, type[j], parent[j])
      BY <2>1, <2>5, <3>1 DEF TreeInv, LevelsDescend, Unplaced, Fits, Holds
    <3>3. parent[j] \in Ids \cup {None}
      BY DEF TreeInv, TypeInv, TypeOK
    <3> QED
      BY <2>1, <2>2, <3>2, <3>3 DEF Holds, Grows
  <2>6. LevelsDescend'
    BY <2>5 DEF LevelsDescend, Unplaced, Fits, Holds
  <2> QED
    BY <1>a, <2>1, <2>3, <2>4, <2>6 DEF TreeInv, TypeInv
<1>17. CASE UNCHANGED vars
  BY <1>17 DEF vars, rows, people, TreeInv, TypeInv, TypeOK, LevelsDescend, Unplaced, Fits, Named, Hung, Holds
<1> QED
  BY <1>1, <1>2, <1>3, <1>4, <1>5, <1>6, <1>7, <1>8, <1>9, <1>10, <1>11, <1>12, <1>13, <1>14,
     <1>15, <1>16, <1>17, ByHandAssumption DEF Next

LEMMA InitTree == Init => TreeInv
<1> SUFFICES ASSUME Init PROVE TreeInv
  OBVIOUS
<1>1. \A h \in Handlers : request[h] = Idle
  BY DEF Init
<1>2. TypeOK
  BY RequestTypes DEF Init, TypeOK
<1>3. LevelsDescend
  BY DEF Init, LevelsDescend
<1>4. \A h \in Handlers : Named(request[h]) /\ Hung(request[h], row, type)
  BY <1>1 DEF Named, Hung, Idle, Naming, Walking
<1> QED
  BY <1>2, <1>3, <1>4 DEF TreeInv, TypeInv

\* Type correctness of the tables and of the requests in flight.
THEOREM TypeInvariant == Spec => []TypeOK
<1>1. TreeInv => TypeOK
  BY DEF TreeInv, TypeInv
<1> QED
  BY <1>1, InitTree, TreeStep, PTL DEF Spec

\* However requests interleave, regions hang below regions of the level above,
\* localities too unless they were made by hand.
THEOREM LevelsInvariant == Spec => []LevelsDescend
<1>1. TreeInv => LevelsDescend
  BY DEF TreeInv
<1> QED
  BY <1>1, InitTree, TreeStep, PTL DEF Spec
-----------------------------------------------------------------------------
(* Users, cards and twins.                                                 *)

\* Whatever a step makes or deletes, no live row goes but by a deletion.
LEMMA PeopleStep == TreeInv /\ PeopleOfRegions /\ [Next]_vars => PeopleOfRegions'
<1> SUFFICES ASSUME TreeInv, PeopleOfRegions, [Next]_vars PROVE PeopleOfRegions'
  OBVIOUS
<1>a. /\ row \in [Ids -> {"free", "live", "deleted"}]
      /\ member \in [Users -> SUBSET Ids] /\ admin \in [Users -> SUBSET Ids]
      /\ cards \subseteq Users \X Ids
      /\ \A h \in Handlers : request[h] \in Requests
  BY DEF TreeInv, TypeInv, TypeOK
<1>1. ASSUME UNCHANGED people, \A i \in Ids : row[i] = "live" => row'[i] = "live"
      PROVE  PeopleOfRegions'
  BY <1>1 DEF PeopleOfRegions, people, Live
<1>2. ASSUME NEW i \in Ids, NEW n, NEW t, NEW p, Insert(i, n, t, p) PROVE PeopleOfRegions'
  <2>1. UNCHANGED people /\ row' = [row EXCEPT ![i] = "live"]
    BY <1>2 DEF Insert
  <2> QED
    BY <1>1, <1>a, <2>1
<1>3. ASSUME UNCHANGED <<rows, people>> PROVE PeopleOfRegions'
  BY <1>1, <1>3 DEF rows
<1>4. ASSUME NEW h \in Handlers, NEW i \in Ids,
             CreateLocked(h, i) \/ CreateParent(h, i) \/ CreateRegion(h, i)
      PROVE  PeopleOfRegions'
  BY <1>2, <1>3, <1>4 DEF CreateLocked, CreateParent, CreateRegion
<1>5. ASSUME NEW h \in Handlers, AddCard(h) PROVE PeopleOfRegions'
  <2>1. /\ request[h].region \in Live /\ cards' = cards \cup {<<request[h].user, request[h].region>>}
        /\ UNCHANGED <<row, member, admin>>
    BY <1>5 DEF AddCard, rows
  <2> QED
    BY <2>1 DEF PeopleOfRegions, Live
<1>6. ASSUME NEW u \in Users, NEW i \in Ids, Redeem(u, i) PROVE PeopleOfRegions'
  <2>1. i \in Live
    BY <1>6 DEF Redeem, PeopleOfRegions
  <2>2. /\ member' = [member EXCEPT ![u] = @ \cup {i}]
        /\ admin' = [admin EXCEPT ![u] = @ \cup {i}] \/ admin' = admin
        /\ UNCHANGED <<row, cards>>
    BY <1>6 DEF Redeem, rows
  <2>3. ASSUME NEW w \in Users PROVE member'[w] \subseteq Live /\ admin'[w] \subseteq member'[w]
    BY <1>a, <2>1, <2>2 DEF PeopleOfRegions
  <2> QED
    BY <2>2, <2>3 DEF PeopleOfRegions, Live
<1>7. ASSUME NEW u \in Users, NEW i \in Ids, DropCard(u, i) PROVE PeopleOfRegions'
  BY <1>7 DEF DropCard, PeopleOfRegions, Live, rows
<1>8. ASSUME NEW h \in Handlers, AddCreator(h) PROVE PeopleOfRegions'
  <2> DEFINE u == request[h].user
             i == request[h].region
  <2>1. u \in Users /\ i \in Live
    BY <1>8, <1>a, RequestFields DEF AddCreator
  <2>2. /\ member' = [member EXCEPT ![u] = @ \cup {i}] /\ admin' = [admin EXCEPT ![u] = @ \cup {i}]
        /\ UNCHANGED <<row, cards>>
    BY <1>8 DEF AddCreator, rows
  <2> HIDE DEF u, i
  <2>3. ASSUME NEW w \in Users PROVE member'[w] \subseteq Live /\ admin'[w] \subseteq member'[w]
    BY <1>a, <2>1, <2>2 DEF PeopleOfRegions
  <2> QED
    BY <2>2, <2>3 DEF PeopleOfRegions, Live
<1>9. ASSUME NEW h \in Handlers, NEW n \in Renames, Update(h, n) PROVE PeopleOfRegions'
  BY <1>1, <1>9 DEF Update
<1>10. ASSUME NEW u \in Users, NEW i \in Ids, Delete(u, i) PROVE PeopleOfRegions'
  <2> DEFINE S == {i} \cup Children(i)
  <2>1. /\ row' = [j \in Ids |-> IF j \in S THEN "deleted" ELSE row[j]]
        /\ member' = [w \in Users |-> member[w] \ S]
        /\ admin' = [w \in Users |-> admin[w] \ S]
        /\ ~ \E c \in cards : c[2] \in S
        /\ cards' = cards
    BY <1>10 DEF Delete
  <2> HIDE DEF S
  <2>2. Live' = Live \ S
    BY <1>a, <2>1 DEF Live
  <2>3. ASSUME NEW w \in Users PROVE member'[w] \subseteq Live' /\ admin'[w] \subseteq member'[w]
    <3>1. member'[w] = member[w] \ S /\ admin'[w] = admin[w] \ S
      BY <2>1
    <3> QED
      BY <2>2, <3>1 DEF PeopleOfRegions
  <2>4. \A c \in cards' : c[2] \in Live'
    BY <2>1, <2>2 DEF PeopleOfRegions
  <2> QED
    BY <2>3, <2>4 DEF PeopleOfRegions
<1>11. CASE UNCHANGED vars
  BY <1>3, <1>11 DEF vars
<1> QED
  BY <1>3, <1>4, <1>5, <1>6, <1>7, <1>8, <1>9, <1>10, <1>11
     DEF Next, StartWalk, UseExisting, Lookup, SkipLocal, BeginCreate, Validate, BeginUpdate, Fail

\* Memberships, administrators and cards are of regions that exist.
THEOREM PeopleInvariant == Spec => []PeopleOfRegions
<1>1. Init => PeopleOfRegions
  BY DEF Init, PeopleOfRegions
<1> QED
  BY <1>1, InitTree, TreeStep, PeopleStep, PTL DEF Spec

\* The second look of the transaction that makes a region finds its twin.
LEMMA TwinsStep == TreeInv /\ NoTwins /\ [Next]_vars => NoTwins'
<1> SUFFICES ASSUME TreeInv, NoTwins, [Next]_vars PROVE NoTwins'
  OBVIOUS
<1>a. /\ row \in [Ids -> {"free", "live", "deleted"}] /\ type \in [Ids -> Types \cup {None}]
      /\ name \in [Ids -> Names \cup {None}] /\ parent \in [Ids -> Ids \cup {None}]
      /\ odd \subseteq Ids /\ \A h \in Handlers : request[h] \in Requests
  BY DEF TreeInv, TypeInv, TypeOK
<1>1. ASSUME \A i \in (Live \ odd)' : /\ i \in Live \ odd
                                     /\ name'[i] = name[i] /\ type'[i] = type[i] /\ parent'[i] = parent[i]
      PROVE  NoTwins'
  BY <1>1 DEF NoTwins
<1>2. ASSUME UNCHANGED rows PROVE NoTwins'
  BY <1>1, <1>2 DEF rows, Live
<1>3. ASSUME NEW i \in Ids, NEW n, NEW t, NEW p, Insert(i, n, t, p)
      PROVE  /\ odd' = odd \cup {i} => NoTwins'
             /\ odd' = odd /\ Known(n, t, p) = {} => NoTwins'
  <2>1. /\ row[i] = "free" /\ row' = [row EXCEPT ![i] = "live"]
        /\ name' = [name EXCEPT ![i] = n] /\ type' = [type EXCEPT ![i] = t]
        /\ parent' = [parent EXCEPT ![i] = p]
    BY <1>3 DEF Insert
  <2>2. ASSUME NEW j \in Ids, j # i
        PROVE  row'[j] = row[j] /\ name'[j] = name[j] /\ type'[j] = type[j] /\ parent'[j] = parent[j]
    BY <1>a, <2>1, <2>2
  <2>3. ASSUME odd' = odd \cup {i} PROVE NoTwins'
    BY <1>1, <2>2, <2>3 DEF Live
  <2>4. ASSUME odd' = odd, Known(n, t, p) = {} PROVE NoTwins'
    <3>1. name'[i] = n /\ type'[i] = t /\ parent'[i] = p
      BY <1>a, <2>1
    <3>2. \A j \in Live : ~(name[j] = n /\ type[j] = t /\ (t \in Local => parent[j] = p))
      BY <2>4 DEF Known
    <3>3. ASSUME NEW j \in (Live \ odd)', NEW k \in (Live \ odd)',
                 name'[j] = name'[k], type'[j] = type'[k], type'[j] \in Local => parent'[j] = parent'[k]
          PROVE  j = k
      <4>1. CASE j # i /\ k # i
        <5>1. j \in Live \ odd /\ k \in Live \ odd
          BY <2>2, <2>4, <3>3, <4>1 DEF Live
        <5> QED
          BY <2>2, <3>3, <4>1, <5>1 DEF NoTwins, Live
      <4>2. CASE j = i /\ k # i
        <5>1. k \in Live
          BY <2>2, <3>3, <4>2 DEF Live
        <5> QED
          BY <2>2, <3>1, <3>2, <3>3, <4>2, <5>1 DEF Live
      <4>3. CASE j # i /\ k = i
        <5>1. j \in Live
          BY <2>2, <3>3, <4>3 DEF Live
        <5> QED
          BY <2>2, <3>1, <3>2, <3>3, <4>3, <5>1 DEF Live
      <4> QED
        BY <4>1, <4>2, <4>3
    <3> QED
      BY <3>3 DEF NoTwins
  <2> QED
    BY <2>3, <2>4
<1>4. ASSUME NEW h \in Handlers, NEW i \in Ids, CreateLocked(h, i) PROVE NoTwins'
  <2> DEFINE q == request[h]
             n == Given(q.type, Name[q.site][q.type])
             m == Sought(q.type, Name[q.site][q.type])
  <2>1. \/ UNCHANGED rows
        \/ /\ Known(m, q.type, q.parent) = {} /\ Insert(i, n, q.type, q.parent)
           /\ odd' = IF n = m THEN odd ELSE odd \cup {i}
    BY <1>4 DEF CreateLocked, KnownLocked
  <2> HIDE DEF q, n, m
  <2> QED
    BY <1>2, <1>3, <2>1
<1>5. ASSUME NEW h \in Handlers, NEW i \in Ids, CreateParent(h, i) \/ CreateRegion(h, i) PROVE NoTwins'
  BY <1>3, <1>5 DEF CreateParent, CreateRegion
<1>6. ASSUME NEW h \in Handlers, NEW n \in Renames, Update(h, n) PROVE NoTwins'
  BY <1>1, <1>6, <1>a DEF Update, Live
<1>7. ASSUME NEW u \in Users, NEW i \in Ids, Delete(u, i) PROVE NoTwins'
  <2> DEFINE S == {i} \cup Children(i)
  <2>1. /\ row' = [j \in Ids |-> IF j \in S THEN "deleted" ELSE row[j]]
        /\ name' = [j \in Ids |-> IF j \in S THEN None ELSE name[j]]
        /\ odd' = odd \ S /\ UNCHANGED <<type, parent>>
    BY <1>7 DEF Delete
  <2> HIDE DEF S
  <2> QED
    BY <1>1, <2>1 DEF Live
<1>8. ASSUME NEW u \in Users, NEW i \in Ids, Redeem(u, i) \/ DropCard(u, i) PROVE NoTwins'
  BY <1>2, <1>8 DEF Redeem, DropCard
<1>9. ASSUME NEW h \in Handlers, AddCard(h) \/ AddCreator(h) PROVE NoTwins'
  BY <1>2, <1>9 DEF AddCard, AddCreator
<1> QED
  BY <1>2, <1>4, <1>5, <1>6, <1>7, <1>8, <1>9
     DEF Next, vars, StartWalk, UseExisting, Lookup, SkipLocal, BeginCreate, Validate, BeginUpdate, Fail

\* Requests that find the same region missing make it once.
THEOREM TwinsInvariant == Spec => []NoTwins
<1>1. Init => NoTwins
  BY DEF Init, NoTwins, Live
<1> QED
  BY <1>1, InitTree, TreeStep, TwinsStep, PTL DEF Spec
=============================================================================
