------------------------- MODULE VerificationProofs -------------------------
(* The invariants of Verification hold for any users, regions and cards.   *)
EXTENDS Verification, FiniteSetTheorems, TLAPS

USE CardsAssumption, VoucheesAssumption, NobodyAssumption, LimitAssumption

\* The operations of a request in flight and the fields they carry.
LEMMA RequestFields ==
    ASSUME NEW q \in Requests
    PROVE  /\ q.op \in {"apply", "created"} => q.user \in Users /\ q.region \in Regions
           /\ q.op \in {"send", "cleanup", "redeemed"} => q.card \in Cards
           /\ q.op \in Granting => q.user \in Users /\ q.full \in BOOLEAN
           /\ q.op = "promote" => q.full = TRUE
           /\ q.op = "revoked" => q.user \in Users
<1> USE DEF Granting
<1>1. CASE q = Idle
  BY <1>1 DEF Idle
<1>2. CASE q \in [op : {"apply", "created"}, user : Users, region : Regions]
  BY <1>2
<1>3. CASE q \in [op : {"send", "cleanup", "redeemed"}, card : Cards]
  BY <1>3
<1>4. CASE q \in [op : Granting \ {"promote"}, user : Users, full : BOOLEAN]
  BY <1>4
<1>5. CASE q \in [op : {"promote"}, user : Users, full : {TRUE}]
  BY <1>5
<1>6. CASE q \in [op : {"revoked"}, user : Users]
  BY <1>6
<1> QED
  BY <1>1, <1>2, <1>3, <1>4, <1>5, <1>6 DEF Requests

\* The requests that actions store are requests.
LEMMA RequestTypes ==
    /\ Idle \in Requests
    /\ \A u \in Users, r \in Regions : Apply(u, r) \in Requests /\ Created(u, r) \in Requests
    /\ \A c \in Cards : Send(c) \in Requests /\ CleanUp(c) \in Requests /\ Redeemed(c) \in Requests
    /\ \A u \in Users, f \in BOOLEAN :
          Grant(u, f) \in Requests /\ Granted(u, f) \in Requests /\ Upgrade(u, f) \in Requests
    /\ \A u \in Users : Promote(u) \in Requests /\ Revoked(u) \in Requests
BY DEF Requests, Idle, Apply, Send, CleanUp, Redeemed, Grant, Granted, Upgrade, Promote,
       Revoked, Created, Granting

\* The rows a user's quota counts are cards, so finitely many.
LEMMA RecentFinite ==
    ASSUME NEW u
    PROVE  IsFiniteSet(Recent(u)) /\ Cardinality(Recent(u)) \in Nat
<1>1. Recent(u) \subseteq Cards
  BY DEF Recent
<1> QED
  BY <1>1, FS_Subset, FS_CardinalityType

(***************************************************************************)
(* TypeOK is inductive with the rows behind the requests in flight: no     *)
(* row becomes one again once it is deleted, so a handler's card has one.  *)
(***************************************************************************)
CardsInFlight ==
    \A h \in Handlers :
        request[h].op \in {"send", "cleanup", "redeemed"} => status[request[h].card] # "none"

TypeInv == TypeOK /\ CardsInFlight

\* A handler's next request keeps what TypeInv says of requests.
LEMMA TurnType ==
    ASSUME TypeInv, NEW h \in Handlers, NEW q \in Requests, Turn(h, q),
           \A c \in Cards : status[c] # "none" => status'[c] # "none",
           q.op \in {"send", "cleanup", "redeemed"} => status'[q.card] # "none"
    PROVE  request' \in [Handlers -> Requests] /\ CardsInFlight'
BY RequestFields DEF TypeInv, TypeOK, CardsInFlight, Turn

\* The types hold initially.
LEMMA InitType == Init => TypeInv
<1> SUFFICES ASSUME Init PROVE TypeInv
  OBVIOUS
<1>1. belongs \in [Users -> [Regions -> Memberships]]
  BY DEF Init, Memberships
<1>2. request \in [Handlers -> Requests] /\ CardsInFlight
  BY RequestTypes DEF Init, CardsInFlight, Idle
<1> QED
  BY <1>1, <1>2 DEF Init, TypeOK, TypeInv

\* Every step preserves the types.
LEMMA StepType == TypeInv /\ [Next]_vars => TypeInv'
<1> SUFFICES ASSUME TypeInv, [Next]_vars PROVE TypeInv'
  OBVIOUS
<1> USE RequestTypes, RequestFields
    DEF TypeInv, TypeOK, CardsInFlight, Memberships, users, cards, history, Turn
<1>1. ASSUME NEW h \in Handlers, NEW u \in Users, NEW r \in Regions, BeginRequest(h, u, r)
      PROVE  TypeInv'
  BY <1>1 DEF BeginRequest, Apply
<1>2. ASSUME NEW h \in Handlers, NEW c \in Cards, InsertRequest(h, c) PROVE TypeInv'
  BY <1>2 DEF InsertRequest, Send
<1>3. ASSUME NEW h \in Handlers, RefuseRequest(h) PROVE TypeInv'
  BY <1>3 DEF RefuseRequest, Idle
<1>4. ASSUME NEW h \in Handlers, SendPostcard(h) PROVE TypeInv'
  <2>1. request[h].card \in Cards /\ status[request[h].card] # "none"
    BY <1>4 DEF SendPostcard
  <2>2. PICK q \in {Idle, CleanUp(request[h].card)} : Turn(h, q)
    BY <1>4 DEF SendPostcard
  <2>3. q.op \in {"send", "cleanup", "redeemed"} => q = CleanUp(request[h].card)
    BY <2>2 DEF Idle
  <2>4. q \in Requests /\ (q = CleanUp(request[h].card) => q.card = request[h].card)
    BY <2>1, <2>2 DEF CleanUp
  <2>5. UNCHANGED <<users, status, owner, place, attempts, aged, history>>
    BY <1>4 DEF SendPostcard
  <2>6. request' \in [Handlers -> Requests] /\ CardsInFlight'
    BY <2>1, <2>2, <2>3, <2>4, <2>5, TurnType
  <2>7. posted' \subseteq Cards
    BY <1>4, <2>1 DEF SendPostcard
  <2> QED
    BY <2>5, <2>6, <2>7
<1>5. ASSUME NEW h \in Handlers, DeleteUnsent(h) PROVE TypeInv'
  BY <1>5 DEF DeleteUnsent, Idle
<1>6. ASSUME NEW h \in Handlers, NEW u \in Users, NEW c \in Cards, VerifyCode(h, u, c)
      PROVE  TypeInv'
  <2>1. CASE Join(u, place[c]) /\ UNCHANGED missed
    BY <1>6, <2>1 DEF VerifyCode, Join, Redeemed, Memberships
  <2>2. CASE JoinPartly(u, place[c])
    <3>1. PICK joined \in {{}, {place[c]}} :
            /\ belongs' = [belongs EXCEPT ![u] =
                  [q \in Regions |-> IF q \in joined THEN "verified" ELSE belongs[u][q]]]
            /\ \E S \in {joined, {q \in Regions : belongs'[u][q] = "verified"}} :
                  admin' = [admin EXCEPT ![u] = @ \cup IF u \in vouch THEN S ELSE {}]
            /\ missed' = missed \cup {u}
      BY <2>2 DEF JoinPartly
    <3>2. place[c] \in Regions
      BY <1>6 DEF VerifyCode
    <3>3. belongs' \in [Users -> [Regions -> Memberships]] /\ admin' \in [Users -> SUBSET Regions]
      <4> DEFINE f == [q \in Regions |-> IF q \in joined THEN "verified" ELSE belongs[u][q]]
      <4>1. f \in [Regions -> Memberships] /\ belongs' = [belongs EXCEPT ![u] = f]
        BY <3>1 DEF Memberships
      <4> HIDE DEF f
      <4>2. belongs' \in [Users -> [Regions -> Memberships]]
        BY <4>1
      <4>3. PICK S \in SUBSET Regions :
              admin' = [admin EXCEPT ![u] = @ \cup IF u \in vouch THEN S ELSE {}]
        <5>1. PICK S \in {joined, {q \in Regions : belongs'[u][q] = "verified"}} :
                admin' = [admin EXCEPT ![u] = @ \cup IF u \in vouch THEN S ELSE {}]
          BY <3>1
        <5>2. S \in SUBSET Regions
          BY <3>2, <5>1
        <5> QED
          BY <5>1, <5>2
      <4>4. u \in Users /\ admin \in [Users -> SUBSET Regions]
        OBVIOUS
      <4>5. admin' \in [Users -> SUBSET Regions]
        BY <4>3, <4>4
      <4> QED
        BY <4>2, <4>5
    <3>4. /\ status' = [status EXCEPT ![c] = "verified"] /\ status[c] = "mailed"
          /\ Turn(h, Redeemed(c)) /\ postcard' = postcard \cup {u} /\ missed' \subseteq Users
          /\ UNCHANGED <<vouch, claim, owner, place, attempts, aged, posted, tried>>
      BY <1>6, <3>1 DEF VerifyCode
    <3>5. /\ Redeemed(c) \in Requests /\ Redeemed(c).card = c
          /\ Redeemed(c).op \in {"send", "cleanup", "redeemed"}
      BY DEF Redeemed
    <3>6. \A d \in Cards : status[d] # "none" => status'[d] # "none"
      BY <3>4
    <3>7. request' \in [Handlers -> Requests] /\ CardsInFlight'
      BY <3>4, <3>5, <3>6, TurnType
    <3> QED
      BY <3>3, <3>4, <3>7
  <2> QED
    BY <1>6, <2>1, <2>2 DEF VerifyCode
<1>7. ASSUME NEW h \in Handlers, FinishVerify(h) PROVE TypeInv'
  BY <1>7 DEF FinishVerify, Idle
<1>8. ASSUME NEW h \in Handlers, NEW u \in Users, BeginGrant(h, u) PROVE TypeInv'
  <2> DEFINE full == u \in postcard
  <2>1. full \in BOOLEAN
    OBVIOUS
  <2> HIDE DEF full
  <2>2. Grant(u, full) \in Requests /\ Grant(u, full).op = "grant"
    BY <2>1 DEF Grant
  <2>3. Turn(h, Grant(u, full)) /\ UNCHANGED <<users, cards, history>>
    BY <1>8 DEF BeginGrant, full
  <2> QED
    BY <2>2, <2>3, TurnType
<1>9. ASSUME NEW h \in Handlers, NEW u \in Users, RevokeVouchVerification(h, u) PROVE TypeInv'
  BY <1>9 DEF RevokeVouchVerification, Revoked
<1>10. ASSUME NEW h \in Handlers, SetVouch(h) PROVE TypeInv'
  BY <1>10 DEF SetVouch, Granted, Granting
<1>11. ASSUME NEW h \in Handlers, Invalidate(h) PROVE TypeInv'
  <2>1. request[h].user \in Users /\ (request[h].op = "granted" => request[h].full \in BOOLEAN)
    BY <1>11 DEF Invalidate, Granting
  <2>2. PICK q \in Requests : Turn(h, q) /\ q.op \in {"idle", "upgrade"}
    BY <1>11, <2>1 DEF Invalidate, Idle, Upgrade
  <2>3. request' \in [Handlers -> Requests] /\ CardsInFlight'
    BY <1>11, <2>2, TurnType DEF Invalidate
  <2> QED
    BY <1>11, <2>1, <2>3 DEF Invalidate
<1>12. ASSUME NEW h \in Handlers, UpgradePending(h) PROVE TypeInv'
  <2>1. request[h].user \in Users /\ request[h].full \in BOOLEAN
    BY <1>12 DEF UpgradePending, Granting
  <2>2. PICK q \in Requests : Turn(h, q) /\ q.op \in {"idle", "promote"}
    <3>1. Promote(request[h].user) \in Requests /\ Promote(request[h].user).op = "promote"
      BY <2>1 DEF Promote
    <3>2. Idle \in Requests /\ Idle.op = "idle"
      BY DEF Idle
    <3>3. Turn(h, Promote(request[h].user)) \/ Turn(h, Idle)
      BY <1>12 DEF UpgradePending
    <3> QED
      BY <3>1, <3>2, <3>3
  <2>3. request' \in [Handlers -> Requests] /\ CardsInFlight'
    BY <1>12, <2>2, TurnType DEF UpgradePending
  <2>4. missed' \subseteq Users
    BY <1>12, <2>1 DEF UpgradePending, Overlooked
  <2>5. belongs' \in [Users -> [Regions -> Memberships]]
    BY <1>12, <2>1 DEF UpgradePending
  <2>6. admin' \in [Users -> SUBSET Regions]
    BY <1>12, <2>1 DEF UpgradePending, Pending
  <2> QED
    BY <1>12, <2>3, <2>4, <2>5, <2>6 DEF UpgradePending
<1>13. ASSUME NEW h \in Handlers, PromoteVerified(h) PROVE TypeInv'
  BY <1>13 DEF PromoteVerified, Overlooked, Idle, Granting
<1>14. ASSUME NEW h \in Handlers, Die(h) PROVE TypeInv'
  BY <1>14 DEF Die, Idle
<1>15. ASSUME NEW u \in Users, NEW c \in Cards, VerifyOthersCode(u, c) PROVE TypeInv'
  BY <1>15 DEF VerifyOthersCode
<1>16. ASSUME NEW c \in Cards, Age(c) PROVE TypeInv'
  BY <1>16 DEF Age
<1>17. ASSUME NEW u \in Users, Login(u) PROVE TypeInv'
  BY <1>17 DEF Login
<1>18. CASE UNCHANGED vars
  BY <1>18 DEF vars
<1>19. ASSUME NEW h \in Handlers, NEW u \in Users, NEW r \in Regions, CreateRegion(h, u, r)
       PROVE  TypeInv'
  <2>1. Created(u, r) \in Requests /\ Created(u, r).op = "created"
    BY DEF Created
  <2>2. Turn(h, Created(u, r)) /\ UNCHANGED <<users, cards, history>>
    BY <1>19 DEF CreateRegion
  <2> QED
    BY <2>1, <2>2, TurnType
<1>20. ASSUME NEW h \in Handlers, AddCreator(h) PROVE TypeInv'
  <2>1. request[h].user \in Users /\ request[h].region \in Regions
    BY <1>20 DEF AddCreator
  <2>2. Turn(h, Idle) /\ UNCHANGED <<vouch, postcard, claim, cards, history>>
    BY <1>20 DEF AddCreator
  <2>3. belongs' \in [Users -> [Regions -> Memberships]] /\ admin' \in [Users -> SUBSET Regions]
    <3>1. CASE UNCHANGED <<belongs, admin>>
      BY <3>1
    <3>2. CASE UNCHANGED <<belongs, admin>> \/
               /\ belongs' = [belongs EXCEPT ![request[h].user][request[h].region] = "verified"]
               /\ admin' = [admin EXCEPT ![request[h].user] = @ \cup {request[h].region}]
      <4> DEFINE u == request[h].user
                 f == [belongs[u] EXCEPT ![request[h].region] = "verified"]
                 S == admin[u] \cup {request[h].region}
      <4>1. u \in Users /\ f \in [Regions -> Memberships] /\ S \in SUBSET Regions
        BY <2>1 DEF Memberships
      <4>2. ASSUME belongs' = [belongs EXCEPT ![u] = f], admin' = [admin EXCEPT ![u] = S]
            PROVE  belongs' \in [Users -> [Regions -> Memberships]]
                   /\ admin' \in [Users -> SUBSET Regions]
        <5> HIDE DEF u, f, S
        <5> QED
          BY <4>1, <4>2
      <4> QED
        BY <3>1, <3>2, <4>2
    <3> QED
      BY <1>20, <3>2 DEF AddCreator
  <2>4. request' \in [Handlers -> Requests] /\ CardsInFlight'
    BY <2>2, TurnType DEF Idle
  <2> QED
    BY <2>2, <2>3, <2>4
<1> QED
  BY <1>1, <1>2, <1>3, <1>4, <1>5, <1>6, <1>7, <1>8, <1>9, <1>10, <1>11, <1>12, <1>13, <1>14,
        <1>15, <1>16, <1>17, <1>18, <1>19, <1>20 DEF Next

\* Type correctness, for any users, regions, cards and bounds.
THEOREM TypeInvariant == Spec => []TypeOK
<1>1. TypeInv => TypeOK
  BY DEF TypeInv
<1> QED
  BY <1>1, InitType, StepType, PTL DEF Spec
-----------------------------------------------------------------------------
(* The quota.                                                              *)

LEMMA QuotaStep == TypeInv /\ Quota /\ [Next]_vars => Quota'
<1> SUFFICES ASSUME TypeInv, Quota, [Next]_vars, NEW w \in Users
             PROVE  Cardinality(Recent(w)') <= MaxRecent
  BY DEF Quota
<1> USE DEF TypeInv, TypeOK, users, cards, history
<1>1. ASSUME Recent(w)' \subseteq Recent(w) PROVE Cardinality(Recent(w)') <= MaxRecent
  <2>1. IsFiniteSet(Recent(w)) /\ Cardinality(Recent(w)) \in Nat
        /\ Cardinality(Recent(w)) <= MaxRecent
    BY RecentFinite DEF Quota
  <2>2. IsFiniteSet(Recent(w)') /\ Cardinality(Recent(w)') <= Cardinality(Recent(w))
    BY <1>1, <2>1, FS_Subset
  <2>3. Cardinality(Recent(w)') \in Nat
    BY <2>2, FS_CardinalityType
  <2> QED
    BY <2>1, <2>2, <2>3
<1>2. ASSUME NEW h \in Handlers, NEW c \in Cards, InsertRequest(h, c)
      PROVE  Cardinality(Recent(w)') <= MaxRecent
  <2>1. CASE request[h].user = w
    <3>1. Recent(w)' \subseteq Recent(w) \cup {c}
      BY <1>2 DEF InsertRequest, Recent
    <3>2. Cardinality(Recent(w) \cup {c}) <= Cardinality(Recent(w)) + 1
          /\ IsFiniteSet(Recent(w) \cup {c})
      <4>1. IsFiniteSet(Recent(w)) /\ Cardinality(Recent(w)) \in Nat
        BY RecentFinite
      <4>2. IsFiniteSet(Recent(w) \cup {c})
            /\ Cardinality(Recent(w) \cup {c}) \in {Cardinality(Recent(w)), Cardinality(Recent(w)) + 1}
        BY <4>1, FS_AddElement
      <4> QED
        BY <4>1, <4>2
    <3>3. Cardinality(Recent(w)') <= Cardinality(Recent(w) \cup {c})
          /\ Cardinality(Recent(w)') \in Nat /\ Cardinality(Recent(w) \cup {c}) \in Nat
      BY <3>1, <3>2, FS_Subset, FS_CardinalityType
    <3>4. Cardinality(Recent(w)) < MaxRecent
      BY <1>2, <2>1 DEF InsertRequest
    <3> QED
      BY <3>2, <3>3, <3>4, RecentFinite
  <2>2. CASE request[h].user # w
    <3>1. Recent(w)' \subseteq Recent(w)
      BY <1>2, <2>2 DEF InsertRequest, Recent
    <3> QED
      BY <3>1, <1>1
  <2> QED
    BY <2>1, <2>2
<1>3. ASSUME NEW h \in Handlers, DeleteUnsent(h) PROVE Recent(w)' \subseteq Recent(w)
  BY <1>3 DEF DeleteUnsent, Recent
<1>4. ASSUME NEW h \in Handlers, NEW u \in Users, NEW c \in Cards, VerifyCode(h, u, c)
      PROVE  Recent(w)' \subseteq Recent(w)
  BY <1>4 DEF VerifyCode, Recent
<1>5. ASSUME NEW h \in Handlers, FinishVerify(h) PROVE Recent(w)' \subseteq Recent(w)
  BY <1>5 DEF FinishVerify, Recent
<1>6. ASSUME NEW c \in Cards, Age(c) PROVE Recent(w)' \subseteq Recent(w)
  BY <1>6 DEF Age, Recent
<1>7. ASSUME UNCHANGED <<status, owner, aged>> PROVE Recent(w)' \subseteq Recent(w)
  BY <1>7 DEF Recent
<1>8. ASSUME NEW h \in Handlers,
             \/ \E u \in Users, r \in Regions : BeginRequest(h, u, r)
             \/ RefuseRequest(h) \/ SendPostcard(h) \/ SetVouch(h) \/ Invalidate(h)
             \/ \E u \in Users : BeginGrant(h, u) \/ RevokeVouchVerification(h, u)
             \/ \E u \in Users, r \in Regions : CreateRegion(h, u, r)
             \/ AddCreator(h)
             \/ UpgradePending(h) \/ PromoteVerified(h) \/ Die(h)
      PROVE  Recent(w)' \subseteq Recent(w)
  BY <1>7, <1>8 DEF CreateRegion, AddCreator, BeginRequest, RefuseRequest, SendPostcard, SetVouch, Invalidate, BeginGrant,
     RevokeVouchVerification, UpgradePending, PromoteVerified, Die
<1>9. ASSUME \/ \E u \in Users, c \in Cards : VerifyOthersCode(u, c)
             \/ \E u \in Users : Login(u)
             \/ UNCHANGED vars
      PROVE  Recent(w)' \subseteq Recent(w)
  BY <1>7, <1>9 DEF VerifyOthersCode, Login, vars
<1> QED
  BY <1>1, <1>2, <1>3, <1>4, <1>5, <1>6, <1>8, <1>9 DEF Next

\* However requests overlap, the quota of cards holds for every user.
THEOREM QuotaInvariant == Spec => []Quota
<1>1. Init => Quota
  <2> SUFFICES ASSUME Init, NEW u \in Users PROVE Cardinality(Recent(u)) <= MaxRecent
    BY DEF Quota
  <2>1. Recent(u) = {}
    BY DEF Init, Recent
  <2> QED
    BY <2>1, FS_EmptySet
<1> QED
  BY <1>1, InitType, StepType, QuotaStep, PTL DEF Spec
-----------------------------------------------------------------------------
(* Administrators.                                                         *)

(***************************************************************************)
(* A grant that found its user full was right, and so was the token of who *)
(* makes a region: postcard_verified is never cleared, nor is is_admin.    *)
(* That makes AdminNeedsPostcard inductive.                                *)
(***************************************************************************)
AdminInv ==
    /\ AdminNeedsPostcard
    /\ \A h \in Handlers :
        /\ request[h].op \in Granting /\ request[h].full => request[h].user \in postcard
        /\ request[h].op = "created" =>
             /\ request[h].user \in postcard
             /\ request[h].user \in Superusers \/ admin[request[h].user] # {}

LEMMA AdminStep == TypeInv /\ AdminInv /\ [Next]_vars => AdminInv'
<1> SUFFICES ASSUME TypeInv, AdminInv, [Next]_vars PROVE AdminInv'
  OBVIOUS
<1> USE RequestFields
    DEF TypeInv, TypeOK, AdminInv, AdminNeedsPostcard, users, cards, history, Turn, Granting
<1>1. ASSUME NEW h \in Handlers, NEW u \in Users, NEW r \in Regions, BeginRequest(h, u, r)
      PROVE  AdminInv'
  BY <1>1 DEF BeginRequest, Apply
<1>2. ASSUME NEW h \in Handlers, NEW c \in Cards, InsertRequest(h, c) PROVE AdminInv'
  BY <1>2 DEF InsertRequest, Send
<1>3. ASSUME NEW h \in Handlers, RefuseRequest(h) \/ DeleteUnsent(h) PROVE AdminInv'
  BY <1>3 DEF RefuseRequest, DeleteUnsent, Idle
<1>4. ASSUME NEW h \in Handlers, SendPostcard(h) PROVE AdminInv'
  <2>1. \/ request' = [request EXCEPT ![h] = Idle]
        \/ request' = [request EXCEPT ![h] = CleanUp(request[h].card)]
    BY <1>4 DEF SendPostcard
  <2>2. Idle.op = "idle" /\ CleanUp(request[h].card).op = "cleanup"
    BY DEF Idle, CleanUp
  <2>3. postcard' = postcard /\ admin' = admin
    BY <1>4 DEF SendPostcard
  <2> QED
    BY <2>1, <2>2, <2>3
<1>5. ASSUME NEW h \in Handlers, NEW u \in Users, NEW c \in Cards, VerifyCode(h, u, c)
      PROVE  AdminInv'
  BY <1>5 DEF VerifyCode, Join, JoinPartly, Redeemed
<1>6. ASSUME NEW h \in Handlers, FinishVerify(h) PROVE AdminInv'
  BY <1>6 DEF FinishVerify, Idle
<1>7. ASSUME NEW h \in Handlers, NEW u \in Users, BeginGrant(h, u) PROVE AdminInv'
  BY <1>7 DEF BeginGrant, Grant
<1>8. ASSUME NEW h \in Handlers, NEW u \in Users, RevokeVouchVerification(h, u) PROVE AdminInv'
  BY <1>8 DEF RevokeVouchVerification, Revoked
<1>9. ASSUME NEW h \in Handlers, SetVouch(h) PROVE AdminInv'
  BY <1>9 DEF SetVouch, Granted
<1>10. ASSUME NEW h \in Handlers, Invalidate(h) PROVE AdminInv'
  BY <1>10 DEF Invalidate, Upgrade, Idle
<1>11. ASSUME NEW h \in Handlers, UpgradePending(h) PROVE AdminInv'
  <2>1. request[h].user \in Users /\ (request[h].full => request[h].user \in postcard)
    BY <1>11 DEF UpgradePending
  <2>2. AdminNeedsPostcard'
    BY <1>11, <2>1 DEF UpgradePending
  <2>3. \/ request' = [request EXCEPT ![h] = Idle]
        \/ request[h].full /\ request' = [request EXCEPT ![h] = Promote(request[h].user)]
    BY <1>11 DEF UpgradePending
  <2>4. postcard' = postcard
    BY <1>11 DEF UpgradePending
  <2>5. /\ Idle.op = "idle" /\ Promote(request[h].user).op = "promote"
        /\ Promote(request[h].user).user = request[h].user
    BY DEF Idle, Promote
  <2>6. \A g \in Handlers : g # h => request'[g] = request[g]
    BY <2>3
  <2>7. \/ request'[h] = Idle
        \/ request'[h] = Promote(request[h].user) /\ request[h].full
    BY <2>3
  <2>8. ASSUME NEW g \in Handlers, request'[g].op \in Granting /\ request'[g].full
        PROVE  request'[g].user \in postcard
    BY <2>1, <2>5, <2>6, <2>7, <2>8
  <2>9. ASSUME NEW g \in Handlers, request'[g].op = "created"
        PROVE  /\ request'[g] = request[g]
               /\ request[g].user \in Users
    BY <2>5, <2>6, <2>7, <2>9
  <2>10. \A v \in Users : admin[v] \subseteq admin'[v]
    BY <1>11 DEF UpgradePending
  <2> QED
    BY <2>2, <2>4, <2>8, <2>9, <2>10
<1>12. ASSUME NEW h \in Handlers, PromoteVerified(h) PROVE AdminInv'
  <2>1. request[h].user \in postcard
    BY <1>12 DEF PromoteVerified
  <2> QED
    BY <1>12, <2>1 DEF PromoteVerified, Idle
<1>13. ASSUME NEW h \in Handlers, Die(h) PROVE AdminInv'
  BY <1>13 DEF Die, Idle
<1>14. ASSUME NEW u \in Users, NEW c \in Cards, VerifyOthersCode(u, c) PROVE AdminInv'
  BY <1>14 DEF VerifyOthersCode
<1>15. ASSUME NEW c \in Cards, Age(c) PROVE AdminInv'
  BY <1>15 DEF Age
<1>16. ASSUME NEW u \in Users, Login(u) PROVE AdminInv'
  BY <1>16 DEF Login
<1>17. CASE UNCHANGED vars
  BY <1>17 DEF vars
<1>18. ASSUME NEW h \in Handlers, NEW u \in Users, NEW r \in Regions, CreateRegion(h, u, r)
       PROVE  AdminInv'
  BY <1>18 DEF CreateRegion, Created
<1>19. ASSUME NEW h \in Handlers, AddCreator(h) PROVE AdminInv'
  <2>1. request[h].user \in Users /\ request[h].user \in postcard /\ postcard' = postcard
    BY <1>19 DEF AddCreator
  <2>2. request' = [request EXCEPT ![h] = Idle] /\ Idle.op = "idle"
    BY <1>19 DEF AddCreator, Idle
  <2>3. \A u \in Users : admin[u] \subseteq admin'[u]
                          /\ (u # request[h].user => admin'[u] = admin[u])
    BY <1>19 DEF AddCreator
  <2> QED
    BY <2>1, <2>2, <2>3
<1> QED
  BY <1>1, <1>2, <1>3, <1>4, <1>5, <1>6, <1>7, <1>8, <1>9, <1>10, <1>11, <1>12, <1>13, <1>14,
     <1>15, <1>16, <1>17, <1>18, <1>19 DEF Next

\* Nobody administers a region without a redeemed postcard.
THEOREM AdminInvariant == Spec => []AdminNeedsPostcard
<1>1. Init => AdminInv
  BY DEF Init, AdminInv, AdminNeedsPostcard, Idle, Granting
<1>2. AdminInv => AdminNeedsPostcard
  BY DEF AdminInv
<1> QED
  BY <1>1, <1>2, InitType, StepType, AdminStep, PTL DEF Spec
-----------------------------------------------------------------------------
(* Full users.                                                             *)

Verified(u) == {r \in Regions : belongs[u][r] = "verified"}

\* A user whose vouches, memberships and administration a step leaves alone.
LEMMA SameUser ==
    ASSUME FullUsersAdminister, NEW w \in Users, w \in (vouch \cap postcard) \ missed,
           Grants(w) = {}, belongs'[w] = belongs[w], admin[w] \subseteq admin'[w]
    PROVE  Verified(w)' \subseteq admin'[w]
BY DEF FullUsersAdminister, Verified

\* A step of a handler that goes on with a grant, or has none, ends no grant.
LEMMA GrantGoesOn ==
    ASSUME NEW h \in Handlers, NEW w, NEW q, TypeInv, Turn(h, q),
           request[h].op \in Granting => q.op \in Granting /\ q.user = request[h].user
    PROVE  Grants(w)' = {} => Grants(w) = {}
<1>1. \A i \in Grants(w) : i \in Grants(w)'
  BY DEF Grants, Turn, TypeInv, TypeOK
<1> QED
  BY <1>1

\* A handler that ends no grant to w leaves those of others as they were.
LEMMA GrantOfOther ==
    ASSUME NEW h \in Handlers, NEW w, NEW q, TypeInv, Turn(h, q),
           request[h].op \in Granting => w # request[h].user
    PROVE  Grants(w)' = {} => Grants(w) = {}
<1>1. \A i \in Grants(w) : i \in Grants(w)'
  BY DEF Grants, Turn, TypeInv, TypeOK
<1> QED
  BY <1>1

LEMMA FullPart ==
    ASSUME TypeInv, FullUsersAdminister, [Next]_vars, NEW w \in Users,
           w \in vouch', w \in postcard', w \notin missed', Grants(w)' = {}
    PROVE  Verified(w)' \subseteq admin'[w]
<1>t. \A h \in Handlers : request[h] \in Requests
  BY DEF TypeInv, TypeOK
<1>a. admin \in [Users -> SUBSET Regions] /\ belongs \in [Users -> [Regions -> Memberships]]
  BY DEF TypeInv, TypeOK
<1>1. ASSUME NEW h \in Handlers,
             \/ \E u \in Users, r \in Regions : BeginRequest(h, u, r)
             \/ \E c \in Cards : InsertRequest(h, c)
             \/ RefuseRequest(h) \/ SendPostcard(h) \/ DeleteUnsent(h) \/ FinishVerify(h)
             \/ \E u \in Users : BeginGrant(h, u) \/ RevokeVouchVerification(h, u)
             \/ Invalidate(h)
             \/ \E u \in Users, r \in Regions : CreateRegion(h, u, r)
      PROVE  Verified(w)' \subseteq admin'[w]
  <2>1. UNCHANGED <<postcard, belongs, admin, missed>> /\ vouch' \subseteq vouch
    BY <1>1 DEF BeginRequest, InsertRequest, RefuseRequest, SendPostcard, DeleteUnsent, FinishVerify,
       BeginGrant, RevokeVouchVerification, Invalidate, CreateRegion, users, cards, history
  <2>2. PICK q : Turn(h, q) /\ (request[h].op \in Granting =>
                                   q.op \in Granting /\ q.user = request[h].user)
    BY <1>1 DEF BeginRequest, InsertRequest, RefuseRequest, SendPostcard, DeleteUnsent, FinishVerify,
       BeginGrant, RevokeVouchVerification, Invalidate, CreateRegion, Granting, Idle, Upgrade
  <2>3. Grants(w) = {}
    BY <2>2, GrantGoesOn
  <2> QED
    BY <2>1, <2>3, SameUser
<1>2. ASSUME NEW h \in Handlers, NEW u \in Users, NEW c \in Cards, VerifyCode(h, u, c)
      PROVE  Verified(w)' \subseteq admin'[w]
  <2>1. Grants(w) = {}
    <3>1. Turn(h, Redeemed(c)) /\ request[h].op \notin Granting
      BY <1>2 DEF VerifyCode, Idle, Granting
    <3> QED
      BY <3>1, GrantGoesOn
  <2>2. UNCHANGED vouch /\ postcard' = postcard \cup {u} /\ missed \subseteq missed'
    BY <1>2 DEF VerifyCode, JoinPartly
  <2>3. CASE w = u
    <3>1. Join(u, place[c])
      BY <1>2, <2>3, <1>a DEF VerifyCode, JoinPartly
    <3> QED
      BY <1>a, <2>2, <2>3, <3>1 DEF Verified, Join
  <2>4. CASE w # u
    <3>1. belongs'[w] = belongs[w] /\ admin'[w] = admin[w]
      BY <1>a, <1>2, <2>4 DEF VerifyCode, Join, JoinPartly
    <3> QED
      BY <2>1, <2>2, <2>4, <3>1, SameUser
  <2> QED
    BY <2>3, <2>4
<1>3. ASSUME NEW h \in Handlers, SetVouch(h) PROVE Verified(w)' \subseteq admin'[w]
  <2>1. /\ Turn(h, Granted(request[h].user, request[h].full))
        /\ UNCHANGED <<postcard, belongs, admin, missed>> /\ vouch' = vouch \cup {request[h].user}
        /\ request[h].op \in Granting
    BY <1>3 DEF SetVouch, history, Granting
  <2>2. w # request[h].user
    <3>1. request'[h] = Granted(request[h].user, request[h].full)
      BY <2>1 DEF Turn, TypeInv, TypeOK
    <3>2. request'[h].op \in Granting /\ request'[h].user = request[h].user
      BY <3>1 DEF Granted, Granting
    <3>3. request'[h].user # w
      BY <3>2 DEF Grants
    <3> QED
      BY <3>2, <3>3
  <2>3. Grants(w) = {}
    BY <2>1, <2>2, GrantOfOther
  <2> QED
    BY <2>1, <2>2, <2>3, SameUser
<1>4. ASSUME NEW h \in Handlers, UpgradePending(h) PROVE Verified(w)' \subseteq admin'[w]
  <2>1. /\ request[h].op \in Granting
        /\ UNCHANGED <<vouch, postcard>>
        /\ \/ request[h].full /\ Turn(h, Promote(request[h].user)) /\ UNCHANGED missed
           \/ ~request[h].full /\ Turn(h, Idle) /\ Overlooked(request[h].user, FALSE)
        /\ \/ /\ \E f : belongs' = [belongs EXCEPT ![request[h].user] = f]
              /\ \E s : admin' = [admin EXCEPT ![request[h].user] = s]
           \/ UNCHANGED <<belongs, admin>>
    BY <1>4 DEF UpgradePending, Granting
  <2>2. w # request[h].user
    <3>1. CASE request[h].full /\ Turn(h, Promote(request[h].user))
      <4>1. request'[h] = Promote(request[h].user)
        BY <3>1 DEF Turn, TypeInv, TypeOK
      <4>2. request'[h].op \in Granting /\ request'[h].user = request[h].user
        BY <4>1 DEF Promote, Granting
      <4>3. request'[h].user # w
        BY <4>2 DEF Grants
      <4> QED
        BY <4>2, <4>3
    <3>2. CASE Overlooked(request[h].user, FALSE)
      BY <2>1, <3>2 DEF Overlooked
    <3> QED
      BY <2>1, <3>1, <3>2
  <2>3. belongs'[w] = belongs[w] /\ admin'[w] = admin[w]
    BY <1>a, <2>1, <2>2
  <2>4. Grants(w) = {}
    BY <2>1, <2>2, GrantOfOther
  <2>5. w \notin missed
    BY <2>1, <2>2 DEF Overlooked
  <2> QED
    BY <2>1, <2>3, <2>4, <2>5, SameUser
<1>5. ASSUME NEW h \in Handlers, PromoteVerified(h) PROVE Verified(w)' \subseteq admin'[w]
  <2>1. /\ request[h].op \in Granting
        /\ Turn(h, Idle) /\ missed' = missed \ {request[h].user} /\ UNCHANGED <<vouch, postcard,
              belongs>>
        /\ admin' = [admin EXCEPT ![request[h].user] =
              @ \cup {r \in Regions : belongs[request[h].user][r] = "verified"}]
    BY <1>5 DEF PromoteVerified, Overlooked, Granting
  <2>2. CASE w = request[h].user
    BY <1>a, <2>1, <2>2 DEF Verified
  <2>3. CASE w # request[h].user
    <3>1. admin'[w] = admin[w]
      BY <1>a, <2>1, <2>3
    <3>2. Grants(w) = {}
      BY <2>1, <2>3, GrantOfOther
    <3> QED
      BY <2>1, <2>3, <3>1, <3>2, SameUser
  <2> QED
    BY <2>2, <2>3
<1>6. ASSUME NEW h \in Handlers, Die(h) PROVE Verified(w)' \subseteq admin'[w]
  <2>1. Turn(h, Idle) /\ UNCHANGED <<vouch, postcard, belongs, admin>> /\ missed \subseteq missed'
    BY <1>6 DEF Die, users
  <2>2. request[h].op \in Granting => w # request[h].user
    BY <1>6 DEF Die
  <2>3. Grants(w) = {}
    BY <2>1, <2>2, GrantOfOther
  <2> QED
    BY <2>1, <2>3, SameUser
<1>7. ASSUME \/ \E u \in Users, c \in Cards : VerifyOthersCode(u, c)
             \/ \E c \in Cards : Age(c)
             \/ \E u \in Users : Login(u)
             \/ UNCHANGED vars
      PROVE  Verified(w)' \subseteq admin'[w]
  <2>1. UNCHANGED <<vouch, postcard, belongs, admin, missed, request>>
    BY <1>7 DEF VerifyOthersCode, Age, Login, vars, users, cards, history
  <2>2. Grants(w) = {}
    BY <2>1 DEF Grants
  <2> QED
    BY <2>1, <2>2, SameUser
<1>8. ASSUME NEW h \in Handlers, AddCreator(h) PROVE Verified(w)' \subseteq admin'[w]
  <2> DEFINE v == request[h].user
             r == request[h].region
  <2>1. Turn(h, Idle) /\ UNCHANGED <<vouch, postcard, missed>> /\ request[h].op = "created"
    BY <1>8 DEF AddCreator, history
  <2>2. Grants(w) = {}
    BY <2>1, GrantGoesOn DEF Granting
  <2>3. v \in Users /\ r \in Regions
    BY <1>t, <2>1, RequestFields
  <2> HIDE DEF v, r
  <2>4. CASE UNCHANGED <<belongs, admin>>
    BY <2>1, <2>2, <2>4, SameUser
  <2>5. CASE /\ belongs' = [belongs EXCEPT ![v][r] = "verified"]
             /\ admin' = [admin EXCEPT ![v] = @ \cup {r}]
    <3>1. CASE w # v
      <4>1. belongs'[w] = belongs[w] /\ admin'[w] = admin[w]
        BY <1>a, <2>3, <2>5, <3>1
      <4> QED
        BY <2>1, <2>2, <4>1, SameUser
    <3>2. CASE w = v
      <4>1. Verified(w) \subseteq admin[w]
        BY <2>1, <2>2 DEF FullUsersAdminister, Verified
      <4>2. admin'[w] = admin[w] \cup {r} /\ \A q \in Regions \ {r} : belongs'[w][q] = belongs[w][q]
        BY <1>a, <2>3, <2>5, <3>2
      <4> QED
        BY <4>1, <4>2 DEF Verified
    <3> QED
      BY <3>1, <3>2
  <2> QED
    BY <1>8, <2>4, <2>5 DEF AddCreator, v, r
<1> QED
  BY <1>1, <1>2, <1>3, <1>4, <1>5, <1>6, <1>7, <1>8, VoucheesAssumption DEF Next

LEMMA FullStep == TypeInv /\ FullUsersAdminister /\ [Next]_vars => FullUsersAdminister'
<1> SUFFICES ASSUME TypeInv, FullUsersAdminister, [Next]_vars PROVE FullUsersAdminister'
  OBVIOUS
<1>1. \A w \in Users : w \in vouch' /\ w \in postcard' /\ w \notin missed' /\ Grants(w)' = {}
         => {r \in Regions : belongs'[w][r] = "verified"} \subseteq admin'[w]
  BY FullPart DEF Verified
<1>2. vouch' \subseteq Users
  BY StepType DEF TypeInv, TypeOK
<1> QED
  BY <1>1, <1>2 DEF FullUsersAdminister

\* A user with both verifications administers every verified region, but for a
\* grant that overlooked the postcard or ended early.
THEOREM FullInvariant == Spec => []FullUsersAdminister
<1>1. Init => FullUsersAdminister
  BY DEF Init, FullUsersAdminister
<1> QED
  BY <1>1, InitType, StepType, FullStep, PTL DEF Spec
-----------------------------------------------------------------------------
(* Memberships.                                                            *)

\* Every verified membership is earned by a card of one's own, by a grant, or by
\* having made the region, which takes an earlier card and a superuser or an
\* administrator.
THEOREM EarnedTheorem == Spec => MembershipIsEarned
<1>1. ASSUME TypeInv, AdminInv, [Next]_vars, NEW u \in Users, NEW r \in Regions,
             belongs[u][r] # "verified", belongs'[u][r] = "verified"
      PROVE  Earned(u, r)
  <2>a. belongs \in [Users -> [Regions -> Memberships]] /\ status \in [Cards -> {"none",
        "mailed", "verified", "deleted"}]
    BY <1>1 DEF TypeInv, TypeOK
  <2>1. ASSUME NEW h \in Handlers, NEW v \in Users, NEW c \in Cards, VerifyCode(h, v, c)
        PROVE  Earned(u, r)
    <3>1. /\ status' = [status EXCEPT ![c] = "verified"]
          /\ c \in posted /\ c \notin aged /\ owner[c] = v /\ status[c] = "mailed"
      BY <2>1 DEF VerifyCode, Usable
    <3>2. PICK f \in [Regions -> Memberships] :
            /\ belongs' = [belongs EXCEPT ![v] = f]
            /\ \A q \in Regions : q # place[c] => f[q] = belongs[v][q]
      <4>1. CASE Join(v, place[c])
        <5> DEFINE f == [belongs[v] EXCEPT ![place[c]] = "verified"]
        <5>1. f \in [Regions -> Memberships] /\ belongs' = [belongs EXCEPT ![v] = f]
          BY <2>a, <4>1 DEF Join, Memberships
        <5>2. \A q \in Regions : q # place[c] => f[q] = belongs[v][q]
          BY <2>a
        <5> QED
          BY <5>1, <5>2
      <4>2. CASE JoinPartly(v, place[c])
        <5>1. PICK joined \in {{}, {place[c]}} : belongs' = [belongs EXCEPT ![v] =
                [q \in Regions |-> IF q \in joined THEN "verified" ELSE belongs[v][q]]]
          BY <4>2, <2>a DEF JoinPartly
        <5> DEFINE f == [q \in Regions |-> IF q \in joined THEN "verified" ELSE belongs[v][q]]
        <5>2. f \in [Regions -> Memberships]
          BY <2>a DEF Memberships
        <5>3. \A q \in Regions : q # place[c] => f[q] = belongs[v][q]
          OBVIOUS
        <5> QED
          BY <5>1, <5>2, <5>3
      <4> QED
        BY <2>1, <4>1, <4>2 DEF VerifyCode
    <3>3. v = u
      <4>1. v # u => belongs'[u] = belongs[u]
        BY <2>a, <3>2
      <4> QED
        BY <1>1, <4>1
    <3>5. place[c] = r
      <4>1. belongs'[u] = f
        BY <2>a, <3>2, <3>3
      <4> QED
        BY <1>1, <3>2, <3>3, <4>1
    <3>4. status'[c] = "verified"
      BY <2>a, <3>1
    <3> QED
      BY <3>1, <3>3, <3>4, <3>5 DEF Earned
  <2>2. ASSUME NEW h \in Handlers, UpgradePending(h) PROVE Earned(u, r)
    <3>1. request[h].op \in Granting
      BY <2>2 DEF UpgradePending, Granting
    <3>2. belongs' = [belongs EXCEPT ![request[h].user] =
                  [s \in Regions |-> IF @[s] = "pending" THEN "verified" ELSE @[s]]]
      BY <1>1, <2>2 DEF UpgradePending
    <3>3. request[h].user = u
      BY <1>1, <2>a, <3>2
    <3>4. belongs[u][r] = "pending"
      BY <1>1, <2>a, <3>2, <3>3
    <3>5. h \in Grants(u)
      BY <3>1, <3>3 DEF Grants
    <3> QED
      BY <3>4, <3>5 DEF Earned
  <2>3. CASE UNCHANGED belongs
    BY <1>1, <2>3
  <2>4. ASSUME NEW h \in Handlers, AddCreator(h) PROVE Earned(u, r)
    <3>1. request[h].op = "created" /\ request[h] \in Requests
      BY <1>1, <2>4 DEF AddCreator, TypeInv, TypeOK
    <3>2. belongs' = [belongs EXCEPT ![request[h].user][request[h].region] = "verified"]
      BY <1>1, <2>4 DEF AddCreator
    <3>3. request[h].user = u /\ request[h].region = r
      BY <1>1, <2>a, <3>2
    <3>4. Founded(u, r)
      BY <1>1, <3>1, <3>3 DEF AdminInv, Founded
    <3> QED
      BY <3>4 DEF Earned
  <2> QED
    BY <1>1, <2>1, <2>2, <2>3, <2>4 DEF Next, CreateRegion, vars, users, BeginRequest, InsertRequest, RefuseRequest,
          SendPostcard,
       DeleteUnsent, FinishVerify, BeginGrant, RevokeVouchVerification, SetVouch, Invalidate,
       PromoteVerified, Die, VerifyOthersCode, Age, Login
<1>2. TypeInv /\ AdminInv /\ [Next]_vars =>
        [\A u \in Users, r \in Regions :
            belongs[u][r] # "verified" /\ belongs'[u][r] = "verified" => Earned(u, r)]_vars
  BY <1>1
<1>3. Init => AdminInv
  BY DEF Init, AdminInv, AdminNeedsPostcard, Idle, Granting
<1> QED
  BY <1>2, <1>3, InitType, StepType, AdminStep, PTL DEF Spec, MembershipIsEarned
=============================================================================
