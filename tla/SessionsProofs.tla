--------------------------- MODULE SessionsProofs ---------------------------
(* The invariants of Sessions hold for any tokens, links and handlers.     *)
EXTENDS Sessions, TLAPS

\* The operations of a request in flight and the fields they carry.
LEMMA RequestFields ==
    ASSUME NEW q \in Requests
    PROVE  /\ q.op = "signing_in" => q.password \in Nat /\ q.kind \in {"pending", "full"}
           /\ q.op = "fetched" => q.token \in Tokens /\ q.status \in Statuses
           /\ q.op \in {"admitted", "logout"} => q.token \in Tokens
           /\ q.op = "resetting" => q.link \in Links
           /\ q.op \in {"revoking", "evicting"} => q.next \in Afterwards
           /\ q.op = "removing" => q.soft \in BOOLEAN /\ q.own \in BOOLEAN
<1>1. CASE q \in [op : {"idle", "changing", "closing"}]
  BY <1>1
<1>2. CASE q \in [op : {"signing_in"}, password : Nat, kind : {"pending", "full"}]
  BY <1>2
<1>3. CASE q \in [op : {"fetched"}, token : Tokens, status : Statuses]
  BY <1>3
<1>4. CASE q \in [op : {"admitted", "logout"}, token : Tokens]
  BY <1>4
<1>5. CASE q \in [op : {"resetting"}, link : Links]
  BY <1>5
<1>6. CASE q \in [op : {"revoking", "evicting"}, next : Afterwards]
  BY <1>6
<1>7. CASE q \in [op : {"removing"}, soft : BOOLEAN, own : BOOLEAN]
  BY <1>7
<1> QED
  BY <1>1, <1>2, <1>3, <1>4, <1>5, <1>6, <1>7 DEF Requests

\* The requests that actions store are requests.
LEMMA RequestTypes ==
    /\ Idle \in Requests /\ Changing \in Requests /\ Closing \in Requests
    /\ \A p \in Nat, k \in {"pending", "full"} : SigningIn(p, k) \in Requests
    /\ \A t \in Tokens : Admitted(t) \in Requests /\ LoggingOut(t) \in Requests
    /\ \A t \in Tokens, s \in Statuses : Fetched(t, s) \in Requests
    /\ \A l \in Links : Resetting(l) \in Requests
    /\ \A n \in Afterwards : Revoking(n) \in Requests /\ Evicting(n) \in Requests
    /\ \A s, o \in BOOLEAN : Removing(s, o) \in Requests
BY DEF Requests, Idle, Changing, Closing, SigningIn, Admitted, LoggingOut, Fetched, Resetting,
       Revoking, Evicting, Removing

(***************************************************************************)
(* Types.                                                                  *)
(***************************************************************************)

\* The types hold initially.
LEMMA InitType == Init => TypeOK
<1> SUFFICES ASSUME Init PROVE TypeOK
  OBVIOUS
<1>1. iat \in [Tokens -> 0 .. clock] /\ invalidated \in 0 .. clock /\ clock \in Nat \ {0}
  BY DEF Init
<1>2. request \in [Handlers -> Requests]
  BY RequestTypes DEF Init
<1> QED
  BY <1>1, <1>2 DEF Init, TypeOK

\* Every step preserves the types.
LEMMA StepType == TypeOK /\ [Next]_vars => TypeOK'
<1> SUFFICES ASSUME TypeOK, [Next]_vars PROVE TypeOK'
  OBVIOUS
<1> USE RequestTypes, RequestFields DEF TypeOK, account, issued, Turn
<1>1. ASSUME NEW h \in Handlers, Login(h) PROVE TypeOK'
  BY <1>1 DEF Login
<1>2. ASSUME NEW h \in Handlers, SecondFactor(h) PROVE TypeOK'
  BY <1>2 DEF SecondFactor
<1>3. ASSUME NEW h \in Handlers, NEW t \in Tokens, IssueToken(h, t) PROVE TypeOK'
  BY <1>3 DEF IssueToken
<1>4. ASSUME NEW h \in Handlers, NEW t \in Tokens, PresentCached(h, t) PROVE TypeOK'
  BY <1>4 DEF PresentCached
<1>5. ASSUME NEW h \in Handlers, NEW t \in Tokens, FetchStatus(h, t) PROVE TypeOK'
  <2>1. Status \in Statuses
    BY DEF Status, Statuses
  <2> QED
    BY <1>5, <2>1 DEF FetchStatus
<1>6. ASSUME NEW h \in Handlers, NEW t \in Tokens, BeginLogout(h, t) PROVE TypeOK'
  BY <1>6 DEF BeginLogout
<1>7. ASSUME NEW h \in Handlers, StoreStatus(h) PROVE TypeOK'
  <2>1. request[h].token \in Tokens /\ request[h].status \in Statuses
    BY <1>7 DEF StoreStatus
  <2>2. PICK q \in Requests : Turn(h, q)
    BY <1>7, <2>1 DEF StoreStatus
  <2>3. request' \in [Handlers -> Requests]
    BY <2>2
  <2> QED
    BY <1>7, <2>1, <2>3 DEF StoreStatus
<1>8. ASSUME NEW h \in Handlers, Logout(h) PROVE TypeOK'
  BY <1>8 DEF Logout
<1>9. ASSUME NEW h \in Handlers, BeginChange(h) PROVE TypeOK'
  BY <1>9 DEF BeginChange
<1>10. ASSUME NEW h \in Handlers, UpdatePassword(h) PROVE TypeOK'
  BY <1>10 DEF UpdatePassword, ActiveLinks, Afterwards
<1>11. ASSUME NEW h \in Handlers, NEW l \in Links, ValidateLink(h, l) PROVE TypeOK'
  BY <1>11 DEF ValidateLink
<1>12. ASSUME NEW h \in Handlers, CommitReset(h) PROVE TypeOK'
  BY <1>12 DEF CommitReset, EndLinks, Afterwards
<1>13. ASSUME NEW h \in Handlers, InvalidateTokens(h) PROVE TypeOK'
  BY <1>13 DEF InvalidateTokens
<1>14. ASSUME NEW h \in Handlers, InvalidateFails(h) PROVE TypeOK'
  BY <1>14 DEF InvalidateFails, Outdated
<1>15. ASSUME NEW h \in Handlers, EvictCache(h) PROVE TypeOK'
  <2>1. request[h].next \in Afterwards
    BY <1>15 DEF EvictCache
  <2>2. PICK q \in Requests : Turn(h, q)
    BY <1>15, <2>1 DEF EvictCache, Afterwards
  <2>3. request' \in [Handlers -> Requests]
    BY <2>2
  <2> QED
    BY <1>15, <2>3 DEF EvictCache
<1>16. ASSUME NEW h \in Handlers, CloseLinks(h) PROVE TypeOK'
  BY <1>16 DEF CloseLinks, EndLinks
<1>17. ASSUME NEW h \in Handlers, Block(h) PROVE TypeOK'
  BY <1>17 DEF Block, Deciding, Afterwards
<1>18. ASSUME NEW h \in Handlers, Unblock(h) PROVE TypeOK'
  BY <1>18 DEF Unblock, Afterwards
<1>19. ASSUME NEW h \in Handlers, DeleteUser(h) PROVE TypeOK'
  BY <1>19 DEF DeleteUser, Afterwards
<1>20. ASSUME NEW h \in Handlers, BeginDelete(h) PROVE TypeOK'
  BY <1>20 DEF BeginDelete, IsUserBlockedAnywhere
<1>21. ASSUME NEW h \in Handlers, Remove(h) PROVE TypeOK'
  BY <1>21 DEF Remove, SoftDelete, Delete
<1>22. ASSUME NEW h \in Handlers, Finish(h) PROVE TypeOK'
  BY <1>22 DEF Finish
<1>23. ASSUME NEW l \in Links, RequestLink(l) PROVE TypeOK'
  BY <1>23 DEF RequestLink
<1>24. ASSUME NEW l \in Links, ExpireLink(l) PROVE TypeOK'
  BY <1>24 DEF ExpireLink
<1>25. CASE Expire
  BY <1>25 DEF Expire
<1>26. CASE Tick
  BY <1>26 DEF Tick
<1>27. CASE Crash
  BY <1>27 DEF Crash, Outdated
<1>28. CASE UNCHANGED vars
  BY <1>28 DEF vars
<1> QED
  BY <1>1, <1>2, <1>3, <1>4, <1>5, <1>6, <1>7, <1>8, <1>9, <1>10, <1>11, <1>12, <1>13,
     <1>14, <1>15, <1>16, <1>17, <1>18, <1>19, <1>20, <1>21, <1>22, <1>23, <1>24, <1>25,
     <1>26, <1>27, <1>28 DEF Next

\* The account, its tokens and the requests in flight keep their types.
THEOREM TypeCorrect == Spec => []TypeOK
<1> QED
  BY InitType, StepType, PTL DEF Spec

(***************************************************************************)
(* The cache.                                                              *)
(***************************************************************************)

\* A step of one handler leaves the others pending.
LEMMA OthersPend ==
    ASSUME TypeOK, NEW h \in Handlers, NEW q, Turn(h, q), \E g \in Handlers : Pending(g),
           Pending(h) => q.op \in {"revoking", "evicting"}
    PROVE  (\E g \in Handlers : Pending(g))'
<1>1. PICK g \in Handlers : Pending(g)
  OBVIOUS
<1>2. Pending(g)'
  BY <1>1 DEF TypeOK, Turn, Pending
<1> QED
  BY <1>2

\* Where the cached status and the row agree the same is said of both; a step that
\* changes neither, and ends no revocation, keeps the explanation.
LEMMA QuietCache ==
    ASSUME TypeOK, StaleEntryIsExplained, NEW h \in Handlers, NEW q, Turn(h, q),
           ~Pending(h), UNCHANGED <<row, blocked, invalidated, cache, window>>
    PROVE  StaleEntryIsExplained'
<1>1. Status' = Status
  BY DEF Status
<1> QED
  BY <1>1, OthersPend DEF StaleEntryIsExplained, Exists

\* A step that ends in a request which is to evict keeps it too.
LEMMA PendingCache ==
    ASSUME TypeOK, NEW h \in Handlers, NEW q, Turn(h, q), q.op \in {"revoking", "evicting"}
    PROVE  StaleEntryIsExplained'
BY DEF TypeOK, Turn, Pending, StaleEntryIsExplained

\* Every step preserves StaleEntryIsExplained.
LEMMA StepStale == TypeOK /\ StaleEntryIsExplained /\ [Next]_vars => StaleEntryIsExplained'
<1> SUFFICES ASSUME TypeOK, StaleEntryIsExplained, [Next]_vars PROVE StaleEntryIsExplained'
  OBVIOUS
<1> USE DEF account, issued
<1>1. ASSUME NEW h \in Handlers, Login(h) PROVE StaleEntryIsExplained'
  BY <1>1, QuietCache DEF Login, Pending, Idle
<1>2. ASSUME NEW h \in Handlers, SecondFactor(h) PROVE StaleEntryIsExplained'
  BY <1>2, QuietCache DEF SecondFactor, Pending
<1>3. ASSUME NEW h \in Handlers, NEW t \in Tokens, IssueToken(h, t) PROVE StaleEntryIsExplained'
  BY <1>3, QuietCache DEF IssueToken, Pending
<1>4. ASSUME NEW h \in Handlers, NEW t \in Tokens, PresentCached(h, t) PROVE StaleEntryIsExplained'
  BY <1>4, QuietCache DEF PresentCached, Pending, Idle
<1>5. ASSUME NEW h \in Handlers, NEW t \in Tokens, FetchStatus(h, t) PROVE StaleEntryIsExplained'
  BY <1>5, QuietCache DEF FetchStatus, Pending, Idle
<1>6. ASSUME NEW h \in Handlers, NEW t \in Tokens, BeginLogout(h, t) PROVE StaleEntryIsExplained'
  BY <1>6, QuietCache DEF BeginLogout, Pending, Idle
<1>7. ASSUME NEW h \in Handlers, StoreStatus(h) PROVE StaleEntryIsExplained'
  BY <1>7 DEF StoreStatus, StaleEntryIsExplained, Status, Exists
<1>8. ASSUME NEW h \in Handlers, Logout(h) PROVE StaleEntryIsExplained'
  BY <1>8, QuietCache DEF Logout, Pending
<1>9. ASSUME NEW h \in Handlers, BeginChange(h) PROVE StaleEntryIsExplained'
  BY <1>9, QuietCache DEF BeginChange, Pending
<1>10. ASSUME NEW h \in Handlers, UpdatePassword(h) PROVE StaleEntryIsExplained'
  BY <1>10, PendingCache DEF UpdatePassword, Revoking
<1>11. ASSUME NEW h \in Handlers, NEW l \in Links, ValidateLink(h, l) PROVE StaleEntryIsExplained'
  BY <1>11, QuietCache DEF ValidateLink, Pending, Idle
<1>12. ASSUME NEW h \in Handlers, CommitReset(h) PROVE StaleEntryIsExplained'
  BY <1>12, PendingCache DEF CommitReset, Evicting
<1>13. ASSUME NEW h \in Handlers, InvalidateTokens(h) PROVE StaleEntryIsExplained'
  BY <1>13, PendingCache DEF InvalidateTokens, Evicting
<1>14. ASSUME NEW h \in Handlers, InvalidateFails(h) PROVE StaleEntryIsExplained'
  BY <1>14, PendingCache DEF InvalidateFails, Evicting
<1>15. ASSUME NEW h \in Handlers, EvictCache(h) PROVE StaleEntryIsExplained'
  BY <1>15 DEF EvictCache, StaleEntryIsExplained
<1>16. ASSUME NEW h \in Handlers, CloseLinks(h) PROVE StaleEntryIsExplained'
  BY <1>16, QuietCache DEF CloseLinks, Pending
<1>17. ASSUME NEW h \in Handlers, Block(h) PROVE StaleEntryIsExplained'
  BY <1>17, PendingCache DEF Block, Revoking
<1>18. ASSUME NEW h \in Handlers, Unblock(h) PROVE StaleEntryIsExplained'
  BY <1>18, PendingCache DEF Unblock, Revoking
<1>19. ASSUME NEW h \in Handlers, DeleteUser(h) PROVE StaleEntryIsExplained'
  BY <1>19, PendingCache DEF DeleteUser, Revoking
<1>20. ASSUME NEW h \in Handlers, BeginDelete(h) PROVE StaleEntryIsExplained'
  BY <1>20, QuietCache DEF BeginDelete, IsUserBlockedAnywhere, Pending
<1>21. ASSUME NEW h \in Handlers, Remove(h) PROVE StaleEntryIsExplained'
  <2>1. PICK r : Turn(h, r)
    BY <1>21 DEF Remove, SoftDelete, Delete
  <2>2. ~Pending(h)
    BY <1>21 DEF Remove, SoftDelete, Delete, Pending
  <2> QED
    BY <1>21, <2>1, <2>2, OthersPend DEF Remove, SoftDelete, Delete, StaleEntryIsExplained
<1>22. ASSUME NEW h \in Handlers, Finish(h) PROVE StaleEntryIsExplained'
  BY <1>22, QuietCache DEF Finish, Pending
<1>23. ASSUME NEW l \in Links, RequestLink(l) PROVE StaleEntryIsExplained'
  BY <1>23 DEF RequestLink, StaleEntryIsExplained, Status, Exists, Pending
<1>24. ASSUME NEW l \in Links, ExpireLink(l) PROVE StaleEntryIsExplained'
  BY <1>24 DEF ExpireLink, StaleEntryIsExplained, Status, Exists, Pending
<1>25. CASE Expire
  BY <1>25 DEF Expire, StaleEntryIsExplained
<1>26. CASE Tick
  BY <1>26 DEF Tick, StaleEntryIsExplained, Status, Exists, Pending
<1>27. CASE Crash
  BY <1>27 DEF Crash, StaleEntryIsExplained
<1>28. CASE UNCHANGED vars
  BY <1>28 DEF vars, StaleEntryIsExplained, Status, Exists, Pending
<1> QED
  BY <1>1, <1>2, <1>3, <1>4, <1>5, <1>6, <1>7, <1>8, <1>9, <1>10, <1>11, <1>12, <1>13,
     <1>14, <1>15, <1>16, <1>17, <1>18, <1>19, <1>20, <1>21, <1>22, <1>23, <1>24, <1>25,
     <1>26, <1>27, <1>28 DEF Next

\* The cached status differs from the row only in the windows the property names.
THEOREM CacheExplained == Spec => []StaleEntryIsExplained
<1>1. Init => StaleEntryIsExplained
  BY DEF Init, StaleEntryIsExplained
<1> QED
  BY <1>1, StepStale, TypeCorrect, PTL DEF Spec

(***************************************************************************)
(* The sessions of a former password.                                      *)
(***************************************************************************)

\* A step that revokes nothing less, changes no password and lets others go on.
LEMMA QuietSessions ==
    ASSUME TypeOK, FormerPasswordEndsSessions, NEW h \in Handlers, NEW q, Turn(h, q),
           request[h] # Revoking("close"),
           UNCHANGED <<row, password, invalidated, iat, by, overtaken>>
    PROVE  FormerPasswordEndsSessions'
<1>1. Outdated(password)' = Outdated(password)
  BY DEF Outdated
<1>2. (\E g \in Handlers : request[g] = Revoking("close"))
          => (\E g \in Handlers : request[g] = Revoking("close"))'
  BY DEF TypeOK, Turn
<1> QED
  BY <1>1, <1>2 DEF FormerPasswordEndsSessions, Exists

\* No token is younger than the clock, so none passes once the row is stamped with it.
LEMMA StampedSessions ==
    ASSUME TypeOK, invalidated' = clock, iat' = iat
    PROVE  FormerPasswordEndsSessions'
BY DEF TypeOK, FormerPasswordEndsSessions, Outdated

\* Every step preserves FormerPasswordEndsSessions.
LEMMA StepFormer ==
    TypeOK /\ FormerPasswordEndsSessions /\ [Next]_vars => FormerPasswordEndsSessions'
<1> SUFFICES ASSUME TypeOK, FormerPasswordEndsSessions, [Next]_vars
             PROVE  FormerPasswordEndsSessions'
  OBVIOUS
<1> USE DEF account, issued
<1>1. ASSUME NEW h \in Handlers, Login(h) PROVE FormerPasswordEndsSessions'
  BY <1>1, QuietSessions DEF Login, Revoking, Idle
<1>2. ASSUME NEW h \in Handlers, SecondFactor(h) PROVE FormerPasswordEndsSessions'
  BY <1>2, QuietSessions DEF SecondFactor, Revoking
<1>3. ASSUME NEW h \in Handlers, NEW t \in Tokens, IssueToken(h, t) PROVE FormerPasswordEndsSessions'
  <2>1. Outdated(password)' \subseteq Outdated(password) \cup {t}
    BY <1>3 DEF IssueToken, Outdated, TypeOK
  <2>2. t \in Outdated(password)' => t \in overtaken'
    BY <1>3 DEF IssueToken, Outdated, TypeOK
  <2>3. (\E g \in Handlers : request[g] = Revoking("close"))
            => (\E g \in Handlers : request[g] = Revoking("close"))'
    BY <1>3 DEF IssueToken, Turn, TypeOK, Revoking
  <2>4. overtaken \subseteq overtaken' /\ row' = row
    BY <1>3 DEF IssueToken
  <2> QED
    BY <2>1, <2>2, <2>3, <2>4 DEF FormerPasswordEndsSessions, Exists
<1>4. ASSUME NEW h \in Handlers, NEW t \in Tokens, PresentCached(h, t) PROVE FormerPasswordEndsSessions'
  BY <1>4, QuietSessions DEF PresentCached, Revoking, Idle
<1>5. ASSUME NEW h \in Handlers, NEW t \in Tokens, FetchStatus(h, t) PROVE FormerPasswordEndsSessions'
  BY <1>5, QuietSessions DEF FetchStatus, Revoking, Idle
<1>6. ASSUME NEW h \in Handlers, NEW t \in Tokens, BeginLogout(h, t) PROVE FormerPasswordEndsSessions'
  BY <1>6, QuietSessions DEF BeginLogout, Revoking, Idle
<1>7. ASSUME NEW h \in Handlers, StoreStatus(h) PROVE FormerPasswordEndsSessions'
  BY <1>7, QuietSessions DEF StoreStatus, Revoking
<1>8. ASSUME NEW h \in Handlers, Logout(h) PROVE FormerPasswordEndsSessions'
  BY <1>8, QuietSessions DEF Logout, Revoking
<1>9. ASSUME NEW h \in Handlers, BeginChange(h) PROVE FormerPasswordEndsSessions'
  BY <1>9, QuietSessions DEF BeginChange, Revoking
<1>10. ASSUME NEW h \in Handlers, UpdatePassword(h) PROVE FormerPasswordEndsSessions'
  BY <1>10 DEF UpdatePassword, TypeOK, Turn, FormerPasswordEndsSessions
<1>11. ASSUME NEW h \in Handlers, NEW l \in Links, ValidateLink(h, l) PROVE FormerPasswordEndsSessions'
  BY <1>11, QuietSessions DEF ValidateLink, Revoking, Idle
<1>12. ASSUME NEW h \in Handlers, CommitReset(h) PROVE FormerPasswordEndsSessions'
  BY <1>12, StampedSessions DEF CommitReset
<1>13. ASSUME NEW h \in Handlers, InvalidateTokens(h) PROVE FormerPasswordEndsSessions'
  <2>1. CASE Exists
    BY <1>13, <2>1, StampedSessions DEF InvalidateTokens
  <2>2. CASE ~Exists
    BY <1>13, <2>2 DEF InvalidateTokens, FormerPasswordEndsSessions, Exists
  <2> QED
    BY <2>1, <2>2
<1>14. ASSUME NEW h \in Handlers, InvalidateFails(h) PROVE FormerPasswordEndsSessions'
  BY <1>14 DEF InvalidateFails, FormerPasswordEndsSessions, Outdated
<1>15. ASSUME NEW h \in Handlers, EvictCache(h) PROVE FormerPasswordEndsSessions'
  <2>1. PICK r : Turn(h, r)
    BY <1>15 DEF EvictCache
  <2>2. request[h] # Revoking("close")
    BY <1>15 DEF EvictCache, Revoking
  <2> QED
    BY <1>15, <2>1, <2>2, QuietSessions DEF EvictCache
<1>16. ASSUME NEW h \in Handlers, CloseLinks(h) PROVE FormerPasswordEndsSessions'
  BY <1>16, QuietSessions DEF CloseLinks, Revoking
<1>17. ASSUME NEW h \in Handlers, Block(h) PROVE FormerPasswordEndsSessions'
  BY <1>17, QuietSessions DEF Block, Revoking, Idle
<1>18. ASSUME NEW h \in Handlers, Unblock(h) PROVE FormerPasswordEndsSessions'
  BY <1>18, QuietSessions DEF Unblock, Revoking, Idle
<1>19. ASSUME NEW h \in Handlers, DeleteUser(h) PROVE FormerPasswordEndsSessions'
  BY <1>19, QuietSessions DEF DeleteUser, Revoking, Idle
<1>20. ASSUME NEW h \in Handlers, BeginDelete(h) PROVE FormerPasswordEndsSessions'
  <2>1. PICK r : Turn(h, r)
    BY <1>20 DEF BeginDelete, IsUserBlockedAnywhere
  <2>2. request[h] # Revoking("close")
    BY <1>20 DEF BeginDelete, IsUserBlockedAnywhere, Revoking
  <2> QED
    BY <1>20, <2>1, <2>2, QuietSessions DEF BeginDelete, IsUserBlockedAnywhere
<1>21. ASSUME NEW h \in Handlers, Remove(h) PROVE FormerPasswordEndsSessions'
  <2>1. Exists' => row # "gone"
    BY <1>21 DEF Remove, SoftDelete, Delete, Exists
  <2>2. Outdated(password)' = Outdated(password)
    BY <1>21 DEF Remove, SoftDelete, Delete, Outdated
  <2>3. (\E g \in Handlers : request[g] = Revoking("close"))
            => (\E g \in Handlers : request[g] = Revoking("close"))'
    BY <1>21 DEF Remove, SoftDelete, Delete, Turn, TypeOK, Revoking
  <2> QED
    BY <1>21, <2>1, <2>2, <2>3 DEF Remove, SoftDelete, Delete, FormerPasswordEndsSessions, Exists
<1>22. ASSUME NEW h \in Handlers, Finish(h) PROVE FormerPasswordEndsSessions'
  BY <1>22, QuietSessions DEF Finish, Revoking
<1>23. ASSUME NEW l \in Links, RequestLink(l) PROVE FormerPasswordEndsSessions'
  BY <1>23 DEF RequestLink, FormerPasswordEndsSessions, Outdated, Exists
<1>24. ASSUME NEW l \in Links, ExpireLink(l) PROVE FormerPasswordEndsSessions'
  BY <1>24 DEF ExpireLink, FormerPasswordEndsSessions, Outdated, Exists
<1>25. CASE Expire
  BY <1>25 DEF Expire, FormerPasswordEndsSessions, Outdated, Exists
<1>26. CASE Tick
  BY <1>26 DEF Tick, FormerPasswordEndsSessions, Outdated, Exists
<1>27. CASE Crash
  BY <1>27 DEF Crash, FormerPasswordEndsSessions, Outdated
<1>28. CASE UNCHANGED vars
  BY <1>28 DEF vars, FormerPasswordEndsSessions, Outdated, Exists
<1> QED
  BY <1>1, <1>2, <1>3, <1>4, <1>5, <1>6, <1>7, <1>8, <1>9, <1>10, <1>11, <1>12, <1>13,
     <1>14, <1>15, <1>16, <1>17, <1>18, <1>19, <1>20, <1>21, <1>22, <1>23, <1>24, <1>25,
     <1>26, <1>27, <1>28 DEF Next

\* No session outlives its password but those the property names.
THEOREM SessionsEnd == Spec => []FormerPasswordEndsSessions
<1>1. Init => FormerPasswordEndsSessions
  BY DEF Init, FormerPasswordEndsSessions, Outdated
<1> QED
  BY <1>1, StepFormer, TypeCorrect, PTL DEF Spec

(***************************************************************************)
(* The links a change of the password ends.                                *)
(***************************************************************************)

\* A step that dates no link, and of a handler with no change under way, keeps the property.
LEMMA QuietLinks ==
    ASSUME TypeOK, PasswordChangeEndsLinks, NEW h \in Handlers, NEW q, Turn(h, q),
           ChangeUnderWay(h) => q \in {Evicting("close"), Closing},
           dated' \subseteq dated
    PROVE  PasswordChangeEndsLinks'
<1>1. \A g \in Handlers : ChangeUnderWay(g) => ChangeUnderWay(g)'
  BY DEF TypeOK, Turn, ChangeUnderWay
<1> QED
  BY <1>1 DEF PasswordChangeEndsLinks

\* Every step preserves PasswordChangeEndsLinks.
LEMMA StepLinks == TypeOK /\ PasswordChangeEndsLinks /\ [Next]_vars => PasswordChangeEndsLinks'
<1> SUFFICES ASSUME TypeOK, PasswordChangeEndsLinks, [Next]_vars PROVE PasswordChangeEndsLinks'
  OBVIOUS
<1> USE DEF ChangeUnderWay, Revoking, Evicting, Closing
<1>1. ASSUME NEW h \in Handlers, Login(h) PROVE PasswordChangeEndsLinks'
  BY <1>1, QuietLinks DEF Login, Idle
<1>2. ASSUME NEW h \in Handlers, SecondFactor(h) PROVE PasswordChangeEndsLinks'
  BY <1>2, QuietLinks DEF SecondFactor
<1>3. ASSUME NEW h \in Handlers, NEW t \in Tokens, IssueToken(h, t) PROVE PasswordChangeEndsLinks'
  BY <1>3, QuietLinks DEF IssueToken
<1>4. ASSUME NEW h \in Handlers, NEW t \in Tokens, PresentCached(h, t) PROVE PasswordChangeEndsLinks'
  BY <1>4, QuietLinks DEF PresentCached, Idle
<1>5. ASSUME NEW h \in Handlers, NEW t \in Tokens, FetchStatus(h, t) PROVE PasswordChangeEndsLinks'
  BY <1>5, QuietLinks DEF FetchStatus, Idle
<1>6. ASSUME NEW h \in Handlers, NEW t \in Tokens, BeginLogout(h, t) PROVE PasswordChangeEndsLinks'
  BY <1>6, QuietLinks DEF BeginLogout, Idle
<1>7. ASSUME NEW h \in Handlers, StoreStatus(h) PROVE PasswordChangeEndsLinks'
  BY <1>7, QuietLinks DEF StoreStatus
<1>8. ASSUME NEW h \in Handlers, Logout(h) PROVE PasswordChangeEndsLinks'
  BY <1>8, QuietLinks DEF Logout
<1>9. ASSUME NEW h \in Handlers, BeginChange(h) PROVE PasswordChangeEndsLinks'
  BY <1>9, QuietLinks DEF BeginChange
<1>10. ASSUME NEW h \in Handlers, UpdatePassword(h) PROVE PasswordChangeEndsLinks'
  BY <1>10 DEF UpdatePassword, TypeOK, Turn, PasswordChangeEndsLinks
<1>11. ASSUME NEW h \in Handlers, NEW l \in Links, ValidateLink(h, l) PROVE PasswordChangeEndsLinks'
  BY <1>11, QuietLinks DEF ValidateLink, Idle
<1>12. ASSUME NEW h \in Handlers, CommitReset(h) PROVE PasswordChangeEndsLinks'
  <2>1. dated' = {}
    BY <1>12, RequestFields DEF CommitReset, EndLinks, TypeOK
  <2> QED
    BY <2>1 DEF PasswordChangeEndsLinks
<1>13. ASSUME NEW h \in Handlers, InvalidateTokens(h) PROVE PasswordChangeEndsLinks'
  <2>1. request[h] = Revoking("close") => request[h].next = "close"
    OBVIOUS
  <2> QED
    BY <1>13, <2>1, QuietLinks DEF InvalidateTokens
<1>14. ASSUME NEW h \in Handlers, InvalidateFails(h) PROVE PasswordChangeEndsLinks'
  <2>1. request[h] = Revoking("close") => request[h].next = "close"
    OBVIOUS
  <2> QED
    BY <1>14, <2>1, QuietLinks DEF InvalidateFails
<1>15. ASSUME NEW h \in Handlers, EvictCache(h) PROVE PasswordChangeEndsLinks'
  <2>1. PICK r : Turn(h, r) /\ (request[h].next = "close" => r = Closing)
    BY <1>15 DEF EvictCache
  <2>2. ChangeUnderWay(h) => request[h].next = "close"
    BY <1>15 DEF EvictCache
  <2> QED
    BY <1>15, <2>1, <2>2, QuietLinks DEF EvictCache
<1>16. ASSUME NEW h \in Handlers, CloseLinks(h) PROVE PasswordChangeEndsLinks'
  BY <1>16 DEF CloseLinks, PasswordChangeEndsLinks
<1>17. ASSUME NEW h \in Handlers, Block(h) PROVE PasswordChangeEndsLinks'
  BY <1>17, QuietLinks DEF Block, Idle
<1>18. ASSUME NEW h \in Handlers, Unblock(h) PROVE PasswordChangeEndsLinks'
  BY <1>18, QuietLinks DEF Unblock, Idle
<1>19. ASSUME NEW h \in Handlers, DeleteUser(h) PROVE PasswordChangeEndsLinks'
  BY <1>19, QuietLinks DEF DeleteUser, Idle
<1>20. ASSUME NEW h \in Handlers, BeginDelete(h) PROVE PasswordChangeEndsLinks'
  <2>1. PICK r : Turn(h, r)
    BY <1>20 DEF BeginDelete, IsUserBlockedAnywhere
  <2>2. ~ChangeUnderWay(h)
    BY <1>20 DEF BeginDelete, IsUserBlockedAnywhere
  <2> QED
    BY <1>20, <2>1, <2>2, QuietLinks DEF BeginDelete, IsUserBlockedAnywhere
<1>21. ASSUME NEW h \in Handlers, Remove(h) PROVE PasswordChangeEndsLinks'
  BY <1>21, QuietLinks DEF Remove, SoftDelete, Delete
<1>22. ASSUME NEW h \in Handlers, Finish(h) PROVE PasswordChangeEndsLinks'
  BY <1>22, QuietLinks DEF Finish
<1>23. ASSUME NEW l \in Links, RequestLink(l) PROVE PasswordChangeEndsLinks'
  BY <1>23 DEF RequestLink, PasswordChangeEndsLinks
<1>24. ASSUME NEW l \in Links, ExpireLink(l) PROVE PasswordChangeEndsLinks'
  BY <1>24 DEF ExpireLink, PasswordChangeEndsLinks
<1>25. CASE Expire
  BY <1>25 DEF Expire, PasswordChangeEndsLinks
<1>26. CASE Tick
  BY <1>26 DEF Tick, PasswordChangeEndsLinks
<1>27. CASE Crash
  BY <1>27 DEF Crash, PasswordChangeEndsLinks
<1>28. CASE UNCHANGED vars
  BY <1>28 DEF vars, PasswordChangeEndsLinks
<1> QED
  BY <1>1, <1>2, <1>3, <1>4, <1>5, <1>6, <1>7, <1>8, <1>9, <1>10, <1>11, <1>12, <1>13,
     <1>14, <1>15, <1>16, <1>17, <1>18, <1>19, <1>20, <1>21, <1>22, <1>23, <1>24, <1>25,
     <1>26, <1>27, <1>28 DEF Next

\* The links sent before a change of the password end with it, but for its failures.
THEOREM LinksEnd == Spec => []PasswordChangeEndsLinks
<1>1. Init => PasswordChangeEndsLinks
  BY DEF Init, PasswordChangeEndsLinks
<1> QED
  BY <1>1, StepLinks, TypeCorrect, PTL DEF Spec

(***************************************************************************)
(* Blocks and deletions.                                                   *)
(***************************************************************************)

\* A step after which the handler is not about to delete its own row, and nothing is blocked.
LEMMA QuietBlocks ==
    ASSUME TypeOK, BlockOutlivesAccount, NEW h \in Handlers, NEW q, Turn(h, q),
           q.op = "removing" => ~q.own \/ q.soft \/ ~blocked',
           blocked' => blocked, crossed \ {h} \subseteq crossed'
    PROVE  BlockOutlivesAccount'
BY DEF TypeOK, Turn, BlockOutlivesAccount, Deciding

\* Every step preserves BlockOutlivesAccount.
LEMMA StepBlocks == TypeOK /\ BlockOutlivesAccount /\ [Next]_vars => BlockOutlivesAccount'
<1> SUFFICES ASSUME TypeOK, BlockOutlivesAccount, [Next]_vars PROVE BlockOutlivesAccount'
  OBVIOUS
<1> USE DEF account, issued
<1>1. ASSUME NEW h \in Handlers, Login(h) PROVE BlockOutlivesAccount'
  BY <1>1, QuietBlocks DEF Login, SigningIn
<1>2. ASSUME NEW h \in Handlers, SecondFactor(h) PROVE BlockOutlivesAccount'
  BY <1>2, QuietBlocks DEF SecondFactor, SigningIn
<1>3. ASSUME NEW h \in Handlers, NEW t \in Tokens, IssueToken(h, t) PROVE BlockOutlivesAccount'
  BY <1>3, QuietBlocks DEF IssueToken, Idle
<1>4. ASSUME NEW h \in Handlers, NEW t \in Tokens, PresentCached(h, t) PROVE BlockOutlivesAccount'
  BY <1>4, QuietBlocks DEF PresentCached, Admitted
<1>5. ASSUME NEW h \in Handlers, NEW t \in Tokens, FetchStatus(h, t) PROVE BlockOutlivesAccount'
  BY <1>5, QuietBlocks DEF FetchStatus, Fetched
<1>6. ASSUME NEW h \in Handlers, NEW t \in Tokens, BeginLogout(h, t) PROVE BlockOutlivesAccount'
  BY <1>6, QuietBlocks DEF BeginLogout, LoggingOut
<1>7. ASSUME NEW h \in Handlers, StoreStatus(h) PROVE BlockOutlivesAccount'
  <2>1. PICK r \in {Idle, Admitted(request[h].token)} : Turn(h, r)
    BY <1>7 DEF StoreStatus
  <2>2. r.op # "removing"
    BY <2>1 DEF Idle, Admitted
  <2> QED
    BY <1>7, <2>1, <2>2, QuietBlocks DEF StoreStatus
<1>8. ASSUME NEW h \in Handlers, Logout(h) PROVE BlockOutlivesAccount'
  BY <1>8, QuietBlocks DEF Logout, Idle
<1>9. ASSUME NEW h \in Handlers, BeginChange(h) PROVE BlockOutlivesAccount'
  BY <1>9, QuietBlocks DEF BeginChange, Changing
<1>10. ASSUME NEW h \in Handlers, UpdatePassword(h) PROVE BlockOutlivesAccount'
  BY <1>10, QuietBlocks DEF UpdatePassword, Revoking
<1>11. ASSUME NEW h \in Handlers, NEW l \in Links, ValidateLink(h, l) PROVE BlockOutlivesAccount'
  BY <1>11, QuietBlocks DEF ValidateLink, Resetting
<1>12. ASSUME NEW h \in Handlers, CommitReset(h) PROVE BlockOutlivesAccount'
  BY <1>12, QuietBlocks DEF CommitReset, Evicting
<1>13. ASSUME NEW h \in Handlers, InvalidateTokens(h) PROVE BlockOutlivesAccount'
  BY <1>13, QuietBlocks DEF InvalidateTokens, Evicting
<1>14. ASSUME NEW h \in Handlers, InvalidateFails(h) PROVE BlockOutlivesAccount'
  BY <1>14, QuietBlocks DEF InvalidateFails, Evicting
<1>15. ASSUME NEW h \in Handlers, EvictCache(h) PROVE BlockOutlivesAccount'
  <2>1. PICK r \in {Idle, Closing, Removing(FALSE, FALSE)} : Turn(h, r)
    BY <1>15 DEF EvictCache
  <2>2. r.op = "removing" => ~r.own
    BY <2>1 DEF Idle, Closing, Removing
  <2> QED
    BY <1>15, <2>1, <2>2, QuietBlocks DEF EvictCache
<1>16. ASSUME NEW h \in Handlers, CloseLinks(h) PROVE BlockOutlivesAccount'
  BY <1>16, QuietBlocks DEF CloseLinks, Idle
<1>17. ASSUME NEW h \in Handlers, Block(h) PROVE BlockOutlivesAccount'
  <2>1. Deciding' \subseteq Deciding
    BY <1>17 DEF Block, Deciding, Turn, TypeOK, Revoking
  <2> QED
    BY <1>17, <2>1 DEF Block, BlockOutlivesAccount
<1>18. ASSUME NEW h \in Handlers, Unblock(h) PROVE BlockOutlivesAccount'
  BY <1>18, QuietBlocks DEF Unblock, Revoking
<1>19. ASSUME NEW h \in Handlers, DeleteUser(h) PROVE BlockOutlivesAccount'
  BY <1>19, QuietBlocks DEF DeleteUser, Revoking
<1>20. ASSUME NEW h \in Handlers, BeginDelete(h) PROVE BlockOutlivesAccount'
  BY <1>20, QuietBlocks DEF BeginDelete, IsUserBlockedAnywhere, Removing
<1>21. ASSUME NEW h \in Handlers, Remove(h) PROVE BlockOutlivesAccount'
  BY <1>21, QuietBlocks DEF Remove, SoftDelete, Delete, Idle
<1>22. ASSUME NEW h \in Handlers, Finish(h) PROVE BlockOutlivesAccount'
  BY <1>22, QuietBlocks DEF Finish, Idle
<1>23. ASSUME NEW l \in Links, RequestLink(l) PROVE BlockOutlivesAccount'
  BY <1>23 DEF RequestLink, BlockOutlivesAccount, Deciding
<1>24. ASSUME NEW l \in Links, ExpireLink(l) PROVE BlockOutlivesAccount'
  BY <1>24 DEF ExpireLink, BlockOutlivesAccount, Deciding
<1>25. CASE Expire
  BY <1>25 DEF Expire, BlockOutlivesAccount, Deciding
<1>26. CASE Tick
  BY <1>26 DEF Tick, BlockOutlivesAccount, Deciding
<1>27. CASE Crash
  BY <1>27 DEF Crash, BlockOutlivesAccount, Deciding, Idle
<1>28. CASE UNCHANGED vars
  BY <1>28 DEF vars, BlockOutlivesAccount, Deciding
<1> QED
  BY <1>1, <1>2, <1>3, <1>4, <1>5, <1>6, <1>7, <1>8, <1>9, <1>10, <1>11, <1>12, <1>13,
     <1>14, <1>15, <1>16, <1>17, <1>18, <1>19, <1>20, <1>21, <1>22, <1>23, <1>24, <1>25,
     <1>26, <1>27, <1>28 DEF Next

\* A blocked user's row is deleted by its owner only if the block came after the check.
THEOREM BlocksOutlive == Spec => []BlockOutlivesAccount
<1>1. Init => BlockOutlivesAccount
  BY DEF Init, BlockOutlivesAccount, Deciding, Idle
<1> QED
  BY <1>1, StepBlocks, TypeCorrect, PTL DEF Spec
=============================================================================
