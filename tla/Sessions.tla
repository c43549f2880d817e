------------------------------ MODULE Sessions ------------------------------
(***************************************************************************)
(* The sessions of one account: tokens that nothing stores, the timestamp  *)
(* that revokes them, the cache through which the middleware reads it, and *)
(* the operations that revoke: a change or reset of the password, a block, *)
(* a deletion.  No operation touches two accounts.                         *)
(*                                                                         *)
(* Times of issue and of revocation are whole seconds (clock).  A handler  *)
(* acts in steps of one statement each; statements that only read join the *)
(* step that follows from them.  What a password and a second factor are   *)
(* checked against is left to SignIn: here a check passed or the request   *)
(* changes nothing.                                                        *)
(***************************************************************************)
EXTENDS Naturals, FiniteSets

CONSTANTS
    Tokens,     \* bound: tokens ever issued
    Links,      \* bound: password reset links ever sent
    Handlers,   \* bound: requests in flight at a time
    MaxLinks,   \* links of an account that may be active together
    MaxChanges, \* bound: changes of the password
    MaxClock,   \* bound: seconds
    NoEntry

ASSUME HandlersAssumption == IsFiniteSet(Handlers)
ASSUME BoundAssumption == MaxLinks \in Nat /\ MaxChanges \in Nat /\ MaxClock \in Nat

VARIABLES
    row,          \* the row of users: "live", "scrubbed" by SoftDelete, "gone"
    blocked,      \* is_blocked
    password,     \* password_hash, as the number of changes made to it
    invalidated,  \* token_invalidated_at, 0 for NULL
    link,         \* password_reset_tokens: "none", "active", "expired", "used", "deleted"
    clock,
    iat,          \* IssuedAt of each token, 0 before it is issued
    kind,         \* its type: "pending" (pending_mfa, mfa_setup) or "full"
    cache,        \* the account's entry in UserStatusCache
    request,      \* what each handler is doing
    \* History, read by the properties only.
    by,           \* the password that opened a token's session
    overtaken,    \* tokens issued, or left valid by a failure, after their password changed
    window,       \* the entry was filled late, or no eviction follows what it misses
    crossed,      \* handlers that decided how to delete before a block
    dated         \* active links that a change of the password has yet to end

account == <<row, blocked, password, invalidated, link>>
issued  == <<iat, kind, by>>
vars    == <<account, clock, issued, cache, request, overtaken, window, crossed, dated>>

\* models.UserStatus, as GetUserStatus reads it.
Statuses == [blocked : BOOLEAN, deleted : BOOLEAN, invalidated : Nat]
Status == [blocked |-> blocked, deleted |-> row = "scrubbed", invalidated |-> invalidated]

Idle == [op |-> "idle"]
SigningIn(p, k) == [op |-> "signing_in", password |-> p, kind |-> k]
Fetched(t, s)   == [op |-> "fetched", token |-> t, status |-> s]
Admitted(t)     == [op |-> "admitted", token |-> t]
Changing        == [op |-> "changing"]
Resetting(l)    == [op |-> "resetting", link |-> l]
LoggingOut(t)   == [op |-> "logout", token |-> t]
Closing         == [op |-> "closing"]
Revoking(n)     == [op |-> "revoking", next |-> n]
Evicting(n)     == [op |-> "evicting", next |-> n]
Removing(s, o)  == [op |-> "removing", soft |-> s, own |-> o]

Afterwards == {"close", "remove", "done"}
Requests ==
    [op : {"idle", "changing", "closing"}]
    \cup [op : {"signing_in"}, password : Nat, kind : {"pending", "full"}]
    \cup [op : {"fetched"}, token : Tokens, status : Statuses]
    \cup [op : {"admitted", "logout"}, token : Tokens]
    \cup [op : {"resetting"}, link : Links]
    \cup [op : {"revoking", "evicting"}, next : Afterwards]
    \cup [op : {"removing"}, soft : BOOLEAN, own : BOOLEAN]

Turn(h, r) == request' = [request EXCEPT ![h] = r]

Live == row = "live"
Exists == row # "gone"

\* checkUserRevoked: a token of the second of the revocation is refused too.
Refused(t, s) == s.blocked \/ s.deleted \/ iat[t] <= s.invalidated

\* What the middleware answers a request that comes now with t.
Accepted(t) ==
    /\ iat[t] # 0
    /\ IF cache = NoEntry THEN Exists /\ ~Refused(t, Status) ELSE ~Refused(t, cache)

\* Tokens the row lets pass although the password of their session is gone.
Outdated(p) == {t \in Tokens : iat[t] > invalidated /\ by[t] # p}

ActiveLinks == {l \in Links : link[l] = "active"}
\* InvalidateForUser, InvalidateForUserTx
EndLinks == [l \in Links |-> IF link[l] = "active" THEN "used" ELSE link[l]]

Pending(h) == request[h].op \in {"revoking", "evicting"}
\* A ChangePassword that has changed the password and not yet ended the links.
ChangeUnderWay(h) == request[h] \in {Revoking("close"), Evicting("close"), Closing}
Deciding == {h \in Handlers : request[h].op = "removing"}
-----------------------------------------------------------------------------
Init ==
    /\ row = "live"
    /\ blocked = FALSE
    /\ password = 0
    /\ invalidated = 0
    /\ link = [l \in Links |-> "none"]
    /\ clock = 1
    /\ iat = [t \in Tokens |-> 0]
    /\ kind = [t \in Tokens |-> "pending"]
    /\ by = [t \in Tokens |-> 0]
    /\ cache = NoEntry
    /\ request = [h \in Handlers |-> Idle]
    /\ overtaken = {}
    /\ window = FALSE
    /\ crossed = {}
    /\ dated = {}
-----------------------------------------------------------------------------
(* Signing in.                                                             *)

\* The row read is the one that is judged, whatever happens to it afterwards.
Login(h) ==
    /\ request[h] = Idle
    /\ Live
    /\ ~blocked
    /\ Turn(h, SigningIn(password, "pending"))
    /\ UNCHANGED <<account, clock, issued, cache, overtaken, window, crossed, dated>>

\* Verify and CompleteSetup: the second factor turns a pending token into a full one.
SecondFactor(h) ==
    /\ request[h].op = "admitted"
    /\ kind[request[h].token] = "pending"
    /\ Live
    /\ Turn(h, SigningIn(by[request[h].token], "full"))
    /\ UNCHANGED <<account, clock, issued, cache, overtaken, window, crossed, dated>>

\* GenerateTokenWithType stamps the token with the time it is made.
IssueToken(h, t) ==
    /\ request[h].op = "signing_in"
    /\ iat[t] = 0
    /\ iat' = [iat EXCEPT ![t] = clock]
    /\ kind' = [kind EXCEPT ![t] = request[h].kind]
    /\ by' = [by EXCEPT ![t] = request[h].password]
    /\ overtaken' = IF request[h].password = password THEN overtaken ELSE overtaken \cup {t}
    /\ Turn(h, Idle)
    /\ UNCHANGED <<account, clock, cache, window, crossed, dated>>
-----------------------------------------------------------------------------
(* The middleware.                                                         *)

PresentCached(h, t) ==
    /\ request[h] = Idle
    /\ cache # NoEntry
    /\ Accepted(t)
    /\ Turn(h, Admitted(t))
    /\ UNCHANGED <<account, clock, issued, cache, overtaken, window, crossed, dated>>

\* A row that is gone is an error, and the check fails closed.
FetchStatus(h, t) ==
    /\ request[h] = Idle
    /\ iat[t] # 0
    /\ cache = NoEntry
    /\ Exists
    /\ Turn(h, Fetched(t, Status))
    /\ UNCHANGED <<account, clock, issued, cache, overtaken, window, crossed, dated>>

\* The entry is stored whatever was revoked, or evicted, since it was read.
StoreStatus(h) ==
    /\ request[h].op = "fetched"
    /\ LET t == request[h].token
           s == request[h].status
       IN  /\ cache' = s
           /\ window' = (s # Status \/ ~Exists)
           /\ Turn(h, IF Refused(t, s) THEN Idle ELSE Admitted(t))
    /\ UNCHANGED <<account, clock, issued, overtaken, crossed, dated>>

\* The time to live of the entry passes: the next request reads the row.
Expire ==
    /\ cache # NoEntry
    /\ cache' = NoEntry
    /\ window' = FALSE
    /\ UNCHANGED <<account, clock, issued, request, overtaken, crossed, dated>>

\* Logout is routed without authentication: it finds no claims and revokes nothing.
BeginLogout(h, t) ==
    /\ request[h] = Idle
    /\ iat[t] # 0
    /\ Turn(h, LoggingOut(t))
    /\ UNCHANGED <<account, clock, issued, cache, overtaken, window, crossed, dated>>

Logout(h) ==
    /\ request[h].op = "logout"
    /\ Turn(h, Idle)
    /\ UNCHANGED <<account, clock, issued, cache, overtaken, window, crossed, dated>>
-----------------------------------------------------------------------------
(* Changing and resetting the password.                                    *)

BeginChange(h) ==
    /\ request[h].op = "admitted"
    /\ kind[request[h].token] = "full"
    /\ Live
    /\ Turn(h, Changing)
    /\ UNCHANGED <<account, clock, issued, cache, overtaken, window, crossed, dated>>

\* Mutant of UpdatePassword: the sessions of the old password are not revoked.
UpdateUnrevoked(h) ==
    /\ request[h] = Changing
    /\ Exists
    /\ password < MaxChanges
    /\ password' = password + 1
    /\ dated' = ActiveLinks
    /\ Turn(h, Evicting("close"))
    /\ UNCHANGED <<row, blocked, invalidated, link, clock, issued, cache, overtaken, window, crossed>>

UpdatePassword(h) ==
    /\ request[h] = Changing
    /\ Exists
    /\ password < MaxChanges
    /\ password' = password + 1
    /\ dated' = ActiveLinks
    /\ Turn(h, Revoking("close"))
    /\ UNCHANGED <<row, blocked, invalidated, link, clock, issued, cache, overtaken, window, crossed>>

\* ForgotPassword: the locking count and the insert are one transaction.
RequestLink(l) ==
    /\ Live
    /\ link[l] = "none"
    /\ Cardinality(ActiveLinks) < MaxLinks
    /\ link' = [link EXCEPT ![l] = "active"]
    /\ UNCHANGED <<row, blocked, password, invalidated, clock, issued, cache, request, overtaken,
          window, crossed, dated>>

ExpireLink(l) ==
    /\ link[l] = "active"
    /\ link' = [link EXCEPT ![l] = "expired"]
    /\ dated' = dated \ {l}
    /\ UNCHANGED <<row, blocked, password, invalidated, clock, issued, cache, request, overtaken,
          window, crossed>>

\* GetByTokenHash refuses a link that is used, expired or gone with its user.
Redeemable(l) == link[l] = "active"

\* Before the new password is hashed and the transaction begins.
ValidateLink(h, l) ==
    /\ request[h] = Idle
    /\ Redeemable(l)
    /\ Turn(h, Resetting(l))
    /\ UNCHANGED <<account, clock, issued, cache, overtaken, window, crossed, dated>>

\* Mutant of CommitReset: only the link presented is ended.
CommitOneLink(h) ==
    /\ request[h].op = "resetting"
    /\ Exists
    /\ password < MaxChanges
    /\ password' = password + 1
    /\ invalidated' = clock
    /\ link' = [link EXCEPT ![request[h].link] = "used"]
    /\ dated' = {l \in Links : link'[l] = "active"}
    /\ Turn(h, Evicting("done"))
    /\ UNCHANGED <<row, blocked, clock, issued, cache, overtaken, window, crossed>>

\* MarkUsedTx does not ask whether the link is still unused.
CommitReset(h) ==
    /\ request[h].op = "resetting"
    /\ Exists
    /\ password < MaxChanges
    /\ password' = password + 1
    /\ invalidated' = clock
    /\ link' = [EndLinks EXCEPT ![request[h].link] = "used"]
    /\ dated' = {l \in Links : link'[l] = "active"}
    /\ Turn(h, Evicting("done"))
    /\ UNCHANGED <<row, blocked, clock, issued, cache, overtaken, window, crossed>>
-----------------------------------------------------------------------------
(* Revoking: the timestamp, whose failure is only logged, then the entry.  *)

\* Mutant of InvalidateTokens: the request ends without evicting the entry.
InvalidateUnevicted(h) ==
    /\ request[h].op = "revoking"
    /\ invalidated' = IF Exists THEN clock ELSE invalidated
    /\ Turn(h, Idle)
    /\ UNCHANGED <<row, blocked, password, link, clock, issued, cache, overtaken, window,
          crossed, dated>>

InvalidateTokens(h) ==
    /\ request[h].op = "revoking"
    /\ invalidated' = IF Exists THEN clock ELSE invalidated
    /\ Turn(h, Evicting(request[h].next))
    /\ UNCHANGED <<row, blocked, password, link, clock, issued, cache, overtaken, window,
          crossed, dated>>

InvalidateFails(h) ==
    /\ request[h].op = "revoking"
    /\ overtaken' = overtaken \cup Outdated(password)
    /\ Turn(h, Evicting(request[h].next))
    /\ UNCHANGED <<account, clock, issued, cache, window, crossed, dated>>

EvictCache(h) ==
    /\ request[h].op = "evicting"
    /\ cache' = NoEntry
    /\ window' = FALSE
    /\ Turn(h, CASE request[h].next = "close"  -> Closing
                 [] request[h].next = "remove" -> Removing(FALSE, FALSE)
                 [] OTHER                      -> Idle)
    /\ UNCHANGED <<account, clock, issued, overtaken, crossed, dated>>

\* The last statement of ChangePassword, whose error is dropped.
CloseLinks(h) ==
    /\ request[h].op = "closing"
    /\ \/ link' = EndLinks
       \/ UNCHANGED link
    /\ dated' = {}
    /\ Turn(h, Idle)
    /\ UNCHANGED <<row, blocked, password, invalidated, clock, issued, cache, overtaken, window,
          crossed>>
-----------------------------------------------------------------------------
(* Blocks and deletions.                                                   *)

\* BlockUser, up to its InvalidateTokens: the user was found.
Block(h) ==
    /\ request[h] = Idle
    /\ Exists
    /\ blocked' = TRUE
    /\ crossed' = crossed \cup Deciding
    /\ Turn(h, Revoking("done"))
    /\ UNCHANGED <<row, password, invalidated, link, clock, issued, cache, overtaken, window, dated>>

Unblock(h) ==
    /\ request[h] = Idle
    /\ Exists
    /\ blocked' = FALSE
    /\ Turn(h, Revoking("done"))
    /\ UNCHANGED <<row, password, invalidated, link, clock, issued, cache, overtaken, window,
          crossed, dated>>

\* DeleteUser revokes first and deletes last.
DeleteUser(h) ==
    /\ request[h] = Idle
    /\ Exists
    /\ Turn(h, Revoking("remove"))
    /\ UNCHANGED <<account, clock, issued, cache, overtaken, window, crossed, dated>>

\* A block of the account; nothing fills the other tables of blocks.
IsUserBlockedAnywhere == blocked

\* Mutant of BeginDelete: the row is deleted without asking for blocks.
BeginHardDelete(h) ==
    /\ request[h].op = "admitted"
    /\ kind[request[h].token] = "full"
    /\ Live
    /\ Turn(h, Removing(FALSE, TRUE))
    /\ UNCHANGED <<account, clock, issued, cache, overtaken, window, crossed, dated>>

\* DeleteAccount, up to the choice of the deletion.
BeginDelete(h) ==
    /\ request[h].op = "admitted"
    /\ kind[request[h].token] = "full"
    /\ Live
    /\ Turn(h, Removing(IsUserBlockedAnywhere, TRUE))
    /\ UNCHANGED <<account, clock, issued, cache, overtaken, window, crossed, dated>>

\* The row stays, without the name, the address and the password.
SoftDelete == row' = "scrubbed" /\ UNCHANGED <<link, dated>>

\* The row goes and takes the links with it.
Delete == row' = "gone" /\ link' = [l \in Links |-> "deleted"] /\ dated' = {}

\* Neither deletion evicts the entry.
Remove(h) ==
    /\ request[h].op = "removing"
    /\ Exists
    /\ IF request[h].soft THEN SoftDelete ELSE Delete
    /\ window' = (window \/ cache # NoEntry)
    /\ crossed' = crossed \ {h}
    /\ Turn(h, Idle)
    /\ UNCHANGED <<blocked, password, invalidated, clock, issued, cache, overtaken>>
-----------------------------------------------------------------------------
(* Time and failures.                                                      *)

Tick ==
    /\ clock < MaxClock
    /\ clock' = clock + 1
    /\ UNCHANGED <<account, issued, cache, request, overtaken, window, crossed, dated>>

\* A request ends: with another endpoint's answer, or with the error of its next statement.
Finish(h) ==
    /\ request[h].op \notin {"idle", "revoking", "evicting", "closing", "logout"}
    /\ crossed' = crossed \ {h}
    /\ Turn(h, Idle)
    /\ UNCHANGED <<account, clock, issued, cache, overtaken, window, dated>>

\* The server stops and starts again: requests and entries were in its memory.
Crash ==
    /\ request' = [h \in Handlers |-> Idle]
    /\ cache' = NoEntry
    /\ window' = FALSE
    /\ crossed' = {}
    /\ overtaken' = overtaken \cup Outdated(password)
    /\ dated' = {}
    /\ UNCHANGED <<account, clock, issued>>

Next ==
    \/ \E h \in Handlers :
        \/ Login(h) \/ SecondFactor(h)
        \/ \E t \in Tokens :
            IssueToken(h, t) \/ PresentCached(h, t) \/ FetchStatus(h, t) \/ BeginLogout(h, t)
        \/ StoreStatus(h) \/ Logout(h)
        \/ BeginChange(h) \/ UpdatePassword(h)
        \/ \E l \in Links : ValidateLink(h, l)
        \/ CommitReset(h)
        \/ InvalidateTokens(h) \/ InvalidateFails(h) \/ EvictCache(h) \/ CloseLinks(h)
        \/ Block(h) \/ Unblock(h) \/ DeleteUser(h)
        \/ BeginDelete(h) \/ Remove(h)
        \/ Finish(h)
    \/ \E l \in Links : RequestLink(l) \/ ExpireLink(l)
    \/ Expire \/ Tick \/ Crash

Spec == Init /\ [][Next]_vars
-----------------------------------------------------------------------------
\* Type invariant of the account, its tokens and the requests in flight; no timestamp is ahead
\* of the clock.
TypeOK ==
    /\ row \in {"live", "scrubbed", "gone"}
    /\ blocked \in BOOLEAN
    /\ password \in Nat
    /\ clock \in Nat \ {0}
    /\ invalidated \in 0 .. clock
    /\ link \in [Links -> {"none", "active", "expired", "used", "deleted"}]
    /\ iat \in [Tokens -> 0 .. clock]
    /\ kind \in [Tokens -> {"pending", "full"}]
    /\ by \in [Tokens -> Nat]
    /\ cache \in Statuses \cup {NoEntry}
    /\ request \in [Handlers -> Requests]
    /\ overtaken \subseteq Tokens
    /\ window \in BOOLEAN
    /\ crossed \subseteq Handlers
    /\ dated \subseteq Links

\* The cached status differs from the row only while an operation that revokes has its
\* eviction before it, after an entry was filled late, or after a deletion (which evicts nothing).
StaleEntryIsExplained ==
    cache # NoEntry /\ (cache # Status \/ ~Exists) => window \/ \E h \in Handlers : Pending(h)

\* A session opened with a former password outlives it only while the change is about to
\* revoke, if the revocation failed, or if the password had been checked before the change.
FormerPasswordEndsSessions ==
    Exists =>
        Outdated(password) \subseteq overtaken \/ \E h \in Handlers : request[h] = Revoking("close")

\* A change of the password ends the links sent before it: one outlives it only while the
\* change is under way, or if the statement that ends them failed.
PasswordChangeEndsLinks == dated # {} => \E h \in Handlers : ChangeUnderWay(h)

\* An account deletes the row of a blocked user only if the block came after its check.
BlockOutlivesAccount ==
    \A h \in Deciding : blocked /\ request[h].own /\ ~request[h].soft => h \in crossed
=============================================================================
