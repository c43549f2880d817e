# A TLA+ model of communityrapidresponse.net

The repository is a Go server (`internal/`) with a MariaDB database and a
browser client (`static/js`). Neighbours register, prove where they live with a
code on a postcard, form groups, connect groups with each other, and share
invite links of chats that are encrypted end to end. This directory holds TLA+
modules that model the server's state machines, TLC configurations that check
them on small instances, and proofs of the properties that matter most.

Contents: [inventory](#inventory), [modules](#modules-and-the-code-they-model),
[runs](#runs), [fairness](#fairness), [proofs](#proofs),
[finding](#finding), [observations](#observations),
[what is not modelled](#what-is-not-modelled).

## Inventory

Everything the server keeps between requests is in the database, apart from two
in-process caches (user status, in-memory rate limits). Handlers run
concurrently, one goroutine per request; two workers (notifications, expiry of
proposals) run beside them. Transactions are `BeginTx(ctx, nil)`
(`internal/database/database.go`), that is MariaDB's default REPEATABLE READ:
plain SELECTs read the snapshot of the transaction's first read, locking reads
and writes see and lock current rows, and an error returned from the function
rolls everything back. Most handlers check on one statement and write with
another, so nearly every hard behaviour is a race between a check and a write.
Paths below leave out `internal/`.

| Component | State | Operations | What is hard | What makes it correct | Modelled by |
|---|---|---|---|---|---|
| **Secret keys** (`database/encrypted_secrets.go`, `encryption_keys.go`, `handlers/encryption.go`, `static/js/crypto`) | secrets, one wrapped key per recipient with two flags, key pairs, the private key in each browser | create, upload and rotate a key pair, fetch and submit re-keys, fetch and submit group rotations, revoke | browsers compute from what they fetched and submit later; RotateKeys is two transactions; checks on a snapshot, then delete and insert; a deleted account's rows cascade away | rows are the surviving recipients'; whoever left the group is rotated away from; nobody is locked out by others; a request for re-keying is answered | `SecretKeys` |
| **Group membership** (`database/groups.go`, `handlers/groups.go`, `handlers/schools.go`) | groups, members with flags, invite links, invitations, bans, vouches | create, join, invite, accept, decline, leave, ban, unban, vouch, graduate; delete an account | admissions, bans, departures and graduation overlap; some rows are locked, others are not | no ticket is used twice; bans hold; the last admission triggers graduation; only a ban or the end of the account takes a group's admin | `GroupMembership`, `GroupRules` |
| **Connections** (`database/connections.go`, `database/groups.go`, `handlers/connections.go`, `handlers/group_blocks.go`) | connections, members, proposals with one answer per group, blocks | propose, invite, accept, decline, form, expand, leave, sweep, block, unblock, delete a group | answers are counted on a snapshot, the sweep is a chain of transactions after the response | entry by consent; blocks sever; a connection has two members or is deleted | `Connections` |
| **Chats of connections** (`database/connections.go`) | chat proposals, votes, wrapped keys, the chats made | propose, vote, create; leave, delete a group; rotate the keys | the same snapshot count; keys wrapped when proposed are stored when approved; a rotation writes back the recipients it read; the limit is compared when proposed | a chat exists once every group asked approved it; its keys are the members', and the ways to keep one are known; at most five | `ConnectionChats` |
| **Postcard verification** (`handlers/verification.go`, `database/verification.go`) | verification requests with a code, attempts, age; the user's flags and memberships | reserve, send, delete on failure, redeem, count a failed attempt | an external call between two writes; a counter in a transaction that rolls back | the quota; memberships are earned by one's own card, a grant, or by making the region | `Verification` |
| **Superuser administration** (`handlers/admin.go`) | flags of users | grant and revoke a vouch, block, delete | decides on a user row read before other requests commit | vouch and postcard together make an administrator | `Verification`, `Sessions`, `GroupMembership`, `SecretKeys` |
| **Regions** (`database/regions.go`, `handlers/regions.go`, `handlers/verification.go`) | a tree of regions, members, administrators | walk down an address and make what is missing, make by hand, rename, delete | two walks look up the same missing row; a parent is carried from one transaction to the next | one row per region; a tree by levels, but for localities made by hand; memberships of regions that exist | `Regions` |
| **Login and lockout** (`handlers/auth.go`, `database/users.go`) | attempts, lock, password hash | log in, change the password, delete the account | the slow hash lies between reading the row and counting | guesses are bounded; former passwords open nothing | `SignIn`, `Sessions` |
| **Password reset** (`database/password_reset.go`, `handlers/auth.go`) | links with expiry and use | request, validate, redeem | validated outside the transaction that redeems | no link outlives a change of the password | `Sessions` |
| **Multi-factor authentication** (`handlers/mfa.go`, `database/users.go`) | secret, backup codes, attempts | begin and complete a set-up, verify by code or backup code | the counter is read before it is raised; codes are a JSON list in one column | a backup code is spent once; the secret in force was confirmed | `SignIn` |
| **Tokens and user status cache** (`middleware/auth.go`, `user_status_cache.go`) | signed tokens, the time of invalidation, a cache of 60 s | issue, present, invalidate, evict | a late fill after an eviction; times of one second | the cache misses a revocation only in windows that end | `Sessions` |
| **Notifications** (`services/notification*.go`, `database/notification_queue.go`) | queue rows with a status | queue, take a batch, fan out, compare, send, record | a crash between sending and recording; nothing claims a row | everything is tried; nobody is mailed twice; sent means told | `Notifications` |
| **Shared resources of groups** (`database/signal_groups.go`, `meshtastic_channels.go`, `groups.go`, `handlers/groups.go`) | resources, chats and channels with an access tier, the posting on the topic board, the visibility of the group | create, update, delete, list, post, hand out a wrapped key, rotate the keys | a limit counted before the insert; a page reads rows, membership and residence one after the other | the limit, one posting; pages show what the reader may see; keys go to members, but for those a rotation put back | `GroupPages` |
| Rate limiting (`services/ratelimit.go`, `middleware/ratelimit.go`) | a counter per key and window | count, allow | - | - | - |
| Schools and districts (`database/schools.go`, `school_districts.go`) | a directory, seeded | list; the join is in Group membership | - | - | - |
| Secret update proposals (`database/secret_update_proposals.go`) | proposals and votes | expire; nothing creates one | - | - | - |
| Audit log, router and middleware, mail providers, database access, browser pages, configuration, commands | none that a decision depends on | - | - | - | - |

How they interact: handlers call repositories and share nothing but the
database. Removing a member (Group membership) revokes key rows in the same
transaction (Secret keys); creating a chat of a group or of a connection creates
a secret; a departure from a connection revokes the keys of its chats and asks
those who stay to rotate them; deleting an account cascades to its memberships,
key rows and vouches; asking for
a postcard walks the tree of regions; redeeming it sets the flags that
administering a region asks for; blocking a group (Connections) evicts it from
connections; signing in issues the tokens that a change of the password revokes;
handlers queue notifications after their transaction commits; invalidation of
tokens passes through the status cache. `PROJECT.json` lists every component with
its sources, and under `hazards` each hard behaviour at its line with the
properties that watch it.

## Modules and the code they model

| Module | What it is | Instance for TLC | Theorems |
|---|---|---|---|
| `SecretKeys` | one group secret, its recipients' key rows and their browsers | `MCSecretKeys` | `SecretKeysProofs` |
| `Accounts` | the accounts and superusers that the modules of one group speak of | - | - |
| `GroupRules` | abstract specification of admissions to a group, one step each | - | - |
| `GroupMembership` | the endpoints and transactions of one group; implements `GroupRules` | `MCGroupMembership` | `GroupMembershipProofs` |
| `Connections` | proposals, connections and blocks between groups | `MCConnections` | `ConnectionsProofs` |
| `ConnectionChats` | the chats of one connection and their keys | `MCConnectionChats` | `ConnectionChatsProofs` |
| `Verification` | postcards and vouches, and the flags and memberships they give | `MCVerification` | `VerificationProofs` |
| `Regions` | the tree of regions and who makes, renames and deletes them | `MCRegions` | `RegionsProofs` |
| `Sessions` | the tokens of one account and what revokes them | `MCSessions` | `SessionsProofs` |
| `SignIn` | password, second factor and backup codes of one account | `MCSignIn` | `SignInProofs` |
| `Notifications` | the queue of e-mails and its workers | `MCNotifications` | `SecretKeysProofs` |
| `GroupPages` | what one group shares and who is shown it | `MCGroupPages` | `GroupMembershipProofs` |

`SecretKeysProofs` and `GroupMembershipProofs` hold the proofs of two components
each and extend both modules: the queue carries what a rotation announces, the pages
are read by the users of the group. What two modules would otherwise both call
`Init`, `Next`, `Spec` or `TypeOK` is `QueueInit`, `QueueSpec`, ... in `Notifications`
and `PagesInit`, `PagesSpec`, ... in `GroupPages`. The two specifications are proved
about side by side; no theorem joins them.

### Conventions

* **A variable is a table column** (or what a browser or a request in flight has
  read). A flag column is the set of rows that have it; a nullable id is an id
  or a value of its own (`Null`, `None`, `Nobody`); a status is a string. History
  variables are declared last under the heading "History"; no guard reads them.
* **An action is a handler, or a transaction of it.** A handler that reads first
  and writes later is split where another request can come between. What it has
  read is the record `request[h]` of its slot `h`, whose field `op` names the
  statement that comes next. In `GroupMembership`, `Connections` and
  `ConnectionChats`, `Begin...` reads and decides and `Commit...` makes all the
  writes. A transaction commits its writes at once (row locks are held until
  commit), so the writes of one transaction are one action, cascading foreign
  keys included. Where the statements of a handler are transactions of their
  own (`Sessions`, `SignIn`, `GroupPages`, `Notifications`), each statement that
  writes is a step, and one that only reads joins the step that follows from it
  unless something can come between that matters.
* **Snapshots.** Reads after a transaction's first one see the same snapshot, so
  `Begin...` takes all of them together. Where the code then writes
  unconditionally, `Commit...` writes the current rows; where the write is
  conditional (`WHERE rekey_needed = TRUE`, `WHERE status = 'provisional'`, a
  unique key, a foreign key), the condition is in the guard or in the update. A
  locking read (`FOR UPDATE`) and the write it protects are one step; waiting
  for a lock is a disabled action.
* **A permission that is only read** (is the caller an admin, a member) is
  checked at the step that uses it. This leaves out no reachable database state
  where the permission could have been read just before; where losing it
  meanwhile matters (a ban between check and insert, a page of a group), it is
  split.
* **Failure.** `Abort...`, `Drop...`, `Fail`, `Finish`, `Die` and `Crash` stand for
  a failed statement, a rollback, a cancelled request, a closed browser and a stop
  of the server between two statements. They may happen at any point of any request.
* **Time** is nondeterministic: an expiry may pass at any moment (`ExpireLink`,
  `ExpireInvitation`, `ExpireProposal`, `Age`, `Forget`, `Unlock`); only `Sessions`
  has a clock, because its property is about seconds.
* **Exceptions are named.** Where the code permits an overlap that breaks the plain
  statement of a property, a history variable records that overlap (`exposed`,
  `crossed`, `missed`, `loose`, `window`...) and the property says that nothing
  else breaks it. Each such exception is described under
  [observations](#observations).
* **Mutants.** Definitions whose comment begins with "Mutant of" are not part of
  the model: each is a plausible bug in the definition that follows, kept to show
  that the property it is paired with in `PROJECT.json` would detect it.

### SecretKeys

State: `accounts` and `members`; `publicKey` and `privateKey` as version numbers
(the n-th pair of the user, 0 for none), with `newKey`, the pair a password reset has
put on the server; the secret's `payload` (which DEK encrypts it) and its `author`, the
key rows (`holders`, `wrapped`, `rekeyNeeded`, `rotationPending`); and what browsers
hold between a fetch and a submission (`draft`, `rotating`, `rekeying`,
`rotation`). A wrapped key is the pair of the DEK and of the public key it was
wrapped for: unwrapping succeeds exactly with the private key of that version.
That is all the properties need of the cryptography in
`static/js/crypto/encryption.js`.

| Actions | Code |
|---|---|
| `UploadKeys`, `BeginRotateKeys`, `CreateRotatedKey`, `FinishRotateKeys`, `FinishRotateKeysUnflagged`, `FailRotateKeys` | key set-up after login, an upsert that asks nothing, so that a second device may replace the pair; password reset, which clears the browser's keys, stores the new public key, then flags rows in a second transaction whose failure is only logged |
| `EncryptForMembers`, `CreateSecret`, `DropDraft` | creation of a chat: the browser fetches public keys and encrypts, the server stores the rows it is sent |
| `JoinGroup`, `Leave`, `BlockMember` | membership, with `RevokeGroupSecretKeysForUser` in the removing transaction |
| `DeleteAccount` | the end of an account: the foreign keys take the key pair, the membership and the key row, and flag nobody; refused to whoever wrote the payload last |
| `PerformRekeys`, `AuthorizeRekeys`, `SubmitRekey`, `SkipRekey`, `DropRekeys` | re-wrapping a DEK for a user with a new key pair: fetch, one authorisation of the batch, one transaction per entry |
| `PrepareRotation`, `CheckRotation`, `WriteRotation`, `AbortRotation` | a fresh DEK after a removal: fetch and encrypt, checks on the snapshot, the writes |

Members and key rows are distinct: a user who joins after the secret was made has
no row, as in the code. The modelled secret is one of many; every statement
applies to the rows of one secret or to all secrets alike.

### GroupMembership and GroupRules

State: `accounts`, the rows and flags of `group_members`, bans, `active` (the
group's status), links with their uses, invitations, vouches, and `requests`, the
set of requests between their read and their write. One group is modelled; groups do not
share rows. Admissions (`BeginJoin`/`CommitJoin`, `BeginAccept`/`CommitAccept`)
end by leaving a `check` in `requests`, because the handler calls
`CheckAndGraduate` after the transaction: `CheckGraduation` reads, `Graduate`
writes. `JoinSchool` does neither look at bans nor check. `DeleteAccount` is a user's or
a superuser's deletion: the cascades take the membership (an admin's too), the ban,
the vouches and the invitations, which become "gone", and a request in flight of
somebody without an account can only fail.

`GroupRules` says what a client may rely on: each admission is one step that
spends one use of a link, or answers one pending invitation, or belongs to a
school; nobody is admitted twice; graduation happens once; what an account had answered or
might answer goes with it (`Forget`). Its state is mapped
by `spent <- useCount`, `answer` and `invitee` from the invitations, and the
rest by name. A `Begin...` is a stutter, a `Commit...` the abstract step.

### Connections

State: `groups` that exist, connections (`state`, `members`), proposals (`status`,
`proposer`, `connection`, one of `answers` per group), `blocks`, and `request`,
what each handler is doing. A handler slot runs one request at a time; the sweep
after a departure (`BeginSweep`, `SweepMember`, `BeginExpel`, `CommitExpel`) goes
on in the slot of the departure, one transaction after the other, as in
`handlers/connections.go`.

`BeginAccept` counts the pending answers on the snapshot and, if the answer
completes the proposal, decides who joins: everybody for a formation; for an
expansion those not blocked with a member, in any order, since the order of the
rows decides between two candidates who block one another. `CommitFormation`,
`CommitExpansion` and `CommitAccept` write. `CommitAnswerGone` and
`CommitAcceptAgain` are the cases in which the UPDATE finds no row or changes
nothing. `Remove` is what departures, evictions and expulsions write: the row,
and the connection when the snapshot's count says that one or none remains, with
the cascade to proposals.

### ConnectionChats

The chats of one connection. State: the connection (`live`, `members`) and the
groups and admins behind it (`groups`, `accounts`, `seated`: a group has one
admin, by `AdminIsFounder`), proposals (`status`, `proposer`, `signed` for a
proposer whose account is still there, `audience` for the wrapped keys, one
`vote` per group), and the chats (`made` of which proposal, `holders` of the
secret's keys with their flag `rotation`, the secret's `author`).

| Actions | Code |
|---|---|
| `BeginPropose`, `CommitPropose`, `CommitProposeAlone` | `ProposeSignalChat`: the limit and the members are read, then the proposal, its votes and wrapped keys are written; a connection of one group gets its chat at once |
| `BeginVote`, `CommitVote`, `CommitDecline`, `CommitApproval` | `VoteOnChatProposal`: the pending votes are counted on the snapshot; the last approval makes the chat with `createConnectionSignalGroup` (`CreateChat`) |
| `BeginLeave`, `CommitLeave`, `CommitDissolve` | `LeaveConnection` with the revocation of its admin's keys and the flagging of those who stay (`RevokeKeys`), and the connection's end with its chats |
| `BeginRotation`, `CommitRotation` | `SubmitGroupRotation` of a chat's secret: the recipients of the snapshot, then their rows deleted and inserted again, whoever left in between |
| `Join`, `DeleteGroup`, `BanAdmin`, `DeleteUser` | what other components do to the groups and admins of the connection, cascades included |

`Join` stands for the whole of `Connections`: a group enters. The foreign key
`encrypted_secrets.updated_by`, which restricts, is why `DeleteUser` is refused for
whoever wrote a secret last.

### Verification

State: the flags of users (`vouch`, `postcard`), `belongs` and `admin` of
`user_regions`, `claim` (the flag that a token carries, which may be older than
the row), the rows of `verification_requests` (`status`, `owner`, `place`,
`attempts`, `aged`), and what the postcard provider has taken (`posted`).

| Actions | Code |
|---|---|
| `BeginRequest`, `InsertRequest`, `RefuseRequest`, `SendPostcard`, `DeleteUnsent` | `RequestPostcardVerification`: a count, a locking count with the insert, the order to the provider, the clean-up when it fails |
| `VerifyCode`, `FinishVerify`, `VerifyOthersCode` | redemption in one transaction, then the memberships (`Join`, `JoinPartly` when a statement fails unnoticed); a wrong try's counter, which is rolled back |
| `BeginGrant`, `SetVouch`, `UpgradePending`, `PromoteVerified`, `Invalidate`, `RevokeVouchVerification` | a superuser's grant and revocation, statement by statement |
| `CreateRegion`, `AddCreator` | `RegionHandler.Create`: the region, then its creator as a verified member and administrator; an error of the second is only logged |
| `Age`, `Login`, `Die` | 30 days pass, a token is issued, a request stops between two statements |

### Regions

State: rows of `geographic_regions` (`row`, `name`, `type`, `parent`, and
`handmade`, which of them `RegionHandler` made), `user_regions` (`member`, `admin`),
and the `cards` that refer to a region. An
address (`Sites`) has a name for each level (`Name`), or none for a locality or a
neighbourhood; a boundary may come with another name (`Boundary`).

`StartWalk`, `Lookup`, `CreateLocked`, `SkipLocal` and `AddCard` are
`RequestPostcardVerification`'s way from the state down to the innermost region:
look up, ask for the boundary, look up again with a lock and insert.
`UseExisting` is the request that names a region. `BeginCreate`, `CreateParent`,
`Validate`, `CreateRegion`, `AddCreator`, `BeginUpdate`, `Update` and `Delete` are
`RegionHandler`, each call a transaction of its own. The walk's parent is an id it
carries along; `Below` says which level comes next and `After` what a request
does once a level is settled.

### Sessions

State: the account's row (`row`, `blocked`, `password` as the number of changes,
`invalidated`), reset links, `clock` in seconds, tokens (`iat`, `kind`), the
`cache` entry of the middleware. `FetchStatus` and `StoreStatus` are the two
halves of a cache miss: the status read before an invalidation can be stored
after it. `UpdatePassword`, `InvalidateTokens` (or `InvalidateFails`),
`EvictCache` and `CloseLinks` are the statements of a change, in the order of the
code; `CommitReset` is the reset's transaction. `Block`, `DeleteUser`,
`BeginDelete` and `Remove` are the account's end by a superuser or by its owner.
`IssueToken` decides by the password that `Login` checked, however long ago.

### SignIn

State: `failed` and `locked` of the password, `missed` of the second factor, the
factor (`enabled`, `secret`, `codes`), and `tokens`, the types of tokens out that
do not open the account yet. `GuessWrong`, `CountFailure`, `LockAccount` (or
`LoseFailure`) and `GuessRight`, `ResetFailures`, `GrantToken` are `Login` statement
by statement; `InitSetup`, `ConfirmSecret`, `EnableMFA` the set-up; `GiveCode`,
`GiveWrongCode`, `GiveBackupCode`, `RedeemBackupCode`, `RefuseBackupCode`,
`CountMiss`, `FinishVerify` the verification. `RedeemBackupCode` is one
transaction that locks the row.

### Notifications

State: the rows of `email_notifications` (`status`, `user`, `topic`, the text
`content` stands for by its hash, `recent`), what each worker has left of its batch
(`work`) and the text it has built (`body`). A text about a region names it, or
names none when the name cannot be read (`Texts`). `Dequeue` takes the
oldest rows without claiming them. `FanOut`, `FanOutUser` and `FanOutEnds` turn an
event into one row per user; `SkipBlocked`, `SkipLimited`, `SkipDuplicate`,
`Prepare`, `Send` and `Record` are `processNotification`; `FanOutFails`,
`CheckFails`, `SendFails`, `SendTimesOut` and `Crash` what can happen instead.
`Forget` lets the rate limit's duration pass.

### GroupPages

State: `status`, `listed`, `rank` and `resident` of the users, and `row`, the
resources, chats and channels with their tier and the users a key is wrapped for,
and the group's posting on the topic board, whose page is for admins.
`BeginResource`, `BeginChat`, `BeginChannel` compare rights and count,
`CreateResource`, `CreateChat`, `CreateChannel` insert; `BeginChange`, `Change`,
`BeginUpdate` and `Update` are edits and deletions. `BeginPost` and
`BeginRemovePosting` compare rights, `CreateOrUpdatePosting` and `RemovePosting`
are the statements that follow, `BeginGetPosting` and `GetPosting` the page. A list is `Guard` or `Get`,
`CheckMember`, `ReadRows`, `ReadRank`, then `Show`, with what `Meets` lets the reader
see; a key is `BeginSecret`, `CompareTier`, `HandSecret`. `BeginRotation` reads the
users of a chat's key rows and `Rotate` puts rows for exactly these back, as
`SubmitGroupRotation` does (`owed` are the chats flagged for it). `AddMember`,
`EndMembership`, `EndOther` (a member of whom only the flag he leaves matters),
`Move` and `CheckAndGraduate` change the ground in between. Only the pages of an unlisted
group look at membership first, and the page of the group itself does not spare
superusers that look. Superusers are shown everything, so what is said of a reader
is said of the others; a key they are handed is one the browser wrapped for them.

## Runs

`tlc -workers 2 -config <cfg> <MC module>`; each ends within five minutes. Where
`CHECK_DEADLOCK FALSE` is set, a deployment where nobody does anything, or whose
bounds are used up, stops without being wrong; every request can always be
abandoned, so nobody waits for somebody else forever. `Sessions` and `SignIn` check
deadlock: some request, expiry or tick is always possible there.

| Run | Configuration | Shows |
|---|---|---|
| `secret_keys` | 2 users with two key pairs each, one of whom resets the password, 3 DEKs, deletions of accounts and second uploads by both, `FlagMayFail`, `FairSpec` | rows are the survivors' (`HoldersAreSurvivors`); whoever has an account, knows the payload's DEK and has no row is rotated away from (`RotationOwed`); whoever is not flagged, not `mislaid`, and has the current key pair can decrypt (`UnflaggedHolderCanDecrypt`); a request for re-keying is answered while a holder with the first pair remains (`RekeyAnswered`) |
| `group_membership` | the founder and a superuser, one link of one use, one invitation, the school page, 2 vouches, 2 requests | `TypeOK` (no link is overused), `GraduationIsOwed`, `AdminIsFounder`, `TrustOutOfReach`, `BannedStayOut`, `OnlyBanOrDeletionUnseats`, `ImplementsRules` |
| `connections_answers` | 3 groups, 1 proposal, 2 connections, 2 handlers; one group blocks, one is deleted, the proposal may expire | `TypeOK`; without overlapping departures a connection lasts exactly while it has two members (`LiveWhileTwo`) |
| `connections_expansion` | 3 groups, 2 proposals (a formation and an invitation), 1 connection, 2 handlers; one group blocks and unblocks | blocked groups share no connection but for the overlaps named (`BlocksSever`); nobody enters without every consent (`EntryByConsent`) |
| `chats` | 3 groups, 2 proposals, 2 chats, a limit of one, 2 handlers; one group proposes and rotates keys, one leaves and comes back, one is deleted, one admin is banned or deleted | `ChatsAreAgreed`, `VotesDecide`, `LimitHolds`, `HoldersBelong` |
| `verification_postcards` | 2 users, 2 regions, 2 cards, a quota of one, 2 handlers, a superuser's grants, regions made by hand | `TypeOK`, `Quota`, `AdminNeedsPostcard`, `FullUsersAdminister`, `MembershipIsEarned` |
| `verification_lockout` | 2 users, 1 card, a threshold of two; a violation | `LockedAfterFailures` fails: see [finding](#finding) |
| `regions` | an address of all five levels (a locality that may be skipped, a neighbourhood whose boundary has another name), 4 rows, 2 handlers, one region made by hand or renamed, deletions | `LevelsDescend`, `NoTwins`, `PeopleOfRegions` |
| `sessions` | 2 tokens, 2 links, 2 changes of the password, 2 seconds, 2 handlers, crashes | `StaleEntryIsExplained`, `FormerPasswordEndsSessions`, `PasswordChangeEndsLinks`, `BlockOutlivesAccount` |
| `sign_in` | thresholds of two, 2 backup codes, 2 secrets, 2 handlers | `TriesAreBounded`, `SpentCodesStaySpent`, `SecretIsConfirmed` |
| `notifications` | 2 workers, a rotation that two users hear of, two regions of one name, 3 rows, batches of two, one fault (a name that cannot be read among them) | `MailsApart`, `SentMeansTold`, and under fairness `QueueDrains` |
| `group_pages` | an admin who leaves and comes back and a superuser, 2 rows, a limit of one, 2 handlers of which one reads, for the admin, and one edits, either makes chats, rotations of the chats' keys | `LimitHolds` (and one posting), `PageWasAllowed`, `SecretToMembers` |

### Bounds, and why they are enough

* Every safety property of the passing runs is also proved for all values of
  the constants. The bounds serve to
  find mistakes early and to show that the interesting cases happen: each
  property is broken under its run's bounds by at least one mutant, and every
  action fires in some passing run.
* Two requests at a time are the two sides of a race; every exception that a
  property names is of two requests. The theorems are about any number.
* `secret_keys`: progress is pairwise (a flagged user and a helper), and so is
  every race between a removal and a rotation; three DEKs let a rotation be
  overtaken by another. One user resets the password in the run: two who both do
  (5.8 million states with three key pairs, safety; half a million with two, liveness)
  take longer than a run should, and show nothing else. The secrets of three and more
  users are in the theorems.
* `group_membership`: a founding threshold of two is reached by one admission; the
  real one, three, repeats the same step. Vouches are bounded by the trust
  threshold.
* `connections_*` and `chats`: three groups are the least for which two answers, or
  two departures, can miss each other; departures that overlap are left to
  `connections_answers`. An expansion that overlaps another
  expansion of the same connection takes four groups and is covered by the proof
  of `BlocksSever` only.
* `verification_postcards`: a quota of one is exceeded by the same overlap as one of
  three. `regions`: four rows are a whole branch without one of
  its two lower levels, or two halves of it twice.
* `sessions`: times matter only by order and equality within one second, so two
  seconds and the zero of "never" give every case of two events. Two changes of
  the password let a token be of the password before the last.
* `notifications`: one fault, since every exception of `MailsApart` starts with one
  record lost or one row in two batches; three rows are one more than a batch.
* `group_pages`: one reader and one other request are what a page can be torn
  between; the rows a page reads are independent of one another. Nothing is said of
  what a superuser is shown, so only the admin opens pages (`Viewers`).

Bounds in the models are marked "bound:" where the constants are declared
(numbers of ids, versions, seconds and faults). Others restrict who does what in
a run (`Resetting`, `Proposers`, `Leavers`, `Blockers`, `Deletable`, `Departing`,
`Expiring`, `Vouchees`, `ByHand`, `Manual`, `Renames`, `Joiners`, `Readers`, `Editors`,
`Viewers`,
`Replacing`, `Rotators`, `Audiences`, `Former`); the
proofs hold for any choice of them.

## Fairness

`SecretKeys` claims liveness under `FairSpec`. Its browsers retry:
`checkAndPerformRekeys` runs after each login and page load, so a browser that has
re-keys to perform starts them again and again (weak fairness of `PerformRekeys`).
A single attempt may always fail (the tab is closed, `DropRekeys`), so what happens
to a batch in flight needs strong fairness: of infinitely many attempts not all
fail. No fairness is assumed of users who log in with a new key, of removals, or
of rotations; the property is conditional on a helper remaining.

`Notifications` claims liveness under its `Spec`: a worker's loop (`Start`) calls
`processQueue` at every tick of its timer and works through the batch without
waiting for anybody, so `Dequeue` and `Handle` are weakly fair for each worker.
Errors, time-outs and crashes are not fair, and `MaxFaults` bounds them: a mail
provider that fails for ever is outside of the statement.

The other modules assume no fairness: nothing in the code retries an answer, a
departure, a postcard or a login, and what ought to happen eventually (a graduation,
the formation of an accepted connection, the dissolution of an empty one, the end
of links and sessions after a change of the password) is stated as "owed" in a safety
property, with the exceptions the code has.

## Proofs

`tlapm <module>.tla` checks each `*Proofs` module without leaving an obligation.

| Module | Theorems: properties | Rests on |
|---|---|---|
| `SecretKeysProofs` | `TypeInvariant`: `TypeOK`; `SurvivorsInvariant`: `HoldersAreSurvivors`; `OwedInvariant`: `RotationOwed`; `UnflaggedHolderInvariant`: `UnflaggedHolderCanDecrypt` | `MaxKeyAssumption`, `MaxDekAssumption`, `FlagMayFailAssumption` |
| the same, of `Notifications` | `QueueTypeInvariant`: `QueueTypeOK`; `QueueMailsApart`: `MailsApart`; `QueueSentMeansTold`: `SentMeansTold` | bounds are numbers, batches are not empty; rotations and regions differ, those a rotation tells and the blocked are users, `None` is not |
| `GroupMembershipProofs` | `GroupTypeInvariant`: `TypeOK`; `BanTheorem`: `BannedStayOut`; `FounderTheorem`: `AdminIsFounder`; `TrustTheorem`: `TrustOutOfReach`; `GraduationTheorem`: `GraduationIsOwed`; `UnseatTheorem`: `OnlyBanOrDeletionUnseats`; `Refinement`: `ImplementsRules` | finite `Users`, `Creator \in Users`, thresholds of at least two |
| the same, of `GroupPages` | `PagesTypeInvariant`: `PagesTypeOK`; `PagesLimit`: `LimitHolds`; `PagesAllowed`: `PageWasAllowed`; `PagesSecretToMembers`: `SecretToMembers` | finite `Handlers`; bounds are numbers; tiers are those of the code |
| `ConnectionsProofs` | `ConnectionsTypes`: `TypeOK`; `ConnectionsEntryByConsent`: `EntryByConsent`; `ConnectionsBlocksSever`: `BlocksSever`; `ConnectionsLiveWhileTwo`: `LiveWhileTwo` | finite `Groups`, `Null` not a connection, `Expiring` a set of proposals |
| `ConnectionChatsProofs` | `TypeCorrect`: `TypeOK`; `ChatsAgreed`: `ChatsAreAgreed`; `VotesDecided`: `VotesDecide`; `LimitKept`: `LimitHolds`; `KeysBelong`: `HoldersBelong` | finite `Groups` and `Chats`, a positive `ChatLimit`, `None` of neither kind |
| `VerificationProofs` | `TypeInvariant`: `TypeOK`; `QuotaInvariant`: `Quota`; `AdminInvariant`: `AdminNeedsPostcard`; `FullInvariant`: `FullUsersAdminister`; `EarnedTheorem`: `MembershipIsEarned` | finite `Cards`, `Vouchees` are users, `Nobody` is not, limits are numbers |
| `RegionsProofs` | `TypeInvariant`: `TypeOK`; `LevelsInvariant`: `LevelsDescend`; `PeopleInvariant`: `PeopleOfRegions`; `TwinsInvariant`: `NoTwins` | finite `Ids`; each address has a state, a county and a city; names are names |
| `SessionsProofs` | `TypeCorrect`: `TypeOK`; `CacheExplained`: `StaleEntryIsExplained`; `SessionsEnd`: `FormerPasswordEndsSessions`; `LinksEnd`: `PasswordChangeEndsLinks`; `BlocksOutlive`: `BlockOutlivesAccount` | finite `Handlers`, bounds are numbers |
| `SignInProofs` | `TypeCorrect`: `TypeOK`; `TriesBounded`: `TriesAreBounded`; `SpentForGood`: `SpentCodesStaySpent`; `SecretConfirmed`: `SecretIsConfirmed` | finite `Handlers`, positive thresholds |

Few of the properties are inductive; what has to be added is what requests in
flight know.

* **SecretKeys.** `TypeInv` adds that a rotation in flight exists only for a
  secret that exists. `SurvivorsInv` adds that the entries of a request that has
  passed its checks are the survivors' too, but for users removed since, who are
  in `exposed`. Entries of
  deleted accounts do not count, since a write that lists one fails. `CurrentInv` is
  about whoever is not `mislaid`: each entry that a request lists for them is of their
  current public key; a batch prepared by one of them for another who still waits is of
  the current DEK, because a rotation clears the flags that the batch needs; and a row
  without the flag is of the current DEK and public key, but for the moment between the
  two statements of a password reset, when the browser has no key.
* **GroupMembership.** `LocksHeld` is the heart: a join in flight is the only one
  on its link, which has a use left; an acceptance in flight is the only one on
  its invitation, which is pending and the user's. From it follow the bound on
  uses and the refinement (the abstract admission's guards hold at the commit).
  `FounderInv` ties vouches to the founder (one vouch per member, so the count
  seen is zero unless the INSERT will fail), which keeps the threshold out of
  reach. `BanInv` adds that a banned user being admitted is exposed; `LeaveInv`
  that no departure in flight is an admin's, so that only a ban and the end of the
  account are left.
* **Connections.** `TypeInv` adds the agreement between proposals and connections
  (`ProposalsOK`), answers in flight (`AnswersOK`, `IntoOK`) and the locks of a
  block (`LockedOK`). `ConsentInv`: the groups an acceptance in flight completes
  have all consented but the one that is answering. `SeverInv`: an admission in
  flight into a connection that is not exposed brings no blocked pair together,
  and a block in flight has seen each connection its groups share. `RemovalInv`:
  a removal in flight has seen the connection's members as they are, unless it
  overlapped, so the count it decides on is right.
* **ConnectionChats.** `TypeInv`: a connection that is gone has no votes.
  `AgreeInv`: a vote in flight that was counted as the last one lacks only its own
  group's consent (`LastVotes`), and a chat's proposal was agreed
  (`ChatsSettled`). `DecideInv`: on a proposal without overlapping votes the vote in
  flight has counted right (`VoterOK`), so it settles the proposal or leaves a
  pending one. `LimitInv`: without rivals there is one open proposal (`Single`), and
  room for its chat (`Room`). `KeysInv` says it of the key
  rows and of those that a rotation in flight will write (`Reach`): both are members' or
  strays', and departures in flight have seen the chats whose keys they will revoke, or
  their group is stray (`LeaversLoseKeys`).
* **Verification.** `TypeInv` adds that the card in a handler's hands has a row,
  an owner and a region. `QuotaInvariant` is inductive with it. `AdminInv`: a
  grant that found its user verified by postcard was right, and so was a creator of a region, since that flag is
  never cleared. `FullUsersAdminister` is inductive with the types: the exceptions are
  in `missed` when the grant or the redemption ends.
* **Regions.** `TypeInv`: a walk is at a level its address has a name for. `TreeInv`:
  the parent that a request carries fits the level it is at (`Hung`), and rows
  keep their type for ever (`Grows`), `handmade` ones too, so that what was looked up stays a parent
  although its region may be deleted. `NoTwins` follows from the locked look-up, since
  renaming and regions by hand are `odd`.
* **Sessions.** Its four properties are inductive with `TypeOK`, which bounds every
  timestamp by the clock; that is what makes an invalidation refuse every token
  issued so far.
* **SignIn.** `GuessesCounted` and `TriesCounted`: the guesses are at most the counter
  plus the requests that have judged and not counted yet; with a guard that stops at
  the threshold this bounds them by the number of handlers. `SpentInv`: spent codes
  are of set-ups completed, so a new set-up brings none back. `SecretInv`: a set-up
  about to be enabled has a confirmed secret, or replaced it.

* **Notifications.** `QueueTypeOK` adds that what a worker is about to do fits its first
  row. For `MailsApart`: unless the overlap is in `loose`, no two workers hold rows
  of one user and topic (`Apart`), the rows they hold are still queued (`Taken`), a
  mail is on record or its worker is about to record it (`OnRecord`), and a
  worker about to send has compared with every mail on record (`Unsent`). For
  `SentMeansTold`: while an event is fanned out, each of its users has a row, has
  none for an error, or is still on the worker's list (`FanningHolds`); a row that
  is skipped was preceded by a row on record of the same user and text, of which
  the same is known, so some mail was the first.
* **GroupPages.** `PlacesHold`: a request between its count and its insertion is
  counted as a row already, so the insertion changes no sum. A posting is made only
  where there is none, and no other row becomes one (`PagesPosted`). `PagesHold`: the
  tiers that a page has read are those of the rows, or the change is noted, and
  after the reading of the membership each row that it would show has been noted.
  `KeysHold`: as long as a reader has a key row that no rotation put back,
  that reader has not left since the membership was read, because `EndMembership` deletes
  the key rows in the transaction that ends the membership (`PagesStandingKept`);
  so the standing compared earlier is still the standing.

The proof that steps preserve an invariant has one step per action. Actions that
only forget requests, or that leave alone what an invariant speaks of, are grouped
first (`Forgets`, `Shrinks`, `Quiet`, `Grows` in the modules that need them), so that
each invariant is argued only for the actions that can disturb it.

Only model-checked: the liveness properties `RekeyAnswered` and `QueueDrains`, because
the prover handles neither fairness nor ENABLED. The property of the violation
run is refuted by its trace. No module uses recursive
operators; no fact by induction over data is needed.

## Finding

**`verification_lockout`** - `VerifyCode` increments
`failed_verification_attempts` inside a transaction whose function then returns
an error (`handlers/verification.go:424`), so the increment is rolled back with it
and the counter stays at zero. A code can be tried without end, although the
handler has a message for a code that "has been locked" after "too many failed
attempts" (`handlers/verification.go:481`). The trace: a card is mailed, another
user tries its code as often as should lock it, and the code is redeemed.

## Observations

Behaviours of the code that the models contain and that a reader of the code may
not expect. The history variable that names each is in parentheses.

*Secret keys.* `SubmitGroupRotation` compares the submitted users with the rows of
its snapshot, then deletes and inserts; a removal in between is undone and the
flags that ask for a rotation are cleared (`exposed`). Three ways to replace a key pair
leave a row for the former one without the flag that would have it re-wrapped
(`mislaid`): a `RotateKeys` whose second statement fails, the upload of a browser whose
login found no pair while another device uploaded one, and a pair replaced while a
re-key or a rotation that had fetched the old one is under way. A batch of re-keys by
somebody mislaid may spread it. Deleting an account takes its key row and flags nobody, so
whoever deletes the account is not rotated away from, as somebody who leaves is; the
property that says so speaks of users with an account. A deletion is refused while its
user is the last to have written the payload.

*Group membership.* A join or an acceptance that read the bans before a ban
committed inserts the member after it, and the school's page looks at no ban
(`exposed`). Declining an invitation that is being accepted overwrites "accepted"
(`GroupRules.Decline` admits it). A vouch needs a trusted member or an admin, and
the only admin is one voucher, so with a threshold of two nobody becomes trusted
(`TrustOutOfReach`). The founder may not leave as the last admin but
may delete the account, and the cascade leaves the group without one.

*Connections.* Two groups that accept at the same time each count the other as
pending: everybody has accepted, and no connection is formed. A decline that
commits between the check and the write of an acceptance is overwritten. Two of
three groups that leave at the same time each count two that remain, and the
connection stays with one member. Two admins of the last group who accept at the
same time form two connections. A block between the proposal and the last answer
does not stop a formation (`exposed`). The UPDATE that stores the status `expired`
is rolled back by the error returned after it. A group that names only itself in
a proposal leaves nobody to answer, so it stays pending.

*Chats of connections.* Last votes that overlap each count the other as pending, and
two votes of one group make two chats (`crossed`). The limit is compared when a chat is
proposed, not when it is approved (`rivals`). Keys wrapped for the groups of the time of
the proposal are stored at approval: a group that left in between holds one
(`stray`), and so does one that left while a rotation of the keys had read the
recipients and not written them yet; and if one of their accounts was deleted, the foreign key makes every
approval fail. A chat whose proposer's account is gone is made without a secret.
The keys of an admin who was banned and of a group that was deleted are not
revoked; the endpoints that hand them out ask for membership. Resources a former
member shared remain. Deleting a user who wrote a secret last is refused by a
foreign key, where a comment (`database/users.go:425`) expects cascades.

*Verification.* A grant decides on the user row it read first, so a redemption that
commits meanwhile is overlooked; a statement after a redemption that fails is only
logged (`missed`). A provider that took the order but whose answer was lost, and a
stop before the order, leave a card without a row, or a row without a card that
counts against the quota.

*Regions.* `validateTypeParentHierarchy` knows no locality, so one made by hand may hang
below any region or none (`handmade`). The requests of `RegionHandler` look a region up
without a lock. A county
is looked up by name and type alone. A locality and a neighbourhood are looked up
by the geocoder's name and stored under the boundary's, so the next address makes
them again (`odd`). Deleting a region leaves its grandchildren without a parent:
migration 006, which meant to drop one foreign key, dropped another.

*Sessions.* A login that read the hash before a change of the password gets a token
that the change does not revoke (`overtaken`); so does every token if the statement
that revokes fails, which is only logged. An entry of the cache filled late lasts
for its 60 seconds, and a deletion evicts none (`window`). Logging out revokes
nothing: its route has no authentication, so the handler never knows whose token
it is. Two resets by one link, both validated, both succeed. A soft deletion is
reached only through a block that comes between check and deletion (`crossed`).

*Signing in.* Requests that overlap are judged by counters the others have not yet
raised. A right password clears a lock set meanwhile. A set-up begun late replaces
the secret of a factor in force (`replaced`).

*Notifications.* Nothing claims a row, and sending and recording are two steps
(`loose`). A comment of `Nack` promises a retry, but `RetryFailed` has no caller. A
`Nack` of a row that another worker has sent takes it out of the rate limit. A
skipped row counts as sent and extends the rate limit. A mail whose region could not be
read names none, and the next one that names none counts as the same mail.

*Groups' pages.* Overlapping requests pass a limit together (`crowd` counts them). A page is put
together from rows, membership and residence read one after the other (`met`,
`visible`). A posting made while an admin opens its page is shown, though the
admin may have left. A rotation that read the key rows before somebody left puts theirs
back, and a request for the key that had passed the checks may still be answered
(`revived`). The two definitions of the tier `resident`, in SQL and in Go, disagree.
Saving a group or a resource without a change affects no row, which is answered
as "not found". Members may create resources of tiers they cannot see. A blocked
group still sees the postings of the group that blocked it, since browsing leaves
out only what the browsing group itself blocked.

## What is not modelled

* Statements within one transaction are not interleaved with other
  transactions' statements beyond the split into snapshot and writes. Lock waits
  are disabled guards; a deadlock that the database resolves by rolling one
  transaction back is an abandoned request.
* The cryptography itself, formatting, e-mail texts, HTML, logging and audit rows,
  which influence no decision.
* `SecretKeys`: several secrets and several owner groups (independent rows), the
  access tier a secret may be restricted to when its keys are fetched (a smaller
  set of recipients), `UpdateKeys`, which wraps one's own private key anew, and
  further browsers of a user, with `restoreEncryption`, which brings them the pair on
  the server: the browser that last stored a pair stands for the user. The keys of a
  connection's secrets are in `ConnectionChats`.
* `GroupMembership`: the regions a creator must be verified in, tags, listing and
  browsing.
* Deletion of accounts is in `SecretKeys`, `GroupMembership`, `ConnectionChats` and
  `Sessions`, where its cascades break something a property is about. It is left out of
  `Verification`, `Regions`, `SignIn` and `Notifications`, where it takes all rows of
  one user and no property relates them to rows that stay, of `GroupPages`, where
  `EndMembership` takes the same rows and flags more, and of `Connections`, whose state
  names groups and not users. Soft deletion scrubs the `users` row and touches no other
  table; only `Sessions` tells it from the row it was.
* `GroupPages`: the tags and the label of a posting, which are written with it, and
  browsing the postings of other groups.
* `Connections` and `ConnectionChats`: the pages of a connection, which only read;
  sharing and unsharing a resource, single statements under a unique key; the
  name of a connection, which is never written; the retention of proposals.
* `Verification`: members from before (`Former`) are part of the initial state; regions
  beyond those of the cards, and who else administers them.
* `Verification` and `Regions`: geometry, address look-up (external), the status
  page, and the functions for memberships of ancestors and for bootstrap mode,
  which no route calls.
* `Sessions` and `SignIn`: registration (it is the initial state), signatures of
  tokens, time-based codes and their windows, which are data: a code matches or it
  does not.
* Functions without a caller: `RetryFailed`, `CleanupExpired`, `ExpireOldRequests`,
  `UpdatePayloadAndKeys`, the repository of vouches between users, `MarkUsed`,
  `Deactivate`, and the counts under a lock of chats and channels.
* Rate limiting is one upsert per request and lets requests through when the
  database fails; it only takes away behaviours that the models allow, and no
  other state depends on it.
* Secret update proposals are dormant: nothing creates or votes on one, and only the
  worker that expires them runs.
* The remaining components of the inventory's last row are read-only directories,
  pure input and output, clients of external services, or wiring; their entries
  in `PROJECT.json` carry the reason each.
