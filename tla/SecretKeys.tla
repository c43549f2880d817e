----------------------------- MODULE SecretKeys -----------------------------
(***************************************************************************)
(* End-to-end encrypted invite secret of one group: the tables             *)
(* encrypted_secrets and encrypted_secret_keys, the users' key pairs in    *)
(* user_encryption_keys, the endpoints that change them and the browsers   *)
(* that do the cryptography.                                               *)
(*                                                                         *)
(* A secret's payload is encrypted with a data key (DEK).  Each recipient  *)
(* has one key row: the DEK wrapped for the recipient's public key, with   *)
(* two flags.  rekey_needed asks another holder to re-wrap the same DEK    *)
(* for a new public key; group_rotation_pending asks a holder to generate  *)
(* a fresh DEK because somebody lost the right to read the payload.        *)
(*                                                                         *)
(* Keys are versions.  Public key k of a user opens with private key k     *)
(* only; DEK d decrypts a payload encrypted with d only.  Version 0 stands *)
(* for "none", key pair 1 for the first one uploaded, and all others count *)
(* from 2.  A user's browser is the one that last stored a key pair.  A    *)
(* column that is a flag is the set of users whose row has it.  The        *)
(* secrets are independent of each other (every statement selects by       *)
(* secret or applies to each row alike), so one is modelled.  An account   *)
(* that is deleted is gone for good.                                       *)
(*                                                                         *)
(* MariaDB runs each transaction under REPEATABLE READ: plain SELECTs see  *)
(* the snapshot of the transaction's first read, UPDATE, DELETE and INSERT *)
(* act on current rows.  SubmitGroupRotation is therefore two actions,     *)
(* the checks on the snapshot and the write that commits.                  *)
(***************************************************************************)
EXTENDS Naturals, FiniteSets

CONSTANTS
    Users,      \* those who ever have an account
    MaxKey,     \* bound: key pairs one user generates
    MaxDek,     \* bound: DEKs generated for the secret
    Resetting,  \* bound: users who reset their passwords
    Departing,  \* bound: users whose accounts are deleted
    Replacing,  \* bound: users of whom a second device uploads a key pair
    FlagMayFail \* whether RotateKeys' second statement can fail

ASSUME MaxKeyAssumption == MaxKey \in Nat \ {0}
ASSUME MaxDekAssumption == MaxDek \in Nat \ {0}
ASSUME FlagMayFailAssumption == FlagMayFail \in BOOLEAN

VARIABLES
    accounts,         \* users with a users row
    members,          \* group_members of the secret's owner group
    publicKey,        \* user_encryption_keys.public_key, 0 before the upload
    privateKey,       \* the key in the user's IndexedDB, 0 when cleared
    newKey,           \* the key pair a user's RotateKeys has put on the server
    payload,          \* DEK that encrypts encrypted_secrets.encrypted_payload
    author,           \* encrypted_secrets.updated_by, or who drafts it, or nobody
    dekCount,         \* DEKs generated so far
    holders,          \* users with an encrypted_secret_keys row
    wrapped,          \* the row's wrapped_dek: a DEK and the key it is wrapped for
    rekeyNeeded,      \* rows with rekey_needed = TRUE
    rotationPending,  \* rows with group_rotation_pending = TRUE
    draft,            \* wrapped_keys of a CreateSignalGroup request in the making
    rotating,         \* progress of each user's RotateKeys
    rekeying,         \* re-key batch of each user's browser
    rotation,         \* group rotation of each user's browser
    \* History, read by the properties only.
    recipients,       \* users the secret was created for
    removed,          \* users who left or were blocked since the draft was made
    exposed,          \* users removed while a request in flight listed them
    readers,          \* users who were given the DEK of the current payload
    mislaid           \* users whose row a change of keys may have left behind

people   == <<accounts, members>>
keyPairs == <<publicKey, privateKey, newKey, rotating>>
keyRows  == <<payload, author, holders, wrapped, rekeyNeeded, rotationPending>>
clients  == <<dekCount, draft, rekeying, rotation>>
history  == <<recipients, removed, exposed, readers, mislaid>>
vars     == <<people, keyPairs, keyRows, clients, history>>

Version == 0..MaxKey
Dek     == 0..MaxDek
Wrapped == [dek : Dek, key : Version]

NoWrapped   == [dek |-> 0, key |-> 0]
NoKeys      == [u \in Users |-> 0]
NoRekeying  == [stage |-> "idle", dek |-> 0, keys |-> NoKeys]
NoRotation  == NoRekeying

\* wrapped_keys entries are kept as a function to key versions, 0 for no entry.
Listed(keys) == {u \in Users : keys[u] # 0}

\* The entries of the users in S.
EntriesOf(keys, S) == [u \in Users |-> IF u \in S THEN keys[u] ELSE 0]
PublicKeysOf(S)    == EntriesOf(publicKey, S)

\* A request of a browser; without an entry there is nothing left to do.
Batch(stage, dek, keys) ==
    IF keys = NoKeys THEN NoRekeying ELSE [stage |-> stage, dek |-> dek, keys |-> keys]

\* unwrapDEK succeeds in the user's browser.
CanUnwrap(u) == /\ u \in holders
                /\ privateKey[u] # 0
                /\ wrapped[u].key = privateKey[u]

\* decryptSecret succeeds in the user's browser.
CanDecrypt(u) == CanUnwrap(u) /\ wrapped[u].dek = payload
-----------------------------------------------------------------------------
Init ==
    /\ accounts = Users
    /\ members \in SUBSET Users
    /\ publicKey \in [Users -> {0, 1}]
    /\ privateKey = publicKey
    /\ newKey = NoKeys
    /\ payload = 0
    /\ author = {}
    /\ dekCount = 0
    /\ holders = {}
    /\ wrapped = [u \in Users |-> NoWrapped]
    /\ rekeyNeeded = {}
    /\ rotationPending = {}
    /\ draft = NoKeys
    /\ rotating = [u \in Users |-> "idle"]
    /\ rekeying = [u \in Users |-> NoRekeying]
    /\ rotation = [u \in Users |-> NoRotation]
    /\ recipients = {}
    /\ removed = {}
    /\ exposed = {}
    /\ readers = {}
    /\ mislaid = {}
-----------------------------------------------------------------------------
(* Key pairs.                                                              *)

\* Users whom a request of some browser lists, their keys fetched.
Handled ==
    {u \in Users : \/ draft[u] # 0
                   \/ \E c \in Users : rekeying[c].keys[u] # 0 \/ rotation[c].keys[u] # 0}

\* History: from now on u's row may be of another key pair, or another DEK.
Mislay(u, harmed) == mislaid' = IF harmed THEN mislaid \cup {u} ELSE mislaid

NextKey(u) == IF publicKey[u] = 0 THEN 2 ELSE publicKey[u] + 1

\* initializeEncryption, in a browser without a key when the account had none
\* at its login or registration: another device may have uploaded one since,
\* which the endpoint, an upsert, replaces without flagging the rows.
UploadKeys(u) ==
    /\ u \in accounts
    /\ LET key == IF publicKey[u] = 0 THEN 1 ELSE NextKey(u) IN
       /\ key <= MaxKey
       /\ publicKey' = [publicKey EXCEPT ![u] = key]
       /\ privateKey' = [privateKey EXCEPT ![u] = key]
    /\ Mislay(u, u \in holders \cup Handled)
    /\ UNCHANGED <<people, newKey, rotating, keyRows, clients,
                   recipients, removed, exposed, readers>>

\* Password reset: the browser drops its keys and generates a new pair.
BeginRotateKeys(u) ==
    /\ u \in accounts
    /\ rotating[u] = "idle"
    /\ NextKey(u) <= MaxKey
    /\ privateKey' = [privateKey EXCEPT ![u] = 0]
    /\ rotating' = [rotating EXCEPT ![u] = "cleared"]
    /\ UNCHANGED <<people, publicKey, newKey, keyRows, clients, history>>

\* The endpoint's first statement: the new public key.
CreateRotatedKey(u) ==
    /\ u \in accounts
    /\ rotating[u] = "cleared"
    /\ NextKey(u) <= MaxKey
    /\ publicKey' = [publicKey EXCEPT ![u] = NextKey(u)]
    /\ newKey' = [newKey EXCEPT ![u] = NextKey(u)]
    /\ rotating' = [rotating EXCEPT ![u] = "created"]
    /\ Mislay(u, u \in Handled)
    /\ UNCHANGED <<people, privateKey, keyRows, clients,
                   recipients, removed, exposed, readers>>

\* The endpoint's second statement, in a transaction of its own.
FlagRekeyForUser(u) == rekeyNeeded' = rekeyNeeded \cup (holders \cap {u})

\* The browser stores the pair it has generated.
StoreNewKey(u) ==
    /\ rotating[u] = "created"
    /\ privateKey' = [privateKey EXCEPT ![u] = newKey[u]]
    /\ newKey' = [newKey EXCEPT ![u] = 0]
    /\ rotating' = [rotating EXCEPT ![u] = "idle"]

\* The rest of the endpoint, and the browser storing the new pair.
FinishRotateKeys(u) ==
    /\ StoreNewKey(u)
    /\ FlagRekeyForUser(u)
    /\ Mislay(u, u \in Handled)
    /\ UNCHANGED <<people, publicKey, payload, author, holders, wrapped,
                   rotationPending, clients, recipients, removed, exposed, readers>>

\* A failure to flag is logged; the response still says "rotated".
FinishRotateKeysUnflagged(u) ==
    /\ FlagMayFail
    /\ StoreNewKey(u)
    /\ Mislay(u, u \in holders)
    /\ UNCHANGED <<people, publicKey, keyRows, clients,
                   recipients, removed, exposed, readers>>

\* The request fails after the browser dropped its keys.
FailRotateKeys(u) ==
    /\ rotating[u] = "cleared"
    /\ rotating' = [rotating EXCEPT ![u] = "idle"]
    /\ UNCHANGED <<people, publicKey, privateKey, newKey, keyRows, clients, history>>
-----------------------------------------------------------------------------
(* Creating the secret.                                                    *)

\* Public keys of a group are for its members.
MayGetPublicKeys(c) == c \in members

\* The admin's browser fetches the public keys of the members entitled to
\* the secret and encrypts it for them.
EncryptForMembers(c) ==
    /\ MayGetPublicKeys(c)
    /\ payload = 0
    /\ draft = NoKeys
    /\ Listed(PublicKeysOf(members)) # {}
    /\ draft' = PublicKeysOf(members)
    /\ author' = {c}
    /\ removed' = {}
    /\ exposed' = {}
    /\ UNCHANGED <<people, keyPairs, payload, holders, wrapped, rekeyNeeded,
                   rotationPending, dekCount, rekeying, rotation,
                   recipients, readers, mislaid>>

\* The payload and one row for each entry sent, which the foreign keys refuse
\* by and for somebody without an account.
StoreRows(by, dek, keys) ==
    /\ by \cup Listed(keys) \subseteq accounts
    /\ author' = by
    /\ payload' = dek
    /\ holders' = Listed(keys)
    /\ wrapped' = [u \in Users |-> IF keys[u] = 0 THEN NoWrapped
                                  ELSE [dek |-> dek, key |-> keys[u]]]
    /\ readers' = Listed(keys)

\* The server stores the rows it is sent.
CreateSecret ==
    /\ payload = 0
    /\ draft # NoKeys
    /\ StoreRows(author, 1, draft)
    /\ dekCount' = 1
    /\ draft' = NoKeys
    /\ recipients' = Listed(draft)
    /\ UNCHANGED <<people, keyPairs, rekeyNeeded, rotationPending, rekeying,
                   rotation, removed, exposed, mislaid>>

\* The request fails, its transaction rolls back or it is never sent.
DropDraft ==
    /\ draft # NoKeys
    /\ draft' = NoKeys
    /\ author' = {}
    /\ UNCHANGED <<people, keyPairs, payload, holders, wrapped, rekeyNeeded,
                   rotationPending, dekCount, rekeying, rotation, history>>
-----------------------------------------------------------------------------
(* Membership.                                                             *)

\* A new member gets no key row.
JoinGroup(u) ==
    /\ u \in accounts \ members
    /\ members' = members \cup {u}
    /\ UNCHANGED <<accounts, keyPairs, keyRows, clients, history>>

\* Users listed by a request whose checks are behind it.
InFlight ==
    Listed(draft) \cup
        UNION {Listed(rotation[c].keys) :
                   c \in {v \in Users : rotation[v].stage = "checked"}}

\* Deletes the user's rows.
DeleteRows(u) ==
    /\ holders' = holders \ {u}
    /\ wrapped' = [wrapped EXCEPT ![u] = NoWrapped]
    /\ rekeyNeeded' = rekeyNeeded \ {u}

\* Mutant of RevokeGroupSecretKeysForUser: the survivors are not flagged.
RevokeFlagsNobody(u) ==
    /\ DeleteRows(u)
    /\ rotationPending' = rotationPending \ {u}

\* Deletes the user's rows and flags every remaining one.
RevokeGroupSecretKeysForUser(u) ==
    /\ DeleteRows(u)
    /\ rotationPending' = holders \ {u}

RemoveMemberTx(u) ==
    /\ members' = members \ {u}
    /\ RevokeGroupSecretKeysForUser(u)
    /\ removed' = removed \cup {u}
    /\ exposed' = IF u \in InFlight THEN exposed \cup {u} ELSE exposed
    /\ UNCHANGED <<accounts, keyPairs, payload, author, clients, recipients,
                   readers, mislaid>>

Leave(u) == u \in members /\ RemoveMemberTx(u)

\* A ban needs no membership.
BlockMember(u) == u \in accounts /\ RemoveMemberTx(u)

\* DeleteAccount, or DeleteUser by a superuser: the foreign keys take the key
\* pair, the membership and the key row, and refuse only while the user is the
\* last to have written the payload.  No survivor's row is flagged.
DeleteAccount(u) ==
    /\ u \in accounts
    /\ payload # 0 => u \notin author
    /\ accounts' = accounts \ {u}
    /\ members' = members \ {u}
    /\ publicKey' = [publicKey EXCEPT ![u] = 0]
    /\ DeleteRows(u)
    /\ rotationPending' = rotationPending \ {u}
    /\ removed' = removed \cup {u}
    /\ UNCHANGED <<privateKey, newKey, rotating, payload, author, clients,
                   recipients, exposed, readers, mislaid>>
-----------------------------------------------------------------------------
(* Re-wrapping a DEK for a user who rotated the key pair.                  *)

\* Mutant of PendingRekeys: the caller's flag is compared with TRUE.
PendingRekeysOfFlagged(c) == IF c \in rekeyNeeded THEN rekeyNeeded ELSE {}

\* GetPendingRekeys for caller c: the rows it lists.
PendingRekeys(c) == IF c \in holders \ rekeyNeeded THEN rekeyNeeded ELSE {}

\* performRekeys: fetch, unwrap the own DEK, wrap it for each target.
PerformRekeys(c) ==
    /\ rekeying[c].stage = "idle"
    /\ PendingRekeys(c) # {}
    /\ CanUnwrap(c)
    /\ rekeying' = [rekeying EXCEPT ![c] =
                       Batch("prepared", wrapped[c].dek, PublicKeysOf(PendingRekeys(c)))]
    /\ UNCHANGED <<people, keyPairs, keyRows, dekCount, draft, rotation, history>>

\* Browser c's batch restricted to the entries of S.
KeepEntries(c, S) ==
    rekeying' = [rekeying EXCEPT ![c] =
                    Batch("allowed", rekeying[c].dek, EntriesOf(rekeying[c].keys, S))]

\* SubmitRekeys reads the pending set once and drops the other entries.
AuthorizeRekeys(c) ==
    /\ rekeying[c].stage = "prepared"
    /\ KeepEntries(c, PendingRekeys(c))
    /\ UNCHANGED <<people, keyPairs, keyRows, dekCount, draft, rotation, history>>

\* Mutant of SubmitRekey: an upsert that creates missing rows.
SubmitRekeyUpserts(c, u) ==
    /\ rekeying[c].stage = "allowed"
    /\ rekeying[c].keys[u] # 0
    /\ wrapped' = [wrapped EXCEPT ![u] = [dek |-> rekeying[c].dek,
                                          key |-> rekeying[c].keys[u]]]
    /\ holders' = holders \cup {u}
    /\ rekeyNeeded' = rekeyNeeded \ {u}
    /\ KeepEntries(c, Users \ {u})
    /\ UNCHANGED <<people, keyPairs, payload, author, rotationPending,
                   dekCount, draft, rotation, history>>

\* One entry: UPDATE ... WHERE rekey_needed = TRUE.
SubmitRekey(c, u) ==
    /\ rekeying[c].stage = "allowed"
    /\ rekeying[c].keys[u] # 0
    /\ u \in rekeyNeeded
    /\ wrapped' = [wrapped EXCEPT ![u] = [dek |-> rekeying[c].dek,
                                          key |-> rekeying[c].keys[u]]]
    /\ rekeyNeeded' = rekeyNeeded \ {u}
    /\ KeepEntries(c, Users \ {u})
    /\ Mislay(u, c \in mislaid)
    /\ UNCHANGED <<people, keyPairs, payload, author, holders, rotationPending,
                   dekCount, draft, rotation, recipients, removed, exposed, readers>>

\* The row changed meanwhile: no row is affected, the loop goes on.
SkipRekey(c, u) ==
    /\ rekeying[c].stage = "allowed"
    /\ rekeying[c].keys[u] # 0
    /\ u \notin rekeyNeeded
    /\ KeepEntries(c, Users \ {u})
    /\ UNCHANGED <<people, keyPairs, keyRows, dekCount, draft, rotation, history>>

\* The browser is closed, the request is lost or cancelled.
DropRekeys(c) ==
    /\ rekeying[c].stage # "idle"
    /\ rekeying' = [rekeying EXCEPT ![c] = NoRekeying]
    /\ UNCHANGED <<people, keyPairs, keyRows, dekCount, draft, rotation, history>>
-----------------------------------------------------------------------------
(* Rotating the DEK after somebody was removed.                            *)

\* GetPendingGroupRotations for caller c: every row's user, if c is flagged.
PendingRotation(c) == PublicKeysOf(IF c \in rotationPending THEN holders ELSE {})

\* Decryption of the payload, encryption with a fresh DEK, wrapped for everyone listed.
PrepareRotation(c) ==
    /\ rotation[c].stage = "idle"
    /\ PendingRotation(c) # NoKeys
    /\ CanDecrypt(c)
    /\ dekCount < MaxDek
    /\ dekCount' = dekCount + 1
    /\ rotation' = [rotation EXCEPT ![c] =
                       Batch("prepared", dekCount + 1, PendingRotation(c))]
    /\ UNCHANGED <<people, keyPairs, keyRows, draft, rekeying, history>>

\* The handler's and the transaction's checks for caller c and submitted set S.
RotationAllowed(c, S) ==
    /\ c \in S
    /\ c \in rotationPending
    /\ S = holders

\* The endpoint takes any set of entries; it is modelled with every subset
\* of those the browser prepared.
CheckRotation(c) ==
    /\ rotation[c].stage = "prepared"
    /\ \E S \in SUBSET Listed(rotation[c].keys) :
           /\ RotationAllowed(c, S)
           /\ rotation' = [rotation EXCEPT ![c] =
                 Batch("checked", rotation[c].dek, EntriesOf(rotation[c].keys, S))]
    /\ UNCHANGED <<people, keyPairs, keyRows, dekCount, draft, rekeying, history>>

\* The payload is updated, every row deleted, and the submitted rows inserted
\* with their flags cleared.
WriteRows(c) ==
    /\ rotation[c].stage = "checked"
    /\ StoreRows({c}, rotation[c].dek, rotation[c].keys)
    /\ rekeyNeeded' = {}
    /\ rotationPending' = {}
    /\ rotation' = [rotation EXCEPT ![c] = NoRotation]
    /\ UNCHANGED <<people, keyPairs, dekCount, draft, rekeying,
                   recipients, removed, exposed, mislaid>>

\* Mutant of WriteRotation: no transaction, the request fails after the payload.
WriteRotationPartly(c) ==
    \/ WriteRows(c)
    \/ /\ rotation[c].stage = "checked"
       /\ payload' = rotation[c].dek
       /\ rotation' = [rotation EXCEPT ![c] = NoRotation]
       /\ UNCHANGED <<people, keyPairs, author, holders, wrapped, rekeyNeeded,
                      rotationPending, dekCount, draft, rekeying, history>>

\* The write phase, which commits as one.
WriteRotation(c) == WriteRows(c)

\* Rejected, rolled back (deadlock, cancelled request) or never sent.
AbortRotation(c) ==
    /\ rotation[c].stage # "idle"
    /\ rotation' = [rotation EXCEPT ![c] = NoRotation]
    /\ UNCHANGED <<people, keyPairs, keyRows, dekCount, draft, rekeying, history>>
-----------------------------------------------------------------------------
Next ==
    \/ CreateSecret
    \/ DropDraft
    \/ \E u \in Users :
           \/ EncryptForMembers(u)
           \/ (publicKey[u] = 0 \/ u \in Replacing) /\ UploadKeys(u)
           \/ u \in Resetting /\ BeginRotateKeys(u)
           \/ CreateRotatedKey(u)
           \/ FinishRotateKeys(u)
           \/ FinishRotateKeysUnflagged(u)
           \/ FailRotateKeys(u)
           \/ JoinGroup(u)
           \/ Leave(u)
           \/ BlockMember(u)
           \/ u \in Departing /\ DeleteAccount(u)
           \/ PerformRekeys(u)
           \/ AuthorizeRekeys(u)
           \/ \E t \in Users : SubmitRekey(u, t) \/ SkipRekey(u, t)
           \/ DropRekeys(u)
           \/ PrepareRotation(u)
           \/ CheckRotation(u)
           \/ WriteRotation(u)
           \/ AbortRotation(u)

Spec == Init /\ [][Next]_vars

\* checkAndPerformRekeys runs after every login and page load, so a browser
\* that has re-keys to perform performs them again and again, and not every
\* one of its requests is cancelled.
Fairness ==
    \A c \in Users :
        /\ WF_vars(PerformRekeys(c))
        /\ SF_vars(AuthorizeRekeys(c))
        /\ \A u \in Users : SF_vars(SubmitRekey(c, u) \/ SkipRekey(c, u))

FairSpec == Spec /\ Fairness
-----------------------------------------------------------------------------
Request == [stage : {"idle", "prepared", "allowed", "checked"},
            dek : Dek, keys : [Users -> Version]]

\* The types, and the flags exist on rows only.
TypeOK ==
    /\ accounts \in SUBSET Users
    /\ members \in SUBSET accounts
    /\ publicKey \in [Users -> Version]
    /\ privateKey \in [Users -> Version]
    /\ newKey \in [Users -> Version]
    /\ payload \in Dek
    /\ author \in SUBSET Users
    /\ dekCount \in Dek
    /\ holders \in SUBSET accounts
    /\ wrapped \in [Users -> Wrapped]
    /\ rekeyNeeded \in SUBSET holders
    /\ rotationPending \in SUBSET holders
    /\ draft \in [Users -> Version]
    /\ rotating \in [Users -> {"idle", "cleared", "created"}]
    /\ rekeying \in [Users -> Request]
    /\ rotation \in [Users -> Request]
    /\ recipients \in SUBSET Users
    /\ removed \in SUBSET Users
    /\ exposed \in SUBSET Users
    /\ readers \in SUBSET Users
    /\ mislaid \in SUBSET Users

\* S is the recipients who were not removed since, but for those whose
\* removal overtook a request that had passed its checks.
AreSurvivors(S) ==
    /\ recipients \ removed \subseteq S
    /\ S \subseteq recipients
    /\ S \cap removed \subseteq exposed

\* Whatever members, browsers and transactions do, in any order, the rows of
\* the secret are its survivors': no rotation drops one of them or admits
\* somebody else, and a removed user has a row only through the window between
\* the checks of a rotation, or of a batch of re-keys, and its writes.
HoldersAreSurvivors == payload # 0 => AreSurvivors(holders)

\* Somebody who was given the DEK of the current payload and has no row any
\* more can still read that payload, until a rotation: in that case every
\* remaining row is flagged, so that each survivor is told to rotate, and no
\* interleaving of removals, deletions of other accounts, re-keys and rotations
\* clears the flag without a fresh DEK.  Those whose own account was deleted are
\* excepted: the cascade takes the row and flags nobody.
RotationOwed == readers \cap accounts \subseteq holders \/ rotationPending = holders

\* The user still has the first key pair.
NeverRotated(u) == publicKey[u] = 1 /\ privateKey[u] = 1

\* The browser has the private key of the public key on the server.
HasCurrentKey(u) == privateKey[u] # 0 /\ privateKey[u] = publicKey[u]

\* A recipient whose row does not ask for a re-key and whose browser has the
\* current key pair can decrypt the current payload: whatever others do (rotate
\* their keys, re-key each other from stale data, rotate the DEK, leave), and
\* however often this user reset the password and was re-keyed.  Excepted is
\* who was mislaid: the key pair was replaced without flags (a second upload, a
\* flagging that failed), or while a request that had fetched the old one was
\* under way, or the row was re-keyed by somebody mislaid.
UnflaggedHolderCanDecrypt ==
    \A u \in holders \ (rekeyNeeded \cup mislaid) : HasCurrentKey(u) => CanDecrypt(u)

CanHelp(v) == v \in holders /\ NeverRotated(v)

\* A request for re-keying is answered as long as one holder who never
\* rotated remains, however often browsers are closed in the middle of a batch
\* and whatever is flagged, cleared and rotated meanwhile.
RekeyAnswered ==
    \A u, v \in Users :
        (u \in rekeyNeeded /\ CanHelp(v)) ~> (u \notin rekeyNeeded \/ ~CanHelp(v))
=============================================================================
