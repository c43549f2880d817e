-------------------------- MODULE SecretKeysProofs --------------------------
(***************************************************************************)
(* The invariants of SecretKeys hold for any set of users and any bounds,  *)
(* and so do those of Notifications, the queue of e-mails that a rotation  *)
(* of keys and a completed verification write to.                          *)
(***************************************************************************)
EXTENDS SecretKeys, Notifications, TLAPS, FiniteSetTheorems, WellFoundedInduction

USE MaxKeyAssumption, MaxDekAssumption

(***************************************************************************)
(* TypeOK is not inductive alone: flags may exist on rows only if there    *)
(* are no rows before the secret is created.                               *)
(***************************************************************************)
RotationsHaveSecret ==
    \A c \in Users : rotation[c].stage # "idle" => payload # 0 /\ rotation[c].dek # 0

TypeInv ==
    /\ TypeOK
    /\ payload = 0 => holders = {}
    /\ RotationsHaveSecret

\* A selection of wrapped_keys entries is one.
LEMMA EntriesType ==
    ASSUME NEW keys \in [Users -> Version], NEW S
    PROVE  EntriesOf(keys, S) \in [Users -> Version]
BY DEF EntriesOf, Version

\* A request with well-typed fields is well-typed.
LEMMA BatchType ==
    ASSUME NEW stage \in {"idle", "prepared", "allowed", "checked"},
           NEW dek \in Dek, NEW keys \in [Users -> Version]
    PROVE  /\ Batch(stage, dek, keys) \in Request
           /\ Batch(stage, dek, keys).stage # "idle" =>
                 Batch(stage, dek, keys) = [stage |-> stage, dek |-> dek, keys |-> keys]
BY DEF Batch, Request, NoRekeying, NoKeys, Version, Dek

\* The empty values have their types.
LEMMA NoTypes ==
    /\ NoWrapped \in Wrapped
    /\ NoKeys \in [Users -> Version]
    /\ NoRekeying \in Request
    /\ NoRotation \in Request
    /\ NoRotation.stage = "idle"
BY DEF NoWrapped, NoKeys, NoRekeying, NoRotation, Request, Wrapped, Version, Dek

\* The types hold initially.
LEMMA InitType == Init => TypeInv
BY NoTypes DEF Init, TypeInv, TypeOK, Version, Dek, NoRotation, NoRekeying,
               RotationsHaveSecret

\* Every step preserves the types.
LEMMA StepType == TypeInv /\ [Next]_vars => TypeInv'
<1> SUFFICES ASSUME TypeInv, [Next]_vars PROVE TypeInv'
  OBVIOUS
<1> USE DEF TypeInv, TypeOK, people, keyPairs, keyRows, clients, history, NextKey,
            RotationsHaveSecret
<1>1. ASSUME NEW u \in Users, EncryptForMembers(u) PROVE TypeInv'
  BY <1>1, EntriesType DEF PublicKeysOf, EncryptForMembers
<1>2. CASE CreateSecret
  BY <1>2, NoTypes DEF CreateSecret, StoreRows, Listed, Wrapped, Dek, Version
<1>3. CASE DropDraft
  BY <1>3, NoTypes DEF DropDraft
<1>4. ASSUME NEW u \in Users, UploadKeys(u) PROVE TypeInv'
  BY <1>4 DEF UploadKeys, Mislay, Version
<1>5. ASSUME NEW u \in Users, BeginRotateKeys(u) PROVE TypeInv'
  BY <1>5 DEF BeginRotateKeys, Version
<1>6. ASSUME NEW u \in Users, CreateRotatedKey(u) PROVE TypeInv'
  BY <1>6 DEF CreateRotatedKey, Mislay, Version
<1>7. ASSUME NEW u \in Users, FinishRotateKeys(u) PROVE TypeInv'
  BY <1>7 DEF FinishRotateKeys, StoreNewKey, FlagRekeyForUser, Mislay, Version
<1>8. ASSUME NEW u \in Users, FinishRotateKeysUnflagged(u) PROVE TypeInv'
  BY <1>8 DEF FinishRotateKeysUnflagged, StoreNewKey, Mislay, Version
<1>9. ASSUME NEW u \in Users, FailRotateKeys(u) PROVE TypeInv'
  BY <1>9 DEF FailRotateKeys
<1>10. ASSUME NEW u \in Users, JoinGroup(u) PROVE TypeInv'
  BY <1>10 DEF JoinGroup
<1>11. ASSUME NEW u \in Users, RemoveMemberTx(u) PROVE TypeInv'
  BY <1>11, NoTypes DEF RemoveMemberTx, RevokeGroupSecretKeysForUser, DeleteRows
<1>22. ASSUME NEW u \in Users, DeleteAccount(u) PROVE TypeInv'
  BY <1>22, NoTypes DEF DeleteAccount, DeleteRows, Version
<1>12. ASSUME NEW u \in Users, PerformRekeys(u) PROVE TypeInv'
  <2>1. wrapped[u].dek \in Dek /\ PublicKeysOf(PendingRekeys(u)) \in [Users -> Version]
    BY EntriesType DEF PublicKeysOf, Wrapped
  <2> QED
    BY <1>12, <2>1, BatchType DEF PerformRekeys
<1>13. ASSUME NEW u \in Users, NEW S, KeepEntries(u, S)
       PROVE  rekeying' \in [Users -> Request]
  <2>1. rekeying[u].dek \in Dek /\ EntriesOf(rekeying[u].keys, S) \in [Users -> Version]
    BY EntriesType DEF Request
  <2> QED
    BY <1>13, <2>1, BatchType DEF KeepEntries
<1>14. ASSUME NEW u \in Users, AuthorizeRekeys(u) PROVE TypeInv'
  BY <1>13, <1>14 DEF AuthorizeRekeys
<1>15. ASSUME NEW u \in Users, NEW t \in Users, SubmitRekey(u, t) \/ SkipRekey(u, t)
       PROVE  TypeInv'
  <2>1. CASE SubmitRekey(u, t)
    <3>1. [dek |-> rekeying[u].dek, key |-> rekeying[u].keys[t]] \in Wrapped
      BY DEF Request, Wrapped
    <3> QED
      BY <1>13, <2>1, <3>1 DEF SubmitRekey, Mislay
  <2>2. CASE SkipRekey(u, t)
    BY <1>13, <2>2 DEF SkipRekey
  <2> QED
    BY <1>15, <2>1, <2>2
<1>16. ASSUME NEW u \in Users, DropRekeys(u) PROVE TypeInv'
  BY <1>16, NoTypes DEF DropRekeys
<1>17. ASSUME NEW u \in Users, PrepareRotation(u) PROVE TypeInv'
  <2>1. dekCount + 1 \in Dek /\ dekCount + 1 # 0
    BY <1>17 DEF PrepareRotation, Dek
  <2>2. PendingRotation(u) \in [Users -> Version]
    BY EntriesType DEF PendingRotation, PublicKeysOf
  <2>3. payload # 0
    BY <1>17 DEF PrepareRotation, CanDecrypt, CanUnwrap
  <2> QED
    BY <1>17, <2>1, <2>2, <2>3, BatchType DEF PrepareRotation
<1>18. ASSUME NEW u \in Users, CheckRotation(u) PROVE TypeInv'
  <2>1. PICK S : rotation' = [rotation EXCEPT ![u] =
                    Batch("checked", rotation[u].dek, EntriesOf(rotation[u].keys, S))]
    BY <1>18 DEF CheckRotation
  <2>2. rotation[u].dek \in Dek /\ EntriesOf(rotation[u].keys, S) \in [Users -> Version]
    BY EntriesType DEF Request
  <2>3. payload # 0 /\ rotation[u].dek # 0
    BY <1>18 DEF CheckRotation
  <2> QED
    BY <1>18, <2>1, <2>2, <2>3, BatchType DEF CheckRotation
<1>19. ASSUME NEW u \in Users, WriteRotation(u) PROVE TypeInv'
  BY <1>19, NoTypes DEF WriteRotation, WriteRows, StoreRows, Request, Wrapped, Listed
<1>20. ASSUME NEW u \in Users, AbortRotation(u) PROVE TypeInv'
  BY <1>20, NoTypes DEF AbortRotation
<1>21. CASE UNCHANGED vars
  BY <1>21 DEF vars
<1> QED
  BY <1>1, <1>2, <1>3, <1>4, <1>5, <1>6, <1>7, <1>8, <1>9, <1>10, <1>11,
     <1>12, <1>13, <1>14, <1>15, <1>16, <1>17, <1>18, <1>19, <1>20, <1>21, <1>22
  DEF Next, Leave, BlockMember

\* Type correctness of every reachable state.
THEOREM TypeInvariant == Spec => []TypeOK
<1>1. TypeInv => TypeOK
  BY DEF TypeInv
<1> QED
  BY InitType, StepType, <1>1, PTL DEF Spec
-----------------------------------------------------------------------------
(***************************************************************************)
(* HoldersAreSurvivors needs the same of the rows a rotation is about to   *)
(* write: they were compared with a snapshot, and every removal since is   *)
(* recorded in exposed.  Before the secret exists the rows to come are     *)
(* those of the draft.  Entries of deleted accounts do not count: a write  *)
(* that lists one fails.                                                   *)
(***************************************************************************)
SurvivorsInv ==
    /\ HoldersAreSurvivors
    /\ \A c \in Users :
           rotation[c].stage = "checked" => AreSurvivors(Listed(rotation[c].keys) \cap accounts)
    /\ payload = 0 => Listed(draft) \cap removed \cap accounts \subseteq exposed

\* A removal keeps a set of survivors one when the removed user is taken out
\* of the set or becomes exposed.
LEMMA RemovalKeepsSurvivors ==
    ASSUME NEW u \in Users, RemoveMemberTx(u), NEW S, AreSurvivors(S)
    PROVE  /\ AreSurvivors(S \ {u})'
           /\ u \in InFlight => AreSurvivors(S)'
           /\ u \notin S => AreSurvivors(S)'
BY DEF RemoveMemberTx, AreSurvivors

\* The entries EntriesOf keeps.
LEMMA ListedEntries ==
    ASSUME NEW keys \in [Users -> Version], NEW S \in SUBSET Listed(keys)
    PROVE  Listed(EntriesOf(keys, S)) = S
BY DEF Listed, EntriesOf

\* Every step preserves the survivors.
LEMMA StepSurvivors == TypeInv /\ SurvivorsInv /\ [Next]_vars => SurvivorsInv'
<1> SUFFICES ASSUME TypeInv, SurvivorsInv, [Next]_vars PROVE SurvivorsInv'
  OBVIOUS
<1> USE DEF SurvivorsInv, HoldersAreSurvivors
<1>1. ASSUME NEW u \in Users, EncryptForMembers(u) PROVE SurvivorsInv'
  BY <1>1 DEF EncryptForMembers, TypeInv, RotationsHaveSecret
<1>2. CASE CreateSecret
  <2>1. rotation' = rotation /\ \A c \in Users : rotation[c].stage = "idle"
    BY <1>2 DEF CreateSecret, StoreRows, TypeInv, RotationsHaveSecret
  <2>2. AreSurvivors(holders)'
    BY <1>2 DEF CreateSecret, StoreRows, AreSurvivors
  <2>3. payload' # 0
    BY <1>2 DEF CreateSecret, StoreRows
  <2> QED
    BY <2>1, <2>2, <2>3
<1>3. CASE DropDraft
  BY <1>3 DEF DropDraft, people, history, AreSurvivors, Listed, NoKeys
<1>4. ASSUME NEW u \in Users, RemoveMemberTx(u) PROVE SurvivorsInv'
  <2>1. HoldersAreSurvivors'
    BY <1>4, RemovalKeepsSurvivors
    DEF RemoveMemberTx, RevokeGroupSecretKeysForUser, DeleteRows
  <2>2. ASSUME NEW c \in Users, rotation'[c].stage = "checked"
        PROVE  AreSurvivors(Listed(rotation[c].keys) \cap accounts)'
    <3>1. rotation' = rotation /\ accounts' = accounts
      BY <1>4 DEF RemoveMemberTx, clients
    <3>2. AreSurvivors(Listed(rotation[c].keys) \cap accounts)
      BY <2>2, <3>1
    <3>3. u \in Listed(rotation[c].keys) => u \in InFlight
      BY <2>2, <3>1 DEF InFlight
    <3> QED
      BY <1>4, <3>1, <3>2, <3>3, RemovalKeepsSurvivors DEF Listed
  <2>3. payload' = 0 => Listed(draft)' \cap removed' \cap accounts' \subseteq exposed'
    BY <1>4 DEF RemoveMemberTx, clients, InFlight, Listed
  <2> QED
    BY <2>1, <2>2, <2>3
<1>13. ASSUME NEW u \in Users, DeleteAccount(u) PROVE SurvivorsInv'
  <2>1. /\ payload' = payload /\ recipients' = recipients /\ exposed' = exposed
        /\ removed' = removed \cup {u} /\ accounts' = accounts \ {u}
        /\ holders' = holders \ {u} /\ draft' = draft /\ rotation' = rotation
    BY <1>13 DEF DeleteAccount, DeleteRows, clients
  <2>2. ASSUME NEW S, AreSurvivors(S)
        PROVE  AreSurvivors(S \ {u})'
    BY <2>1, <2>2 DEF AreSurvivors
  <2>3. ASSUME NEW c \in Users, rotation[c].stage = "checked"
        PROVE  AreSurvivors(Listed(rotation[c].keys) \cap accounts)'
    <3>1. (Listed(rotation[c].keys) \cap accounts)'
             = (Listed(rotation[c].keys) \cap accounts) \ {u}
      BY <2>1 DEF Listed
    <3> QED
      BY <2>2, <2>3, <3>1 DEF AreSurvivors
  <2>4. (Listed(draft) \cap removed \cap accounts)' \subseteq Listed(draft) \cap removed \cap accounts
    BY <2>1 DEF Listed
  <2>5. HoldersAreSurvivors'
    BY <2>1, <2>2 DEF AreSurvivors
  <2> QED
    BY <2>1, <2>3, <2>4, <2>5
<1>5. ASSUME NEW u \in Users, PrepareRotation(u) PROVE SurvivorsInv'
  <2>1. \A c \in Users : rotation'[c].stage = "checked" => rotation'[c] = rotation[c]
    BY <1>5 DEF PrepareRotation, Batch, NoRekeying, TypeInv, TypeOK
  <2> QED
    BY <1>5, <2>1 DEF PrepareRotation, people, keyRows, history, AreSurvivors, Listed
<1>6. ASSUME NEW u \in Users, CheckRotation(u) PROVE SurvivorsInv'
  <2>1. PICK S \in SUBSET Listed(rotation[u].keys) :
            /\ S = holders
            /\ rotation' = [rotation EXCEPT ![u] =
                  Batch("checked", rotation[u].dek, EntriesOf(rotation[u].keys, S))]
    BY <1>6 DEF CheckRotation, RotationAllowed
  <2>2. Listed(EntriesOf(rotation[u].keys, S)) = S
    BY ListedEntries DEF TypeInv, TypeOK, Request
  <2>3. ASSUME NEW c \in Users, rotation'[c].stage = "checked"
        PROVE  \/ rotation'[c] = rotation[c]
               \/ Listed(rotation'[c].keys) \cap accounts = holders
    BY <2>1, <2>2, <2>3 DEF Batch, NoRekeying, TypeInv, TypeOK
  <2>4. payload # 0
    BY <1>6 DEF CheckRotation, TypeInv, RotationsHaveSecret
  <2> QED
    BY <1>6, <2>3, <2>4 DEF CheckRotation, people, keyRows, history, AreSurvivors, Listed
<1>7. ASSUME NEW u \in Users, WriteRotation(u) PROVE SurvivorsInv'
  <2>1. /\ holders' = Listed(rotation[u].keys) \cap accounts /\ payload' # 0
        /\ accounts' = accounts
    BY <1>7 DEF WriteRotation, WriteRows, StoreRows, people, TypeInv, RotationsHaveSecret
  <2>2. \A c \in Users : rotation'[c].stage = "checked" => rotation'[c] = rotation[c]
    BY <1>7 DEF WriteRotation, WriteRows, StoreRows, NoRotation, NoRekeying, TypeInv, TypeOK
  <2> QED
    BY <1>7, <2>1, <2>2 DEF WriteRotation, WriteRows, StoreRows, AreSurvivors, Listed
<1>8. ASSUME NEW u \in Users, AbortRotation(u) PROVE SurvivorsInv'
  <2>1. \A c \in Users : rotation'[c].stage = "checked" => rotation'[c] = rotation[c]
    BY <1>8 DEF AbortRotation, NoRotation, NoRekeying, TypeInv, TypeOK
  <2> QED
    BY <1>8, <2>1 DEF AbortRotation, people, keyRows, history, AreSurvivors, Listed
<1>9. CASE UNCHANGED <<accounts, payload, holders, draft, rotation, recipients, removed,
                       exposed>>
  BY <1>9 DEF AreSurvivors, Listed
<1>10. ASSUME NEW u \in Users,
              UploadKeys(u) \/ BeginRotateKeys(u) \/ CreateRotatedKey(u)
                 \/ FinishRotateKeys(u) \/ FinishRotateKeysUnflagged(u)
                 \/ FailRotateKeys(u) \/ JoinGroup(u)
       PROVE  SurvivorsInv'
  BY <1>9, <1>10 DEF UploadKeys, BeginRotateKeys, CreateRotatedKey, FinishRotateKeys,
     FinishRotateKeysUnflagged, FailRotateKeys, JoinGroup, people, keyRows, clients, history
<1>11. ASSUME NEW u \in Users, NEW t \in Users,
              PerformRekeys(u) \/ AuthorizeRekeys(u) \/ SubmitRekey(u, t)
                 \/ SkipRekey(u, t) \/ DropRekeys(u)
       PROVE  SurvivorsInv'
  BY <1>9, <1>11 DEF PerformRekeys, AuthorizeRekeys, SubmitRekey, SkipRekey,
     DropRekeys, people, keyRows, history
<1>12. CASE UNCHANGED vars
  BY <1>9, <1>12 DEF vars, people, keyRows, clients, history
<1> QED
  BY <1>1, <1>2, <1>3, <1>4, <1>5, <1>6, <1>7, <1>8, <1>10, <1>11, <1>12, <1>13
  DEF Next, Leave, BlockMember

\* The rows of the secret are its survivors' in every reachable state.
THEOREM SurvivorsInvariant == Spec => []HoldersAreSurvivors
<1>1. Init => SurvivorsInv
  BY DEF Init, SurvivorsInv, HoldersAreSurvivors, NoRotation, NoRekeying
<1>2. SurvivorsInv => HoldersAreSurvivors
  BY DEF SurvivorsInv
<1> QED
  BY InitType, StepType, StepSurvivors, <1>1, <1>2, PTL DEF Spec
-----------------------------------------------------------------------------
\* Every step preserves the debt: a row goes only with the flag set on the
\* others, and the flags go only with a payload that the rows alone can read.
LEMMA StepOwed == TypeInv /\ RotationOwed /\ [Next]_vars => RotationOwed'
<1> SUFFICES ASSUME TypeInv, RotationOwed, [Next]_vars PROVE RotationOwed'
  OBVIOUS
<1> USE DEF RotationOwed
<1>1. CASE UNCHANGED <<accounts, readers, holders, rotationPending>>
  BY <1>1
<1>2. CASE DropDraft \/ \E u \in Users : EncryptForMembers(u)
  BY <1>1, <1>2 DEF EncryptForMembers, DropDraft, people, history
<1>3. CASE CreateSecret
  BY <1>3 DEF CreateSecret, StoreRows
<1>4. ASSUME NEW u \in Users, RemoveMemberTx(u) PROVE RotationOwed'
  BY <1>4 DEF RemoveMemberTx, RevokeGroupSecretKeysForUser, DeleteRows
<1>10. ASSUME NEW u \in Users, DeleteAccount(u) PROVE RotationOwed'
  BY <1>10 DEF DeleteAccount, DeleteRows
<1>5. ASSUME NEW u \in Users, WriteRotation(u) PROVE RotationOwed'
  BY <1>5 DEF WriteRotation, WriteRows, StoreRows
<1>6. ASSUME NEW u \in Users,
             UploadKeys(u) \/ BeginRotateKeys(u) \/ CreateRotatedKey(u)
                \/ FinishRotateKeys(u) \/ FinishRotateKeysUnflagged(u)
                \/ FailRotateKeys(u) \/ JoinGroup(u)
      PROVE  RotationOwed'
  BY <1>1, <1>6 DEF UploadKeys, BeginRotateKeys, CreateRotatedKey, FinishRotateKeys,
     FinishRotateKeysUnflagged, FailRotateKeys, JoinGroup, people, keyRows, history
<1>7. ASSUME NEW u \in Users, NEW t \in Users,
             PerformRekeys(u) \/ AuthorizeRekeys(u) \/ SubmitRekey(u, t)
                \/ SkipRekey(u, t) \/ DropRekeys(u)
      PROVE  RotationOwed'
  BY <1>1, <1>7 DEF PerformRekeys, AuthorizeRekeys, SubmitRekey, SkipRekey,
     DropRekeys, people, keyRows, history
<1>8. ASSUME NEW u \in Users,
             PrepareRotation(u) \/ CheckRotation(u) \/ AbortRotation(u)
      PROVE  RotationOwed'
  BY <1>1, <1>8 DEF PrepareRotation, CheckRotation, AbortRotation, people, keyRows, history
<1>9. CASE UNCHANGED vars
  BY <1>1, <1>9 DEF vars, people, keyRows, history
<1> QED
  BY <1>2, <1>3, <1>4, <1>5, <1>6, <1>7, <1>8, <1>9, <1>10 DEF Next, Leave, BlockMember

\* In every reachable state nobody who has an account but no row reads the
\* current payload unless every row is flagged for rotation.
THEOREM OwedInvariant == Spec => []RotationOwed
<1>1. Init => RotationOwed
  BY DEF Init, RotationOwed
<1> QED
  BY InitType, StepType, StepOwed, <1>1, PTL DEF Spec
-----------------------------------------------------------------------------
(***************************************************************************)
(* UnflaggedHolderCanDecrypt follows from facts about the users who were   *)
(* not mislaid.  Every entry that a request lists for them is of their     *)
(* current public key.  A batch of re-keys by one of them for another one  *)
(* who still asks for it is of the current payload's DEK.  And a row that  *)
(* does not ask for a re-key is of the payload's DEK and the current       *)
(* public key, or that key was replaced a moment ago, the flag is about to *)
(* be set, and the browser does not have the new key yet.                  *)
(***************************************************************************)
IsCurrent(keys) ==
    \A u \in accounts \ mislaid : keys[u] # 0 => keys[u] = publicKey[u]

RowIsCurrent(u) ==
    /\ wrapped[u].dek = payload
    /\ \/ wrapped[u].key = publicKey[u]
       \/ rotating[u] = "created" /\ privateKey[u] # publicKey[u]

BatchIsCurrent(c) ==
    \A u \in rekeyNeeded \ mislaid :
        c \notin mislaid /\ rekeying[c].keys[u] # 0 => rekeying[c].dek = payload

CurrentInv ==
    /\ \A u \in accounts : privateKey[u] <= publicKey[u] /\ newKey[u] <= publicKey[u]
    /\ IsCurrent(draft)
    /\ \A c \in Users : IsCurrent(rekeying[c].keys) /\ IsCurrent(rotation[c].keys)
    /\ \A c \in Users : BatchIsCurrent(c)
    /\ \A u \in holders \ (rekeyNeeded \cup mislaid) : RowIsCurrent(u)

\* What is fetched is current, and so is what is kept of current entries.
LEMMA CurrentEntries ==
    ASSUME TypeOK, NEW S, NEW keys \in [Users -> Version], IsCurrent(keys)
    PROVE  /\ IsCurrent(PublicKeysOf(S))
           /\ IsCurrent(EntriesOf(keys, S))
           /\ IsCurrent(NoKeys)
BY DEF IsCurrent, PublicKeysOf, EntriesOf, NoKeys, TypeOK

LEMMA CurrentBatch ==
    ASSUME TypeOK, NEW stage, NEW dek, NEW keys \in [Users -> Version], IsCurrent(keys)
    PROVE  IsCurrent(Batch(stage, dek, keys).keys)
BY DEF IsCurrent, Batch, NoRekeying, NoKeys, TypeOK

\* A version that comes next is later.
LEMMA NextKeyLater ==
    ASSUME NEW u, publicKey[u] \in Nat
    PROVE  NextKey(u) \in Nat /\ NextKey(u) > publicKey[u]
BY DEF NextKey

\* The steps that write no row, prepare no request and set no flag: those of
\* key pairs, of members, and the ends of requests.
LEMMA CurrentQuiet ==
    ASSUME TypeOK, TypeOK', CurrentInv,
           UNCHANGED <<payload, rekeying, rotation>>,
           draft' = draft \/ draft' = NoKeys,
           accounts' \subseteq accounts, mislaid \subseteq mislaid',
           holders' \subseteq holders,
           \A u \in rekeyNeeded' \ rekeyNeeded : u \in mislaid' \/ u \notin Handled,
           \A u \in holders' \ (rekeyNeeded' \cup mislaid') : u \notin rekeyNeeded /\ RowIsCurrent(u)',
           \A u \in accounts' : privateKey'[u] <= publicKey'[u] /\ newKey'[u] <= publicKey'[u],
           \A u \in accounts' \ mislaid' : publicKey'[u] = publicKey[u] \/ u \notin Handled
    PROVE  CurrentInv'
<1>1. ASSUME NEW u \in accounts' \ mislaid', publicKey'[u] # publicKey[u]
      PROVE  /\ draft[u] = 0
             /\ \A c \in Users : rekeying[c].keys[u] = 0 /\ rotation[c].keys[u] = 0
  <2>1. u \notin Handled /\ u \in Users
    BY <1>1 DEF TypeOK
  <2> QED
    BY <2>1 DEF Handled
<1>2. IsCurrent(draft)'
  BY <1>1 DEF CurrentInv, IsCurrent, NoKeys, TypeOK
<1>3. ASSUME NEW c \in Users
      PROVE  IsCurrent(rekeying[c].keys)' /\ IsCurrent(rotation[c].keys)'
  BY <1>1 DEF CurrentInv, IsCurrent
<1>4. ASSUME NEW c \in Users PROVE BatchIsCurrent(c)'
  <2>1. ASSUME NEW u \in rekeyNeeded' \ mislaid', c \notin mislaid', rekeying[c].keys[u] # 0
        PROVE  rekeying[c].dek = payload
    <3>1. u \in Users
      BY DEF TypeOK
    <3>2. u \in Handled
      BY <2>1, <3>1 DEF Handled
    <3>3. u \in rekeyNeeded \ mislaid /\ c \notin mislaid
      BY <2>1, <3>2
    <3> QED
      BY <2>1, <3>3 DEF CurrentInv, BatchIsCurrent
  <2> QED
    BY <2>1 DEF BatchIsCurrent
<1>5. \A u \in holders' \ (rekeyNeeded' \cup mislaid') : RowIsCurrent(u)'
  OBVIOUS
<1>6. /\ \A u \in accounts' : privateKey'[u] <= publicKey'[u] /\ newKey'[u] <= publicKey'[u]
      /\ \A c \in Users : IsCurrent(rekeying[c].keys)' /\ IsCurrent(rotation[c].keys)'
      /\ \A c \in Users : BatchIsCurrent(c)'
  BY <1>3, <1>4
<1> QED
  BY <1>2, <1>5, <1>6 DEF CurrentInv

\* The rows of a request whose entries are current are.
LEMMA CurrentStored ==
    ASSUME TypeOK, TypeOK', CurrentInv, NEW by, NEW dek, NEW keys \in [Users -> Version],
           StoreRows(by, dek, keys), IsCurrent(keys), rekeyNeeded' = {},
           UNCHANGED <<people, keyPairs, rekeying, mislaid>>,
           draft' \in {draft, NoKeys},
           \A c \in Users : rotation'[c] = rotation[c] \/ rotation'[c] = NoRotation
    PROVE  CurrentInv'
<1>1. /\ UNCHANGED <<accounts, publicKey, privateKey, newKey, rotating>>
      /\ Listed(keys) \subseteq accounts /\ holders' = Listed(keys) /\ payload' = dek
      /\ \A u \in holders' : wrapped'[u] = [dek |-> dek, key |-> keys[u]] /\ keys[u] # 0
  BY DEF StoreRows, people, keyPairs, Listed
<1>2. ASSUME NEW u \in holders' \ (rekeyNeeded' \cup mislaid') PROVE RowIsCurrent(u)'
  <2>1. u \in accounts \ mislaid /\ keys[u] # 0
    BY <1>1
  <2>2. keys[u] = publicKey[u]
    BY <2>1 DEF IsCurrent
  <2>3. wrapped'[u] = [dek |-> dek, key |-> keys[u]]
    BY <1>1
  <2>4. wrapped'[u].dek = dek /\ wrapped'[u].key = keys[u]
    BY <2>3
  <2> QED
    BY <1>1, <2>2, <2>4 DEF RowIsCurrent
<1>3. IsCurrent(draft)'
  BY <1>1 DEF CurrentInv, IsCurrent, NoKeys, TypeOK
<1>4. ASSUME NEW c \in Users
      PROVE  IsCurrent(rekeying[c].keys)' /\ IsCurrent(rotation[c].keys)'
  <2>1. IsCurrent(rekeying[c].keys) /\ IsCurrent(rotation[c].keys)
    BY DEF CurrentInv
  <2>2. CASE rotation'[c] = rotation[c]
    BY <1>1, <2>1, <2>2 DEF IsCurrent
  <2>3. CASE rotation'[c] = NoRotation
    BY <1>1, <2>1, <2>3 DEF IsCurrent, NoRotation, NoRekeying, NoKeys, TypeOK
  <2> QED
    BY <2>2, <2>3
<1>5. \A c \in Users : BatchIsCurrent(c)'
  BY DEF BatchIsCurrent
<1> QED
  BY <1>1, <1>2, <1>3, <1>4, <1>5 DEF CurrentInv

\* A step of one browser's requests alone.
LEMMA CurrentRequests ==
    ASSUME TypeOK, TypeOK', CurrentInv,
           UNCHANGED <<people, keyPairs, payload, holders, wrapped, rekeyNeeded, mislaid>>,
           IsCurrent(draft'),
           \A c \in Users :
               /\ IsCurrent(rekeying'[c].keys) /\ IsCurrent(rotation'[c].keys)
               /\ \A u \in rekeyNeeded \ mislaid :
                     c \notin mislaid /\ rekeying'[c].keys[u] # 0 => rekeying'[c].dek = payload
    PROVE  CurrentInv'
<1>1. UNCHANGED <<accounts, publicKey, privateKey, newKey, rotating>>
  BY DEF people, keyPairs
<1> QED
  BY <1>1 DEF CurrentInv, IsCurrent, BatchIsCurrent, RowIsCurrent

\* A batch keeps the DEK, and some of its entries.
LEMMA CurrentKeep ==
    ASSUME TypeOK, CurrentInv, NEW c \in Users, NEW S, KeepEntries(c, S)
    PROVE  \A d \in Users :
               /\ IsCurrent(rekeying'[d].keys)
               /\ \A u \in Users : rekeying'[d].keys[u] # 0 =>
                      /\ rekeying[d].keys[u] # 0
                      /\ rekeying'[d].dek = rekeying[d].dek
<1> DEFINE keys == EntriesOf(rekeying[c].keys, S)
           batch == Batch("allowed", rekeying[c].dek, keys)
<1>1. /\ rekeying[c].keys \in [Users -> Version]
      /\ IsCurrent(rekeying[c].keys)
      /\ keys \in [Users -> Version]
  BY EntriesType DEF TypeOK, Request, CurrentInv
<1>2. rekeying'[c] = batch /\ \A d \in Users \ {c} : rekeying'[d] = rekeying[d]
  BY DEF KeepEntries, TypeOK
<1>3. IsCurrent(keys)
  BY <1>1, CurrentEntries
<1> HIDE DEF keys
<1>4. IsCurrent(batch.keys)
  BY <1>1, <1>3, CurrentBatch
<1>5. ASSUME NEW u \in Users, batch.keys[u] # 0
      PROVE  keys[u] # 0 /\ batch.dek = rekeying[c].dek
  BY <1>5 DEF Batch, NoRekeying, NoKeys
<1>6. ASSUME NEW u \in Users, keys[u] # 0 PROVE rekeying[c].keys[u] # 0
  BY <1>6 DEF keys, EntriesOf
<1> HIDE DEF batch
<1>7. ASSUME NEW d \in Users
      PROVE  /\ IsCurrent(rekeying'[d].keys)
             /\ \A u \in Users : rekeying'[d].keys[u] # 0 =>
                    rekeying[d].keys[u] # 0 /\ rekeying'[d].dek = rekeying[d].dek
  <2>1. CASE d = c
    BY <1>2, <1>4, <1>5, <1>6, <2>1
  <2>2. CASE d # c
    BY <1>2, <2>2 DEF CurrentInv
  <2> QED
    BY <2>1, <2>2
<1> QED
  BY <1>7

\* One entry of a batch: the row it writes is current, or its owner is mislaid.
LEMMA CurrentSubmit ==
    ASSUME TypeOK, TypeOK', CurrentInv, NEW c \in Users, NEW u \in Users, SubmitRekey(c, u)
    PROVE  CurrentInv'
<1>1. /\ UNCHANGED <<accounts, publicKey, privateKey, newKey, rotating, payload, holders,
                     draft, rotation>>
      /\ rekeyNeeded' = rekeyNeeded \ {u} /\ u \in rekeyNeeded
      /\ mislaid \subseteq mislaid'
      /\ c \in mislaid => u \in mislaid'
      /\ mislaid' \subseteq mislaid \cup {u}
      /\ rekeying[c].keys[u] # 0
  BY DEF SubmitRekey, Mislay, people, keyPairs
<1>2. /\ wrapped'[u] = [dek |-> rekeying[c].dek, key |-> rekeying[c].keys[u]]
      /\ \A v \in Users \ {u} : wrapped'[v] = wrapped[v]
  BY DEF SubmitRekey, TypeOK
<1>s. /\ rekeyNeeded \subseteq holders /\ rekeyNeeded' \subseteq Users
      /\ holders \subseteq accounts /\ holders' \subseteq Users
  BY DEF TypeOK
<1>3. \A d \in Users :
          /\ IsCurrent(rekeying'[d].keys)
          /\ \A v \in Users : rekeying'[d].keys[v] # 0 =>
                 rekeying[d].keys[v] # 0 /\ rekeying'[d].dek = rekeying[d].dek
  BY CurrentKeep DEF SubmitRekey
<1>4. ASSUME NEW v \in holders' \ (rekeyNeeded' \cup mislaid')
      PROVE  RowIsCurrent(v)'
  <2>1. CASE v = u
    <3>1. u \in rekeyNeeded \ mislaid /\ c \notin mislaid /\ u \in accounts
      BY <1>1, <1>4, <1>s, <2>1
    <3>2. rekeying[c].dek = payload /\ rekeying[c].keys[u] = publicKey[u]
      BY <1>1, <3>1 DEF CurrentInv, BatchIsCurrent, IsCurrent
    <3>3. wrapped'[v].dek = rekeying[c].dek /\ wrapped'[v].key = rekeying[c].keys[u]
      BY <1>2, <2>1
    <3> QED
      BY <1>1, <2>1, <3>2, <3>3 DEF RowIsCurrent
  <2>2. CASE v # u
    <3>1. v \in Users /\ v \in holders \ (rekeyNeeded \cup mislaid)
      BY <1>1, <1>4, <1>s, <2>2
    <3>2. RowIsCurrent(v) /\ wrapped'[v] = wrapped[v]
      BY <1>2, <2>2, <3>1 DEF CurrentInv
    <3> QED
      BY <1>1, <3>2 DEF RowIsCurrent
  <2> QED
    BY <2>1, <2>2
<1>5. ASSUME NEW d \in Users PROVE BatchIsCurrent(d)'
  <2>1. ASSUME NEW v \in rekeyNeeded' \ mislaid', d \notin mislaid', rekeying'[d].keys[v] # 0
        PROVE  rekeying'[d].dek = payload
    <3>1. v \in Users /\ v \in rekeyNeeded \ mislaid /\ d \notin mislaid
      BY <1>1, <1>s, <2>1
    <3>2. rekeying[d].keys[v] # 0 /\ rekeying'[d].dek = rekeying[d].dek
      BY <1>3, <2>1, <3>1
    <3> QED
      BY <3>1, <3>2 DEF CurrentInv, BatchIsCurrent
  <2> QED
    BY <1>1, <2>1 DEF BatchIsCurrent
<1>6. /\ \A v \in accounts' : privateKey'[v] <= publicKey'[v] /\ newKey'[v] <= publicKey'[v]
      /\ IsCurrent(draft)'
  BY <1>1 DEF CurrentInv, IsCurrent
<1>7. ASSUME NEW d \in Users
      PROVE  IsCurrent(rekeying[d].keys)' /\ IsCurrent(rotation[d].keys)'
  <2>1. IsCurrent(rekeying'[d].keys) /\ IsCurrent(rotation[d].keys)
    BY <1>3 DEF CurrentInv
  <2> QED
    BY <1>1, <2>1 DEF IsCurrent
<1> QED
  BY <1>4, <1>5, <1>6, <1>7 DEF CurrentInv

\* Every step preserves them.
LEMMA StepCurrent == TypeInv /\ CurrentInv /\ [Next]_vars => CurrentInv'
<1> SUFFICES ASSUME TypeInv, CurrentInv, [Next]_vars PROVE CurrentInv'
  OBVIOUS
<1>a. TypeOK /\ TypeOK'
  BY StepType DEF TypeInv
<1>b. \A c \in Users :
          /\ IsCurrent(rekeying[c].keys) /\ IsCurrent(rotation[c].keys) /\ IsCurrent(draft)
          /\ BatchIsCurrent(c)
  BY DEF CurrentInv
<1>1. ASSUME NEW c \in Users, EncryptForMembers(c) PROVE CurrentInv'
  <2>1. IsCurrent(draft')
    BY <1>1, <1>a, <1>b, CurrentEntries DEF EncryptForMembers, TypeOK
  <2> QED
    BY <1>1, <1>a, <1>b, <2>1, CurrentRequests DEF EncryptForMembers, BatchIsCurrent
<1>2. CASE CreateSecret
  <2>1. rekeyNeeded' = {}
    BY <1>2 DEF CreateSecret, TypeInv, TypeOK
  <2>2. /\ draft \in [Users -> Version] /\ IsCurrent(draft) /\ StoreRows(author, 1, draft)
        /\ UNCHANGED <<people, keyPairs, rekeying, mislaid>>
        /\ draft' \in {draft, NoKeys} /\ rotation' = rotation
    BY <1>2 DEF CreateSecret, CurrentInv, TypeInv, TypeOK
  <2> QED
    BY <1>a, <2>1, <2>2, CurrentStored
<1>3. ASSUME NEW c \in Users, WriteRotation(c) PROVE CurrentInv'
  <2>1. /\ rotation[c].keys \in [Users -> Version] /\ IsCurrent(rotation[c].keys)
        /\ rekeyNeeded' = {} /\ StoreRows({c}, rotation[c].dek, rotation[c].keys)
        /\ UNCHANGED <<people, keyPairs, rekeying, mislaid>>
        /\ draft' \in {draft, NoKeys}
    BY <1>3, <1>a, <1>b DEF WriteRotation, WriteRows, TypeOK, Request
  <2>2. \A d \in Users : rotation'[d] = rotation[d] \/ rotation'[d] = NoRotation
    BY <1>3, <1>a DEF WriteRotation, WriteRows, TypeOK
  <2> QED
    BY <1>a, <2>1, <2>2, CurrentStored
<1>4. ASSUME NEW u \in Users,
             UploadKeys(u) \/ BeginRotateKeys(u) \/ CreateRotatedKey(u)
                \/ FinishRotateKeys(u) \/ FinishRotateKeysUnflagged(u) \/ FailRotateKeys(u)
      PROVE  CurrentInv'
  <2>a. UNCHANGED <<payload, rekeying, rotation, draft, accounts, holders, wrapped>>
    BY <1>4 DEF UploadKeys, BeginRotateKeys, CreateRotatedKey, FinishRotateKeys,
       FinishRotateKeysUnflagged, FailRotateKeys, people, keyRows, clients
  <2>b. /\ u \in DOMAIN publicKey /\ u \in DOMAIN privateKey /\ u \in DOMAIN newKey
        /\ \A v \in Users : publicKey[v] \in Nat /\ privateKey[v] \in Nat /\ newKey[v] \in Nat
        /\ publicKey'[u] \in Nat /\ privateKey'[u] \in Nat /\ newKey'[u] \in Nat
    BY <1>a DEF TypeOK, Version
  <2>c. \A v \in Users \ {u} :
            /\ publicKey'[v] = publicKey[v] /\ privateKey'[v] = privateKey[v]
            /\ newKey'[v] = newKey[v] /\ rotating'[v] = rotating[v]
    BY <1>4, <1>a DEF UploadKeys, BeginRotateKeys, CreateRotatedKey, FinishRotateKeys,
       FinishRotateKeysUnflagged, FailRotateKeys, StoreNewKey, TypeOK, keyPairs
  <2>d. mislaid \subseteq mislaid' /\ rekeyNeeded \subseteq rekeyNeeded'
        /\ rekeyNeeded' \subseteq rekeyNeeded \cup {u}
    BY <1>4 DEF UploadKeys, BeginRotateKeys, CreateRotatedKey, FinishRotateKeys,
       FinishRotateKeysUnflagged, FailRotateKeys, FlagRekeyForUser, Mislay, keyRows, history
  \* The user's row after the step, and the key pair.
  <2>e. /\ u \in accounts => privateKey'[u] <= publicKey'[u] /\ newKey'[u] <= publicKey'[u]
        /\ u \notin mislaid' => publicKey'[u] = publicKey[u] \/ u \notin Handled
        /\ u \in rekeyNeeded' \ rekeyNeeded => u \in mislaid' \/ u \notin Handled
        /\ u \in holders \ (rekeyNeeded' \cup mislaid') =>
              RowIsCurrent(u)' \/ ~RowIsCurrent(u)
    <3>0. u \in accounts => privateKey[u] <= publicKey[u] /\ newKey[u] <= publicKey[u]
      BY DEF CurrentInv
    <3>1. CASE UploadKeys(u)
      BY <3>0, <3>1, <1>a, <2>b, NextKeyLater DEF UploadKeys, Mislay, keyRows, TypeOK
    <3>2. CASE BeginRotateKeys(u)
      BY <3>0, <3>2, <1>a, <2>a, <2>b DEF BeginRotateKeys, RowIsCurrent, keyRows, TypeOK
    <3>3. CASE CreateRotatedKey(u)
      <4>1. NextKey(u) \in Nat /\ NextKey(u) > publicKey[u]
        BY <2>b, NextKeyLater
      <4>2. /\ publicKey'[u] = NextKey(u) /\ newKey'[u] = NextKey(u)
            /\ privateKey'[u] = privateKey[u] /\ rotating'[u] = "created" /\ u \in accounts
            /\ rekeyNeeded' = rekeyNeeded
            /\ u \in Handled => u \in mislaid'
        BY <3>3, <1>a DEF CreateRotatedKey, Mislay, keyRows, TypeOK
      <4> QED
        BY <3>0, <4>1, <4>2, <2>a, <2>b DEF RowIsCurrent
    <3>4. CASE FinishRotateKeys(u)
      BY <3>0, <3>4, <1>a, <2>b
      DEF FinishRotateKeys, StoreNewKey, FlagRekeyForUser, Mislay, TypeOK
    <3>5. CASE FinishRotateKeysUnflagged(u)
      BY <3>0, <3>5, <1>a, <2>b
      DEF FinishRotateKeysUnflagged, StoreNewKey, Mislay, keyRows, TypeOK
    <3>6. CASE FailRotateKeys(u)
      BY <3>0, <3>6, <1>a, <2>a, <2>b DEF FailRotateKeys, RowIsCurrent, keyRows, TypeOK
    <3> QED
      BY <1>4, <3>1, <3>2, <3>3, <3>4, <3>5, <3>6
  <2>f. ASSUME NEW v \in holders' \ (rekeyNeeded' \cup mislaid')
        PROVE  v \notin rekeyNeeded /\ RowIsCurrent(v)'
    <3>1. v \in holders \ (rekeyNeeded \cup mislaid) /\ RowIsCurrent(v) /\ v \in Users
      BY <1>a, <2>a, <2>d DEF CurrentInv, TypeOK
    <3>2. CASE v = u
      BY <2>a, <2>e, <3>1, <3>2
    <3>3. CASE v # u
      BY <2>a, <2>c, <3>1, <3>3 DEF RowIsCurrent
    <3> QED
      BY <3>1, <3>2, <3>3
  <2>g. ASSUME NEW v \in accounts'
        PROVE  /\ privateKey'[v] <= publicKey'[v] /\ newKey'[v] <= publicKey'[v]
               /\ v \notin mislaid' => publicKey'[v] = publicKey[v] \/ v \notin Handled
    BY <1>a, <2>a, <2>c, <2>e DEF CurrentInv, TypeOK
  <2>h. \A v \in rekeyNeeded' \ rekeyNeeded : v \in mislaid' \/ v \notin Handled
    BY <2>d, <2>e
  <2> QED
    BY <1>a, <2>a, <2>d, <2>f, <2>g, <2>h, CurrentQuiet
\* The steps that leave every key pair of an account alone.
<1>5. ASSUME NEW u \in Users, JoinGroup(u) \/ RemoveMemberTx(u) \/ DeleteAccount(u)
      PROVE  CurrentInv'
  <2>1. /\ UNCHANGED <<payload, rekeying, rotation, draft, mislaid, privateKey, newKey, rotating>>
        /\ accounts' \subseteq accounts /\ holders' \subseteq holders
        /\ rekeyNeeded' \subseteq rekeyNeeded
        /\ rekeyNeeded \cap holders' \subseteq rekeyNeeded'
    BY <1>5, <1>a DEF JoinGroup, RemoveMemberTx, RevokeGroupSecretKeysForUser, DeleteRows,
       DeleteAccount, keyPairs, keyRows, clients, history, TypeOK
  <2>2. /\ \A v \in accounts' : publicKey'[v] = publicKey[v]
        /\ \A v \in holders' : wrapped'[v] = wrapped[v] /\ publicKey'[v] = publicKey[v]
    BY <1>5, <1>a DEF JoinGroup, RemoveMemberTx, RevokeGroupSecretKeysForUser, DeleteRows,
       DeleteAccount, keyPairs, keyRows, TypeOK
  <2>3. ASSUME NEW v \in holders' \ (rekeyNeeded' \cup mislaid')
        PROVE  v \notin rekeyNeeded /\ RowIsCurrent(v)'
    <3>1. v \in holders \ (rekeyNeeded \cup mislaid) /\ RowIsCurrent(v)
      BY <2>1 DEF CurrentInv
    <3> QED
      BY <2>1, <2>2, <3>1 DEF RowIsCurrent
  <2>4. \A v \in accounts' : privateKey'[v] <= publicKey'[v] /\ newKey'[v] <= publicKey'[v]
    BY <2>1, <2>2 DEF CurrentInv
  <2> QED
    BY <1>a, <2>1, <2>2, <2>3, <2>4, CurrentQuiet
<1>6. CASE DropDraft
  <2>1. /\ UNCHANGED <<payload, rekeying, rotation, accounts, holders, wrapped, rekeyNeeded,
                       mislaid, publicKey, privateKey, newKey, rotating>>
        /\ draft' = NoKeys
    BY <1>6 DEF DropDraft, people, keyPairs, history
  <2>2. \A v \in holders' \ (rekeyNeeded' \cup mislaid') : v \notin rekeyNeeded /\ RowIsCurrent(v)'
    BY <2>1 DEF CurrentInv, RowIsCurrent
  <2>3. \A v \in accounts' : privateKey'[v] <= publicKey'[v] /\ newKey'[v] <= publicKey'[v]
    BY <2>1 DEF CurrentInv
  <2> QED
    BY <1>a, <2>1, <2>2, <2>3, CurrentQuiet
<1>7. ASSUME NEW c \in Users, PerformRekeys(c) PROVE CurrentInv'
  <2> DEFINE keys == PublicKeysOf(PendingRekeys(c))
             batch == Batch("prepared", wrapped[c].dek, keys)
  <2>1. /\ keys \in [Users -> Version] /\ IsCurrent(keys)
    BY <1>a, <1>b, CurrentEntries, EntriesType DEF PublicKeysOf, TypeOK
  <2>2. c \notin mislaid => wrapped[c].dek = payload
    <3>1. c \in holders \ rekeyNeeded
      BY <1>7 DEF PerformRekeys, PendingRekeys
    <3> QED
      BY <3>1 DEF CurrentInv, RowIsCurrent
  <2>3. rekeying'[c] = batch /\ \A d \in Users \ {c} : rekeying'[d] = rekeying[d]
    BY <1>7, <1>a DEF PerformRekeys, TypeOK
  <2> HIDE DEF keys
  <2>4. IsCurrent(batch.keys)
    BY <1>a, <2>1, CurrentBatch
  <2>5. \A u \in Users : batch.keys[u] # 0 => batch.dek = wrapped[c].dek
    BY DEF Batch, NoRekeying, NoKeys
  <2> HIDE DEF batch
  <2>6. ASSUME NEW d \in Users
        PROVE  /\ IsCurrent(rekeying'[d].keys)
               /\ \A u \in rekeyNeeded \ mislaid :
                     d \notin mislaid /\ rekeying'[d].keys[u] # 0 => rekeying'[d].dek = payload
    <3>1. rekeyNeeded \subseteq Users
      BY <1>a DEF TypeOK
    <3>2. CASE d = c
      BY <2>2, <2>3, <2>4, <2>5, <3>1, <3>2
    <3>3. CASE d # c
      BY <1>b, <2>3, <3>3 DEF BatchIsCurrent
    <3> QED
      BY <3>2, <3>3
  <2>7. /\ UNCHANGED <<people, keyPairs, payload, holders, wrapped, rekeyNeeded, mislaid>>
        /\ draft' = draft /\ rotation' = rotation
    BY <1>7 DEF PerformRekeys, keyRows, history
  <2> QED
    BY <1>a, <1>b, <2>6, <2>7, CurrentRequests
<1>8. ASSUME NEW c \in Users, NEW S, KeepEntries(c, S),
             UNCHANGED <<people, keyPairs, keyRows, draft, rotation, history>>
      PROVE  CurrentInv'
  <2>1. \A d \in Users :
            /\ IsCurrent(rekeying'[d].keys)
            /\ \A u \in Users : rekeying'[d].keys[u] # 0 =>
                   rekeying[d].keys[u] # 0 /\ rekeying'[d].dek = rekeying[d].dek
    BY <1>8, <1>a, CurrentKeep
  <2>2. ASSUME NEW d \in Users, NEW u \in rekeyNeeded \ mislaid,
               d \notin mislaid, rekeying'[d].keys[u] # 0
        PROVE  rekeying'[d].dek = payload
    BY <1>a, <1>b, <2>1, <2>2 DEF BatchIsCurrent, TypeOK
  <2>3. UNCHANGED <<people, keyPairs, payload, holders, wrapped, rekeyNeeded, mislaid>>
    BY <1>8 DEF keyRows, history
  <2> QED
    BY <1>8, <1>a, <1>b, <2>1, <2>2, <2>3, CurrentRequests
<1>9. ASSUME NEW c \in Users, NEW u \in Users,
             AuthorizeRekeys(c) \/ SubmitRekey(c, u) \/ SkipRekey(c, u)
      PROVE  CurrentInv'
  BY <1>9, <1>8, <1>a, CurrentSubmit DEF AuthorizeRekeys, SkipRekey
<1>10. ASSUME NEW c \in Users, DropRekeys(c) PROVE CurrentInv'
  <2>1. \A d \in Users : rekeying'[d] = rekeying[d] \/ rekeying'[d] = NoRekeying
    BY <1>10, <1>a DEF DropRekeys, TypeOK
  <2>2. IsCurrent(NoRekeying.keys) /\ \A u \in Users : NoRekeying.keys[u] = 0
    BY <1>a DEF IsCurrent, NoRekeying, NoKeys, TypeOK
  <2>3. /\ UNCHANGED <<people, keyPairs, payload, holders, wrapped, rekeyNeeded, mislaid>>
        /\ draft' = draft /\ rotation' = rotation
    BY <1>10 DEF DropRekeys, keyRows, history
  <2>4. ASSUME NEW d \in Users
        PROVE  /\ IsCurrent(rekeying'[d].keys)
               /\ \A u \in rekeyNeeded \ mislaid :
                     d \notin mislaid /\ rekeying'[d].keys[u] # 0 => rekeying'[d].dek = payload
    BY <1>a, <1>b, <2>1, <2>2 DEF BatchIsCurrent, TypeOK
  <2> QED
    BY <1>a, <1>b, <2>3, <2>4, CurrentRequests
\* A rotation starts, or goes on, with current entries.
<1>11. ASSUME NEW c \in Users, NEW stage, NEW dek, NEW keys \in [Users -> Version],
              IsCurrent(keys),
              rotation' = [rotation EXCEPT ![c] = Batch(stage, dek, keys)],
              UNCHANGED <<people, keyPairs, keyRows, draft, rekeying, history>>
       PROVE  CurrentInv'
  <2>1. IsCurrent(Batch(stage, dek, keys).keys)
    BY <1>11, <1>a, CurrentBatch
  <2>2. \A d \in Users : IsCurrent(rotation'[d].keys)
    BY <1>11, <1>a, <1>b, <2>1 DEF TypeOK
  <2>3. /\ UNCHANGED <<people, keyPairs, payload, holders, wrapped, rekeyNeeded, mislaid>>
        /\ draft' = draft /\ rekeying' = rekeying
    BY <1>11 DEF keyRows, history
  <2> QED
    BY <1>a, <1>b, <2>2, <2>3, CurrentRequests DEF BatchIsCurrent
<1>12. ASSUME NEW c \in Users, PrepareRotation(c) PROVE CurrentInv'
  <2>1. PendingRotation(c) \in [Users -> Version] /\ IsCurrent(PendingRotation(c))
    BY <1>a, <1>b, CurrentEntries, EntriesType DEF PendingRotation, PublicKeysOf, TypeOK
  <2> QED
    BY <1>11, <1>12, <2>1 DEF PrepareRotation
<1>13. ASSUME NEW c \in Users, CheckRotation(c) PROVE CurrentInv'
  <2>1. PICK S : rotation' = [rotation EXCEPT ![c] =
                    Batch("checked", rotation[c].dek, EntriesOf(rotation[c].keys, S))]
    BY <1>13 DEF CheckRotation
  <2>2. rotation[c].keys \in [Users -> Version] /\ IsCurrent(rotation[c].keys)
    BY <1>a, <1>b DEF TypeOK, Request
  <2>3. /\ EntriesOf(rotation[c].keys, S) \in [Users -> Version]
        /\ IsCurrent(EntriesOf(rotation[c].keys, S))
    BY <1>a, <2>2, CurrentEntries, EntriesType
  <2> QED
    BY <1>11, <1>13, <2>1, <2>3 DEF CheckRotation
<1>14. ASSUME NEW c \in Users, AbortRotation(c) PROVE CurrentInv'
  <2>1. NoKeys \in [Users -> Version] /\ IsCurrent(NoKeys)
    BY <1>a, NoTypes DEF IsCurrent, NoKeys, TypeOK
  <2>2. NoRotation = Batch("idle", 0, NoKeys)
    BY DEF NoRotation, Batch
  <2> QED
    BY <1>11, <1>14, <2>1, <2>2 DEF AbortRotation
<1>15. CASE UNCHANGED vars
  <2>1. UNCHANGED <<people, keyPairs, keyRows, draft, rekeying, rotation, mislaid>>
    BY <1>15 DEF vars, clients, history
  <2>2. UNCHANGED <<people, keyPairs, payload, holders, wrapped, rekeyNeeded, mislaid>>
    BY <2>1 DEF keyRows
  <2>3. IsCurrent(draft')
    BY <2>1 DEF CurrentInv
  <2>4. \A c \in Users :
            /\ IsCurrent(rekeying'[c].keys) /\ IsCurrent(rotation'[c].keys)
            /\ \A u \in rekeyNeeded \ mislaid :
                  c \notin mislaid /\ rekeying'[c].keys[u] # 0 => rekeying'[c].dek = payload
    BY <1>b, <2>1 DEF BatchIsCurrent
  <2> QED
    BY <1>a, <2>2, <2>3, <2>4, CurrentRequests
<1> QED
  BY <1>1, <1>2, <1>3, <1>4, <1>5, <1>6, <1>7, <1>9, <1>10, <1>12, <1>13, <1>14, <1>15
  DEF Next, Leave, BlockMember

\* In every reachable state a holder whose row does not ask for a re-key, who
\* was not mislaid and whose browser has the current key pair can decrypt the
\* current payload.
THEOREM UnflaggedHolderInvariant == Spec => []UnflaggedHolderCanDecrypt
<1>1. Init => CurrentInv
  <2> SUFFICES ASSUME Init PROVE CurrentInv
    OBVIOUS
  <2>1. /\ \A u \in Users : publicKey[u] \in {0, 1} /\ newKey[u] = 0 /\ privateKey[u] = publicKey[u]
        /\ accounts = Users /\ holders = {} /\ rekeyNeeded = {} /\ draft = NoKeys
        /\ \A c \in Users : rekeying[c].keys = NoKeys /\ rotation[c].keys = NoKeys
    BY DEF Init, NoRotation, NoRekeying, NoKeys
  <2> QED
    BY <2>1 DEF CurrentInv, IsCurrent, BatchIsCurrent, NoKeys
<1>2. CurrentInv => UnflaggedHolderCanDecrypt
  BY DEF CurrentInv, UnflaggedHolderCanDecrypt, RowIsCurrent, HasCurrentKey, CanDecrypt, CanUnwrap
<1> QED
  BY InitType, StepType, StepCurrent, <1>1, <1>2, PTL DEF Spec
-----------------------------------------------------------------------------
(* Notifications, the queue that a rotation of keys writes to.             *)

USE DEF At

\* A set of natural numbers has a least element.
LEMMA LeastNumber ==
    ASSUME NEW S \in SUBSET Nat, S # {}
    PROVE  Min(S) \in S
<1> DEFINE Below == {0 .. n : n \in S}
<1>1. Below \subseteq FiniteSubsetsOf(Nat) /\ Below # {}
  <2>1. \A n \in S : 0 .. n \in FiniteSubsetsOf(Nat)
    <3>1. TAKE n \in S
    <3>2. n \in Int /\ 0 .. n \subseteq Nat /\ IsFiniteSet(0 .. n)
      BY FS_Interval
    <3> QED BY <3>2 DEF FiniteSubsetsOf
  <2> QED BY <2>1
<1>2. PICK b \in Below : \A c \in Below : <<c, b>> \notin StrictSubsetOrdering(Nat)
  <2> HIDE DEF Below
  <2> QED BY <1>1, FS_StrictSubsetOrderingWellFounded, WFMin
<1>3. PICK x \in S : b = 0 .. x
  OBVIOUS
<1>4. \A y \in S : x <= y
  <2>1. SUFFICES ASSUME NEW y \in S, y < x PROVE FALSE
    OBVIOUS
  <2>2. (0 .. y) \subseteq (0 .. x) /\ 0 .. y # 0 .. x
    BY <2>1
  <2>3. <<0 .. y, 0 .. x>> \in StrictSubsetOrdering(Nat)
    BY <2>2 DEF StrictSubsetOrdering
  <2> QED BY <1>2, <1>3, <2>3
<1> QED BY <1>4 DEF Min

LEMMA QueueFirst ==
    ASSUME QueueTypeOK, NEW w \in Workers, ~At(w, "idle")
    PROVE  /\ First(w) \in work[w].rows /\ First(w) \in Rows
           /\ status[First(w)] # "none"
<1>1. work[w].rows \subseteq Rows /\ work[w].rows # {}
  BY DEF QueueTypeOK, WorkOK, Work
<1>2. First(w) \in work[w].rows
  BY <1>1, LeastNumber DEF First, Rows
<1> QED BY <1>1, <1>2 DEF QueueTypeOK, WorkOK

\* What the ways of going on leave of a worker's rows.
LEMMA QueueDone ==
    ASSUME QueueTypeOK, NEW w \in Workers, ~At(w, "idle"), Done(w)
    PROVE  /\ DOMAIN work' = Workers /\ \A v \in Workers \ {w} : work'[v] = work[v]
           /\ work'[w] \in Work /\ work'[w].at \in {"idle", "next"}
           /\ work'[w].rows = work[w].rows \ {First(w)}
           /\ work'[w].at # "idle" => work'[w].rows # {}
<1> DEFINE rest == work[w].rows \ {First(w)}
<1>1. DOMAIN work = Workers /\ rest \subseteq Rows
  BY DEF QueueTypeOK, WorkOK, Work
<1>2. work' = [work EXCEPT ![w] = IF rest = {} THEN Idle ELSE BatchOf(rest)]
  BY DEF Done
<1>3. work'[w] = IF rest = {} THEN Idle ELSE BatchOf(rest)
  BY <1>1, <1>2
<1> HIDE DEF rest
<1>4. /\ work'[w] \in Work /\ work'[w].at \in {"idle", "next"}
      /\ work'[w].rows = rest
      /\ work'[w].at # "idle" => work'[w].rows # {}
  BY <1>1, <1>3 DEF Idle, BatchOf, Work, Step
<1> QED BY <1>1, <1>2, <1>4 DEF rest

LEMMA QueueGo ==
    ASSUME QueueTypeOK, NEW w \in Workers, NEW step \in Step, NEW todo \in SUBSET Addressees,
           Go(w, step, todo)
    PROVE  /\ DOMAIN work' = Workers /\ \A v \in Workers \ {w} : work'[v] = work[v]
           /\ work'[w] \in Work /\ work'[w].at = step /\ work'[w].todo = todo
           /\ work'[w].rows = work[w].rows /\ First(w)' = First(w)
<1>1. DOMAIN work = Workers /\ work[w] \in Work
  BY DEF QueueTypeOK, WorkOK
<1>2. work'[w] = [work[w] EXCEPT !.at = step, !.todo = todo]
      /\ DOMAIN work' = Workers /\ \A v \in Workers \ {w} : work'[v] = work[v]
  BY <1>1 DEF Go
<1>3. work'[w] = [at |-> step, rows |-> work[w].rows, todo |-> todo]
  BY <1>1, <1>2 DEF Work
<1> QED BY <1>1, <1>2, <1>3 DEF Work, First

\* What every step leaves of the rows that are not free.
QueueKept ==
    \A r \in Rows : status[r] # "none" =>
        status'[r] # "none" /\ user'[r] = user[r] /\ topic'[r] = topic[r]

LEMMA QueueEnqueue ==
    ASSUME QueueTypeOK, NEW u \in Addressees \cup {None}, NEW t \in Topics,
           u = None => t \in Rotations, Enqueue(u, t),
           recent' = recent, mailed' = mailed
    PROVE  /\ QueueKept /\ \A r \in Rows : RowOK(r)'
           /\ DOMAIN status' = Rows /\ DOMAIN user' = Rows /\ DOMAIN topic' = Rows
           /\ \A r \in Rows : status[r] # "none" => status'[r] = status[r]
           /\ \A r \in Rows : status'[r] = "sent" => status[r] = "sent"
           /\ \E r \in Rows : user'[r] = u /\ topic'[r] = t
           /\ \A r \in Rows : user[r] # None => user'[r] = user[r] /\ topic'[r] = topic[r]
<1> DEFINE r == Min(Free)
<1>1. r \in Free
  BY LeastNumber DEF Enqueue, Free, Rows
<1>2. /\ status' = [status EXCEPT ![r] = "queued"]
      /\ user' = [user EXCEPT ![r] = u] /\ topic' = [topic EXCEPT ![r] = t]
  BY DEF Enqueue
<1> HIDE DEF r
<1>3. r \in Rows /\ status[r] = "none"
  BY <1>1 DEF Free
<1>4. user[r] = None /\ r \notin recent \cup mailed
  BY <1>3 DEF QueueTypeOK, RowOK
<1>5. /\ DOMAIN status' = Rows /\ DOMAIN user' = Rows /\ DOMAIN topic' = Rows
      /\ status'[r] = "queued" /\ user'[r] = u /\ topic'[r] = t
      /\ \A q \in Rows \ {r} :
             status'[q] = status[q] /\ user'[q] = user[q] /\ topic'[q] = topic[q]
  BY <1>2, <1>3 DEF QueueTypeOK
<1>6. ASSUME NEW q \in Rows
      PROVE  RowOK(q)'
  BY <1>4, <1>5 DEF QueueTypeOK, RowOK
<1> QED BY <1>3, <1>4, <1>5, <1>6 DEF QueueKept

\* A worker's first row gets another status, or none, and the worker goes on.
QueueSettles(w) ==
    /\ Done(w)
    /\ user' = user /\ topic' = topic /\ DOMAIN status' = Rows
    /\ \A r \in Rows \ {First(w)} : status'[r] = status[r]
    /\ status'[First(w)] \in {status[First(w)], "sent", "failed"}
    /\ recent' \subseteq recent \cup {First(w)}
    /\ loose \subseteq loose'

LEMMA QueueAccept ==
    ASSUME QueueTypeOK, NEW w \in Workers, ~At(w, "idle"),
           NEW hash, Accept(w, hash)
    PROVE  /\ QueueSettles(w)
           /\ mailed' = mailed /\ unlisted' = unlisted /\ twice' = twice
           /\ status'[First(w)] = "sent" \/ Key(First(w)) \in loose'
           /\ status' = status \/ status'[First(w)] = "sent"
BY QueueFirst DEF Accept, Ack, table, QueueSettles, QueueTypeOK

LEMMA QueueRefuse ==
    ASSUME QueueTypeOK, NEW w \in Workers, ~At(w, "idle"),
           Refuse(w)
    PROVE  /\ QueueSettles(w)
           /\ mailed' = mailed /\ unlisted' = unlisted /\ twice' = twice /\ recent' = recent
           /\ status[First(w)] = "sent" => Key(First(w)) \in loose'
           /\ status' = status \/ status'[First(w)] = "failed"
BY QueueFirst DEF Refuse, Nack, table, QueueSettles, QueueTypeOK
-----------------------------------------------------------------------------
(* Types of the queue.                                                     *)

\* A worker that a step passes by.
LEMMA QueuePassed ==
    ASSUME QueueTypeOK, NEW w \in Workers, work'[w] = work[w], QueueKept,
           mailed \subseteq mailed'
    PROVE  WorkOK(w)'
<1>1. WorkOK(w) /\ (~At(w, "idle") =>
          First(w) \in Rows /\ status[First(w)] # "none")
  BY QueueFirst DEF QueueTypeOK
<1>2. First(w)' = First(w)
  BY DEF First
<1> QED BY <1>1, <1>2 DEF WorkOK, Work, QueueKept

LEMMA QueueTypeSettles ==
    ASSUME QueueTypeOK, NEW w \in Workers, ~At(w, "idle"),
           QueueSettles(w), mailed \subseteq mailed',
           mailed' \subseteq mailed \cup {First(w)}
    PROVE  QueueTypeOK' /\ QueueKept
<1> DEFINE f == First(w)
<1>1. f \in work[w].rows /\ f \in Rows /\ status[f] # "none"
  BY QueueFirst
<1> HIDE DEF f
<1>2. /\ user' = user /\ topic' = topic
      /\ \A r \in Rows \ {f} : status'[r] = status[r]
      /\ status'[f] \in {status[f], "sent", "failed"}
      /\ recent' \subseteq recent \cup {f} /\ mailed' \subseteq mailed \cup {f}
  BY DEF QueueSettles, f
<1>3. QueueKept
  BY <1>1, <1>2 DEF QueueKept
<1>4. ASSUME NEW r \in Rows
      PROVE  RowOK(r)'
  BY <1>1, <1>2 DEF QueueTypeOK, RowOK
<1>5. WorkOK(w)'
  <2>1. /\ work'[w] \in Work /\ work'[w].at \in {"idle", "next"}
        /\ work'[w].rows \subseteq work[w].rows
        /\ work'[w].at # "idle" => work'[w].rows # {}
    BY QueueDone DEF QueueSettles
  <2>2. \A r \in work'[w].rows : r \in Rows /\ status[r] # "none"
    BY <2>1 DEF QueueTypeOK, WorkOK, Work
  <2> QED BY <1>3, <2>1, <2>2 DEF WorkOK, QueueKept
<1>6. DOMAIN work' = Workers /\ \A v \in Workers \ {w} : WorkOK(v)'
  BY <1>3, QueueDone, QueuePassed DEF QueueSettles
<1>7. /\ DOMAIN status' = Rows /\ DOMAIN user' = Rows /\ DOMAIN topic' = Rows
      /\ recent' \subseteq Rows /\ mailed' \subseteq Rows
  BY <1>1, <1>2 DEF QueueTypeOK, QueueSettles
<1> QED BY <1>3, <1>4, <1>5, <1>6, <1>7 DEF QueueTypeOK, Rows

\* A step of one worker that leaves it its rows.
LEMMA QueueTypeGoes ==
    ASSUME QueueTypeOK, NEW w \in Workers, ~At(w, "idle"),
           NEW step \in Step \ {"idle"}, NEW todo \in SUBSET Addressees, Go(w, step, todo),
           QueueKept, \A r \in Rows : RowOK(r)',
           DOMAIN status' = Rows, DOMAIN user' = Rows, DOMAIN topic' = Rows,
           recent' \subseteq Rows, mailed' \subseteq Rows, mailed \subseteq mailed',
           step = "fanning" => user[First(w)] = None,
           step \in {"sending", "mailed"} => user[First(w)] \in Addressees \ Blocked,
           step = "mailed" => First(w) \in mailed'
    PROVE  QueueTypeOK'
<1>1. DOMAIN work' = Workers /\ \A v \in Workers \ {w} : work'[v] = work[v]
  BY QueueGo
<1>2. /\ work'[w] \in Work /\ work'[w].at = step
      /\ work'[w].rows = work[w].rows /\ First(w)' = First(w)
  BY QueueGo
<1>3. /\ First(w) \in work[w].rows /\ First(w) \in Rows
      /\ status[First(w)] # "none"
  BY QueueFirst
<1>4. \A r \in work[w].rows : r \in Rows /\ status[r] # "none"
  BY DEF QueueTypeOK, WorkOK, Work
<1>5. WorkOK(w)'
  BY <1>2, <1>3, <1>4 DEF WorkOK, QueueKept
<1>6. \A v \in Workers \ {w} : WorkOK(v)'
  BY <1>1, QueuePassed
<1> QED BY <1>1, <1>5, <1>6 DEF QueueTypeOK, Rows

LEMMA QueueTypeQuiet ==
    ASSUME QueueTypeOK, work' = work, QueueKept, mailed' = mailed,
           \A r \in Rows : RowOK(r)',
           DOMAIN status' = Rows, DOMAIN user' = Rows, DOMAIN topic' = Rows,
           recent' \subseteq Rows
    PROVE  QueueTypeOK'
<1>1. \A w \in Workers : WorkOK(w)'
  BY QueuePassed
<1> QED BY <1>1 DEF QueueTypeOK, Rows

\* The table stays as it is.
LEMMA QueueSame ==
    ASSUME QueueTypeOK, UNCHANGED table, recent' \subseteq recent, mailed' = mailed
    PROVE  /\ QueueKept /\ \A r \in Rows : RowOK(r)'
           /\ DOMAIN status' = Rows /\ DOMAIN user' = Rows /\ DOMAIN topic' = Rows
           /\ recent' \subseteq Rows
BY DEF QueueTypeOK, table, RowOK, QueueKept

\* A worker is done with its first row: it sent it before or now, or skips it,
\* or the row is refused.
QueueReason(w) ==
    LET f == First(w)
    IN \/ At(w, "fanning") /\ work[w].todo = {}
       \/ user[f] \in Blocked
       \/ user[f] \in Addressees /\ WasSentRecently(f)
       \/ /\ user[f] \in Addressees
          /\ \E text \in Texts(topic[f]) : WasContentSentRecently(f, text)
       \/ At(w, "mailed")
\* The hash it is sent with.
QueueHash(w, hash) ==
    \/ hash = None
    \/ hash \in Texts(topic[First(w)]) /\ WasContentSentRecently(First(w), hash)
    \/ At(w, "mailed") /\ hash = body[w]
QueueAccepts(w) ==
    ~At(w, "idle") /\ QueueReason(w) /\ \E hash : QueueHash(w, hash) /\ Accept(w, hash)
QueueRefuses(w) == Refuse(w) /\ work[w].at \in {"next", "sending"}

\* The steps of the queue by what they change.
QueueStep(w) ==
    \/ Dequeue(w)
    \/ FanOut(w) \/ Prepare(w) \/ Send(w)
    \/ \E u \in Addressees : FanOutUser(w, u)
    \/ QueueAccepts(w)
    \/ QueueRefuses(w)
    \/ SendTimesOut(w)
    \/ Crash(w)

LEMMA QueueCases ==
    ASSUME QueueNext
    PROVE  \/ \E u \in Addressees \cup {None}, t \in Topics :
                  (u = None => t \in Rotations) /\ QueueRow(u, t)
           \/ \E r \in Rows : Forget(r)
           \/ \E w \in Workers : QueueStep(w)
<1>1. None \notin Addressees /\ Verified \subseteq Addressees
  BY NoneAssumption, TopicsAssumption
<1>2. ASSUME NEW w \in Workers, Handle(w)
      PROVE  QueueStep(w)
  <2>1. CASE \/ FanOutEnds(w) \/ SkipBlocked(w) \/ SkipLimited(w)
             \/ SkipDuplicate(w) \/ Record(w)
    <3>1. QueueAccepts(w)
      BY <2>1 DEF FanOutEnds, SkipBlocked, SkipLimited, SkipDuplicate,
                  Record, QueueAccepts, QueueReason, QueueHash
    <3> QED BY <3>1 DEF QueueStep
  <2> QED BY <1>2, <2>1 DEF Handle, QueueStep
<1>3. ASSUME NEW w \in Workers, FanOutFails(w) \/ CheckFails(w) \/ SendFails(w)
      PROVE  QueueStep(w)
  <2>1. QueueRefuses(w)
    BY <1>3 DEF FanOutFails, CheckFails, SendFails, QueueRefuses
  <2> QED BY <2>1 DEF QueueStep
<1>4. ASSUME NEW w \in Workers, Dequeue(w) \/ SendTimesOut(w) \/ Crash(w)
      PROVE  QueueStep(w)
  BY <1>4 DEF QueueStep
<1>5. ASSUME NEW u \in Verified, NEW t \in Regions, QueueVerificationComplete(u, t)
      PROVE  \E v \in Addressees \cup {None}, s \in Topics :
                 (v = None => s \in Rotations) /\ QueueRow(v, s)
  BY <1>1, <1>5 DEF QueueVerificationComplete, Topics
<1>6. ASSUME NEW t \in Rotations, QueueRekeyingNeededEvent(t)
      PROVE  \E v \in Addressees \cup {None}, s \in Topics :
                 (v = None => s \in Rotations) /\ QueueRow(v, s)
  BY <1>6 DEF QueueRekeyingNeededEvent, Topics
<1> QED BY <1>2, <1>3, <1>4, <1>5, <1>6 DEF QueueNext

LEMMA QueueTypeRequest ==
    ASSUME QueueTypeOK, NEW u \in Addressees \cup {None}, NEW t \in Topics,
           u = None => t \in Rotations, QueueRow(u, t)
    PROVE  QueueTypeOK'
<1>1. recent' = recent /\ mailed' = mailed /\ work' = work /\ Enqueue(u, t)
  BY DEF QueueRow, mailHistory
<1>2. recent' \subseteq Rows
  BY <1>1 DEF QueueTypeOK
<1> QED BY <1>1, <1>2, QueueEnqueue, QueueTypeQuiet

LEMMA QueueTypeDequeue ==
    ASSUME QueueTypeOK, NEW w \in Workers, Dequeue(w)
    PROVE  QueueTypeOK'
<1> DEFINE S == Oldest(Queued)
<1>1. /\ S # {} /\ S \subseteq Queued
      /\ work' = [work EXCEPT ![w] = BatchOf(S)]
      /\ UNCHANGED table /\ recent' = recent /\ mailed' = mailed
  BY DEF Dequeue, Oldest
<1> HIDE DEF S
<1>2. \A r \in S : r \in Rows /\ status[r] # "none"
  BY <1>1 DEF Queued
<1>3. DOMAIN work' = Workers /\ work'[w] = BatchOf(S)
      /\ \A v \in Workers \ {w} : work'[v] = work[v]
  BY <1>1 DEF QueueTypeOK
<1>4. WorkOK(w)'
  BY <1>1, <1>2, <1>3 DEF WorkOK, BatchOf, Work, Step, table
<1>5. /\ QueueKept /\ \A r \in Rows : RowOK(r)'
      /\ DOMAIN status' = Rows /\ DOMAIN user' = Rows /\ DOMAIN topic' = Rows
      /\ recent' \subseteq Rows
  BY <1>1, QueueSame
<1>6. \A v \in Workers \ {w} : WorkOK(v)'
  BY <1>1, <1>3, <1>5, QueuePassed
<1> QED BY <1>1, <1>3, <1>4, <1>5, <1>6 DEF QueueTypeOK, Rows

LEMMA QueueFanOutFacts ==
    ASSUME QueueTypeOK, NEW w \in Workers, ~At(w, "idle"),
           user[First(w)] = None
    PROVE  topic[First(w)] \in Rotations /\ Sharers[topic[First(w)]] \subseteq Addressees
<1>1. topic[First(w)] \in Rotations
  BY QueueFirst DEF QueueTypeOK, RowOK
<1> QED BY <1>1, TopicsAssumption

LEMMA QueueTypeFanOutUser ==
    ASSUME QueueTypeOK, NEW w \in Workers, NEW u \in Addressees,
           FanOutUser(w, u)
    PROVE  QueueTypeOK'
<1>1. /\ At(w, "fanning") /\ recent' = recent /\ mailed' = mailed
      /\ Go(w, "fanning", work[w].todo \ {u})
      /\ user[First(w)] = None
  BY DEF FanOutUser, QueueTypeOK, WorkOK
<1>2. topic[First(w)] \in Topics /\ u # None
  BY <1>1, QueueFanOutFacts, NoneAssumption DEF Topics
<1>3. /\ QueueKept /\ \A r \in Rows : RowOK(r)'
      /\ DOMAIN status' = Rows /\ DOMAIN user' = Rows /\ DOMAIN topic' = Rows
  <2>1. CASE Enqueue(u, topic[First(w)])
    BY <1>1, <1>2, <2>1, QueueEnqueue
  <2>2. CASE UNCHANGED table
    BY <1>1, <2>2, QueueSame
  <2> QED BY <2>1, <2>2 DEF FanOutUser
<1>4. work[w].todo \ {u} \in SUBSET Addressees
  BY DEF QueueTypeOK, WorkOK, Work
<1>5. recent' \subseteq Rows /\ mailed' \subseteq Rows /\ mailed \subseteq mailed'
  BY <1>1 DEF QueueTypeOK
<1> QED BY <1>1, <1>3, <1>4, <1>5, QueueTypeGoes DEF Step

LEMMA QueueTypeGone ==
    ASSUME QueueTypeOK, NEW w \in Workers,
           FanOut(w) \/ Prepare(w) \/ Send(w)
    PROVE  QueueTypeOK'
<1>1. UNCHANGED table /\ ~At(w, "idle")
  BY DEF FanOut, Prepare, Send
<1>2. /\ QueueKept
      /\ DOMAIN status' = Rows /\ DOMAIN user' = Rows /\ DOMAIN topic' = Rows
  BY <1>1 DEF table, QueueKept, QueueTypeOK
<1>3. CASE FanOut(w)
  <2>1. recent' = recent /\ mailed' = mailed /\ user[First(w)] = None
        /\ Go(w, "fanning", Sharers[topic[First(w)]])
    BY <1>3 DEF FanOut, mailHistory
  <2>2. /\ \A r \in Rows : RowOK(r)'
        /\ recent' \subseteq Rows /\ mailed' \subseteq Rows
        /\ mailed \subseteq mailed'
    BY <1>1, <2>1, QueueSame DEF QueueTypeOK
  <2>3. Sharers[topic[First(w)]] \in SUBSET Addressees
    BY <1>1, <2>1, QueueFanOutFacts
  <2> QED BY <1>1, <1>2, <2>1, <2>2, <2>3, QueueTypeGoes DEF Step
<1>4. CASE Prepare(w)
  <2>1. /\ recent' = recent /\ mailed' = mailed /\ Go(w, "sending", {})
        /\ user[First(w)] \in Addressees \ Blocked
    BY <1>4 DEF Prepare, mailHistory, MayMail
  <2>2. /\ \A r \in Rows : RowOK(r)'
        /\ recent' \subseteq Rows /\ mailed' \subseteq Rows
        /\ mailed \subseteq mailed'
    BY <1>1, <2>1, QueueSame DEF QueueTypeOK
  <2> QED BY <1>1, <1>2, <2>1, <2>2, QueueTypeGoes DEF Step
<1>5. CASE Send(w)
  <2> DEFINE f == First(w)
  <2>1. /\ recent' = recent \cup {f} /\ mailed' = mailed \cup {f} /\ Go(w, "mailed", {})
        /\ user[f] \in Addressees \ Blocked
    BY <1>5 DEF Send, Mail, QueueTypeOK, WorkOK
  <2>2. f \in Rows /\ status[f] # "none"
    BY <1>1, QueueFirst
  <2> HIDE DEF f
  <2>3. /\ \A r \in Rows : RowOK(r)'
        /\ recent' \subseteq Rows /\ mailed' \subseteq Rows
        /\ mailed \subseteq mailed' /\ f \in mailed'
    BY <1>1, <2>1, <2>2 DEF QueueTypeOK, RowOK, table
  <2> QED BY <1>1, <1>2, <2>1, <2>3, QueueTypeGoes DEF Step, f
<1> QED BY <1>3, <1>4, <1>5

LEMMA QueueTypeCrash ==
    ASSUME QueueTypeOK, NEW w \in Workers, Crash(w)
    PROVE  QueueTypeOK'
<1>1. /\ UNCHANGED table /\ recent' = recent /\ mailed' = mailed
      /\ work' = [work EXCEPT ![w] = Idle]
  BY DEF Crash
<1>2. /\ QueueKept /\ \A r \in Rows : RowOK(r)'
      /\ DOMAIN status' = Rows /\ DOMAIN user' = Rows /\ DOMAIN topic' = Rows
      /\ recent' \subseteq Rows
  BY <1>1, QueueSame
<1>3. DOMAIN work' = Workers /\ work'[w] = Idle
      /\ \A v \in Workers \ {w} : work'[v] = work[v]
  BY <1>1 DEF QueueTypeOK
<1>4. WorkOK(w)'
  BY <1>3 DEF WorkOK, Idle, Work, Step
<1>5. \A v \in Workers \ {w} : WorkOK(v)'
  BY <1>1, <1>2, <1>3, QueuePassed
<1> QED BY <1>1, <1>2, <1>3, <1>4, <1>5 DEF QueueTypeOK, Rows

LEMMA QueueTimesOut ==
    ASSUME QueueTypeOK, NEW w \in Workers, SendTimesOut(w)
    PROVE  /\ ~At(w, "idle") /\ QueueSettles(w)
           /\ mailed' = mailed \cup {First(w)}
           /\ status'[First(w)] = "failed" /\ Key(First(w)) \in loose'
           /\ recent' = recent \cup {First(w)}
           /\ twice' = twice \cup {Key(s) : s \in {q \in mailed \cap recent :
                                       Key(q) = Key(First(w))}}
<1>1. ~At(w, "idle")
  BY DEF SendTimesOut
<1> QED BY <1>1, QueueFirst DEF SendTimesOut, Mail, Nack, QueueSettles, QueueTypeOK

LEMMA QueueTypeStep ==
    ASSUME QueueTypeOK, [QueueNext]_(queueVars)
    PROVE  QueueTypeOK'
<1>1. CASE UNCHANGED queueVars
  BY <1>1 DEF queueVars, table, mailHistory, QueueTypeOK, RowOK, WorkOK,
              First
<1>2. ASSUME NEW r \in Rows, Forget(r)
      PROVE  QueueTypeOK'
  <2>1. UNCHANGED table /\ recent' \subseteq recent /\ mailed' = mailed /\ work' = work
    BY <1>2 DEF Forget, mailHistory
  <2> QED BY <2>1, QueueSame, QueueTypeQuiet
<1>3. ASSUME NEW w \in Workers, QueueStep(w)
      PROVE  QueueTypeOK'
  <2>1. CASE QueueAccepts(w)
    BY <2>1, QueueAccept, QueueTypeSettles DEF QueueAccepts
  <2>2. CASE QueueRefuses(w)
    BY <2>2, QueueRefuse, QueueTypeSettles DEF QueueRefuses
  <2>3. CASE SendTimesOut(w)
    BY <2>3, QueueTimesOut, QueueTypeSettles
  <2> QED BY <1>3, <2>1, <2>2, <2>3, QueueTypeDequeue, QueueTypeGone, QueueTypeFanOutUser,
             QueueTypeCrash DEF QueueStep
<1> QED BY <1>1, <1>2, <1>3, QueueTypeRequest, QueueCases

\* Rows in the queue belong to a user or are an event of a rotation, and what a
\* worker is about to do with a row fits that row (EmailWorker).
THEOREM QueueTypeInvariant ==
    QueueSpec => []QueueTypeOK
<1>1. QueueInit => QueueTypeOK
  BY DEF QueueInit, QueueTypeOK, RowOK, WorkOK, Work, Step, Idle
<1> QED BY <1>1, QueueTypeStep, PTL DEF QueueSpec
-----------------------------------------------------------------------------
(* Nobody is mailed twice.                                                 *)

\* The rows of a worker hold keys that no step changes.
LEMMA QueueKeys ==
    ASSUME QueueTypeOK, QueueKept
    PROVE  /\ \A w \in Workers : \A r \in work[w].rows :
                  r \in Rows /\ status[r] # "none" /\ Key(r)' = Key(r)
           /\ \A r \in mailed : r \in Rows /\ status[r] # "none" /\ Key(r)' = Key(r)
<1>1. \A r \in Rows : status[r] # "none" => Key(r)' = Key(r)
  BY DEF QueueKept, Key
<1>2. \A w \in Workers : \A r \in work[w].rows : r \in Rows /\ status[r] # "none"
  BY DEF QueueTypeOK, WorkOK, Work
<1>3. \A r \in mailed : r \in Rows /\ status[r] # "none"
  BY DEF QueueTypeOK, RowOK
<1> QED BY <1>1, <1>2, <1>3

\* Workers that take nothing new stay apart.
LEMMA QueueApartOn ==
    ASSUME QueueTypeOK, Apart, QueueKept, loose \subseteq loose',
           \A w \in Workers : work'[w].rows \subseteq work[w].rows
    PROVE  Apart'
<1> SUFFICES ASSUME NEW v \in Workers, NEW w \in Workers, v # w,
                    NEW r \in work'[v].rows, NEW s \in work'[w].rows,
                    Key(r)' = Key(s)'
             PROVE  Key(r)' \in loose'
  BY DEF Apart
<1>1. r \in work[v].rows /\ s \in work[w].rows
  OBVIOUS
<1>2. Key(r)' = Key(r) /\ Key(s)' = Key(s)
  BY <1>1, QueueKeys
<1> QED BY <1>1, <1>2 DEF Apart

\* A row changes its status only when its one worker is done with it.
LEMMA QueueTakenOn ==
    ASSUME QueueTypeOK, Taken, QueueKept, loose \subseteq loose',
           \A w \in Workers : work'[w].rows \subseteq work[w].rows,
           \A r \in Rows : status[r] # "none" => status'[r] = status[r]
    PROVE  Taken'
<1> SUFFICES ASSUME NEW w \in Workers, NEW r \in work'[w].rows
             PROVE  status'[r] = "queued" \/ Key(r)' \in loose'
  BY DEF Taken
<1>1. r \in work[w].rows /\ Key(r)' = Key(r) /\ status'[r] = status[r]
  BY QueueKeys
<1> QED BY <1>1 DEF Taken

LEMMA QueueTakenSettles ==
    ASSUME QueueTypeOK, Taken, Apart, NEW w \in Workers,
           ~At(w, "idle"), QueueSettles(w), QueueKept
    PROVE  Taken'
<1> SUFFICES ASSUME NEW v \in Workers, NEW r \in work'[v].rows
             PROVE  status'[r] = "queued" \/ Key(r)' \in loose'
  BY DEF Taken
<1>1. /\ \A x \in Workers \ {w} : work'[x] = work[x]
      /\ work'[w].rows = work[w].rows \ {First(w)}
      /\ First(w) \in work[w].rows
  BY QueueDone, QueueFirst DEF QueueSettles
<1>2. r \in work[v].rows /\ Key(r)' = Key(r) /\ r \in Rows
  BY <1>1, QueueKeys
<1>3. CASE r = First(w)
  <2>1. v # w
    BY <1>1, <1>3
  <2>2. Key(r) \in loose
    BY <1>1, <1>2, <1>3, <2>1 DEF Apart
  <2> QED BY <1>2, <2>2 DEF QueueSettles
<1>4. CASE r # First(w)
  BY <1>2, <1>4 DEF Taken, QueueSettles
<1> QED BY <1>3, <1>4

\* The mails on record stay so while no row changes its status.
LEMMA QueueRecordOn ==
    ASSUME QueueTypeOK, OnRecord, QueueKept, loose \subseteq loose',
           mailed' \cap recent' \subseteq mailed \cap recent,
           \A w \in Workers : At(w, "mailed") =>
               \/ At(w, "mailed")' /\ First(w)' = First(w)
               \/ Key(First(w)) \in loose',
           \A r \in Rows : status[r] = "sent" => status'[r] = "sent" \/ Key(r) \in loose'
    PROVE  OnRecord'
<1> SUFFICES ASSUME NEW r \in mailed' \cap recent'
             PROVE  \/ status'[r] = "sent"
                    \/ \E w \in Workers : At(w, "mailed")' /\ First(w)' = r
                    \/ Key(r)' \in loose'
  BY DEF OnRecord
<1>1. r \in mailed \cap recent /\ r \in Rows /\ Key(r)' = Key(r)
  BY QueueKeys
<1>2. \/ status[r] = "sent"
      \/ \E w \in Workers : At(w, "mailed") /\ First(w) = r
      \/ Key(r) \in loose
  BY <1>1 DEF OnRecord
<1> QED BY <1>1, <1>2

LEMMA QueueRecordSettles ==
    ASSUME QueueTypeOK, OnRecord, NEW w \in Workers,
           ~At(w, "idle"), QueueSettles(w), QueueKept,
           mailed' \subseteq mailed \cup {First(w)},
           First(w) \in mailed' \cap recent' =>
               status'[First(w)] = "sent" \/ Key(First(w)) \in loose'
    PROVE  OnRecord'
<1> DEFINE f == First(w)
<1> SUFFICES ASSUME NEW r \in mailed' \cap recent'
             PROVE  \/ status'[r] = "sent"
                    \/ \E x \in Workers : At(x, "mailed")' /\ First(x)' = r
                    \/ Key(r)' \in loose'
  BY DEF OnRecord
<1>1. r = f => Key(r)' = Key(r)
  BY QueueFirst, QueueKeys
<1>2. CASE r = f
  BY <1>1, <1>2
<1>3. CASE r # f
  <2>1. r \in mailed \cap recent /\ r \in Rows /\ Key(r)' = Key(r)
    BY <1>3, QueueKeys DEF QueueSettles
  <2>2. status'[r] = status[r] /\ loose \subseteq loose'
    BY <1>3, <2>1 DEF QueueSettles
  <2>3. ASSUME NEW x \in Workers, At(x, "mailed"), First(x) = r
        PROVE  At(x, "mailed")' /\ First(x)' = r
    <3>1. work'[x] = work[x]
      BY <1>3, <2>3, QueueDone DEF QueueSettles
    <3> QED BY <2>3, <3>1 DEF First
  <2> QED BY <2>1, <2>2, <2>3 DEF OnRecord
<1> QED BY <1>2, <1>3

\* Who is about to send has nothing to fear from a worker with other keys.
LEMMA QueueUnsentOn ==
    ASSUME QueueTypeOK, Unsent, Apart, QueueKept,
           NEW w \in Workers, loose \subseteq loose',
           \A x \in Workers \ {w} : work'[x] = work[x],
           ~At(w, "sending")',
           \/ mailed' \cap recent' \subseteq mailed \cap recent
           \/ /\ ~At(w, "idle")
              /\ mailed' \cap recent' \subseteq (mailed \cap recent) \cup {First(w)}
    PROVE  Unsent'
<1> SUFFICES ASSUME NEW x \in Workers, At(x, "sending")',
                    NEW r \in mailed' \cap recent', Key(r)' = Key(First(x))'
             PROVE  Key(r)' \in loose'
  BY DEF Unsent
<1>1. x # w /\ work'[x] = work[x] /\ At(x, "sending")
  OBVIOUS
<1>2. First(x)' = First(x) /\ First(x) \in work[x].rows
  BY <1>1, QueueFirst DEF First
<1>3. Key(First(x))' = Key(First(x))
  <2>1. Key(First(x))' = <<user'[First(x)'], topic'[First(x)']>>
    BY DEF Key
  <2>2. user'[First(x)] = user[First(x)] /\ topic'[First(x)] = topic[First(x)]
    BY <1>1, QueueFirst DEF QueueKept
  <2> QED BY <1>2, <2>1, <2>2 DEF Key
<1>4. CASE r \in mailed \cap recent
  <2>1. Key(r)' = Key(r)
    BY <1>4, QueueKeys
  <2> QED BY <1>1, <1>3, <1>4, <2>1 DEF Unsent
<1>5. CASE r \notin mailed \cap recent
  <2>1. ~At(w, "idle") /\ r = First(w)
    BY <1>5
  <2>2. r \in work[w].rows /\ Key(r)' = Key(r)
    BY <2>1, QueueFirst, QueueKeys
  <2> QED BY <1>1, <1>2, <1>3, <2>2 DEF Apart
<1> QED BY <1>4, <1>5

QueueMails == Apart /\ Taken /\ OnRecord /\ Unsent /\ MailsApart

LEMMA QueueMailsQuiet ==
    ASSUME QueueTypeOK, QueueMails, QueueKept, work' = work, mailed' = mailed,
           recent' \subseteq recent, loose' = loose, twice' = twice,
           \A r \in Rows : status[r] # "none" => status'[r] = status[r]
    PROVE  QueueMails'
<1>1. \A w \in Workers : First(w)' = First(w)
  BY DEF First
<1>2. Apart' /\ Taken'
  BY QueueApartOn, QueueTakenOn DEF QueueMails
<1>3. OnRecord'
  BY <1>1, QueueRecordOn DEF QueueMails
<1>4. Unsent'
  <2> SUFFICES ASSUME NEW w \in Workers, At(w, "sending"), NEW r \in mailed \cap recent,
                      Key(r)' = Key(First(w))'
               PROVE  Key(r)' \in loose
    BY DEF Unsent
  <2>1. Key(r)' = Key(r)
    BY QueueKeys
  <2>2. Key(First(w))' = Key(First(w))
    BY <1>1, QueueFirst DEF QueueKept, Key
  <2> QED BY <2>1, <2>2 DEF QueueMails, Unsent
<1>5. MailsApart'
  BY DEF QueueMails, MailsApart
<1> QED BY <1>2, <1>3, <1>4, <1>5 DEF QueueMails

LEMMA QueueMailsSettles ==
    ASSUME QueueTypeOK, QueueMails, NEW w \in Workers,
           QueueAccepts(w) \/ QueueRefuses(w) \/ SendTimesOut(w)
    PROVE  QueueMails'
<1> DEFINE f == First(w)
<1>1. /\ ~At(w, "idle") /\ QueueSettles(w)
      /\ mailed \subseteq mailed' /\ mailed' \subseteq mailed \cup {f}
      /\ f \in mailed' \cap recent' => status'[f] = "sent" \/ Key(f) \in loose'
      /\ MailsApart'
  <2>1. CASE QueueAccepts(w)
    BY <2>1, QueueAccept DEF QueueAccepts, QueueSettles, QueueMails, MailsApart
  <2>2. CASE SendTimesOut(w)
    BY <2>2, QueueTimesOut DEF QueueSettles, QueueMails, MailsApart
  <2>3. CASE QueueRefuses(w)
    <3>1. /\ ~At(w, "idle") /\ ~At(w, "mailed") /\ QueueSettles(w)
          /\ mailed' = mailed /\ recent' = recent /\ twice' = twice
          /\ status[f] = "sent" => Key(f) \in loose'
      BY <2>3, QueueRefuse DEF QueueRefuses
    <3>2. loose \subseteq loose'
      BY <3>1 DEF QueueSettles
    <3>3. ASSUME f \in mailed \cap recent
          PROVE  Key(f) \in loose'
      <4>1. ASSUME NEW x \in Workers, At(x, "mailed"), First(x) = f
            PROVE  Key(f) \in loose
        <5>1. x # w /\ f \in work[x].rows /\ f \in work[w].rows
          BY <3>1, <4>1, QueueFirst
        <5> QED BY <5>1 DEF QueueMails, Apart
      <4> QED BY <3>1, <3>2, <3>3, <4>1 DEF QueueMails, OnRecord
    <3> QED BY <3>1, <3>2, <3>3 DEF QueueMails, MailsApart
  <2> QED BY <2>1, <2>2, <2>3
<1>2. QueueKept
  BY <1>1, QueueTypeSettles
<1>3. /\ \A x \in Workers \ {w} : work'[x] = work[x]
      /\ ~At(w, "sending")'
      /\ work'[w].rows \subseteq work[w].rows
      /\ loose \subseteq loose' /\ recent' \subseteq recent \cup {f}
  BY <1>1, QueueDone DEF QueueSettles
<1>4. Apart'
  <2>1. \A x \in Workers : work'[x].rows \subseteq work[x].rows
    BY <1>3
  <2> QED BY <1>2, <1>3, <2>1, QueueApartOn DEF QueueMails
<1>5. Taken' /\ OnRecord'
  BY <1>1, <1>2, QueueTakenSettles, QueueRecordSettles DEF QueueMails
<1>6. Unsent'
  BY <1>1, <1>2, <1>3, QueueUnsentOn DEF QueueMails
<1> QED BY <1>1, <1>4, <1>5, <1>6 DEF QueueMails

LEMMA QueueMailsGoes ==
    ASSUME QueueTypeOK, QueueMails, NEW w \in Workers,
           \/ FanOut(w) \/ Prepare(w) \/ Send(w)
           \/ \E u \in Addressees : FanOutUser(w, u)
    PROVE  QueueMails'
<1> DEFINE f == First(w)
<1>1. PICK step \in Step \ {"idle"}, todo \in SUBSET Addressees :
          Go(w, step, todo) /\ (step = "sending" => Prepare(w))
  <2>1. CASE FanOut(w)
    <3>1. Sharers[topic[f]] \in SUBSET Addressees
      BY <2>1, QueueFanOutFacts DEF FanOut
    <3> QED BY <2>1, <3>1 DEF FanOut, Step
  <2>2. CASE \E u \in Addressees : FanOutUser(w, u)
    BY <2>2 DEF FanOutUser, Step, QueueTypeOK, WorkOK, Work
  <2> QED BY <2>1, <2>2 DEF Prepare, Send, Step
<1>2. /\ ~At(w, "idle") /\ ~At(w, "mailed") /\ loose' = loose
      /\ f \in work[w].rows /\ f \in Rows /\ status[f] # "none"
  <2>1. ~At(w, "idle") /\ ~At(w, "mailed") /\ loose' = loose
    BY DEF FanOut, Prepare, Send, FanOutUser, mailHistory
  <2> QED BY <2>1, QueueFirst
<1>3. QueueKept /\ \A r \in Rows : status[r] # "none" => status'[r] = status[r]
  <2>1. CASE UNCHANGED table
    BY <2>1 DEF table, QueueKept
  <2>2. ASSUME NEW u \in Addressees, FanOutUser(w, u), Enqueue(u, topic[f])
        PROVE  QueueKept /\ \A r \in Rows : status[r] # "none" => status'[r] = status[r]
    <3>1. user[f] = None
      BY <2>2 DEF FanOutUser, QueueTypeOK, WorkOK
    <3>2. topic[f] \in Topics /\ u # None
      BY <1>2, <3>1, QueueFanOutFacts, NoneAssumption DEF Topics
    <3>3. recent' = recent /\ mailed' = mailed
      BY <2>2 DEF FanOutUser
    <3> QED BY <2>2, <3>2, <3>3, QueueEnqueue
  <2> QED BY <2>1, <2>2 DEF FanOut, Prepare, Send, FanOutUser
<1>4. /\ \A x \in Workers \ {w} : work'[x] = work[x]
      /\ work'[w].rows = work[w].rows /\ work'[w].at = step /\ First(w)' = f
  BY <1>1, QueueGo
<1>5. Apart' /\ Taken'
  <2>1. \A x \in Workers : work'[x].rows \subseteq work[x].rows
    BY <1>4
  <2> QED BY <1>2, <1>3, <2>1, QueueApartOn, QueueTakenOn DEF QueueMails
<1>6. \A x \in Workers : At(x, "mailed") =>
          At(x, "mailed")' /\ First(x)' = First(x)
  BY <1>2, <1>4 DEF First
<1>7. CASE Send(w)
  <2>1. /\ mailed' = mailed \cup {f} /\ recent' = recent \cup {f}
        /\ twice' = twice \cup {Key(s) : s \in {q \in mailed \cap recent :
                                    Key(q) = Key(f)}}
        /\ At(w, "sending")
    BY <1>7 DEF Send, Mail
  <2>2. At(w, "mailed")' /\ status' = status
    BY <1>4, <1>7, QueueGo DEF Send, table, Step
  <2>3. OnRecord'
    <3> SUFFICES ASSUME NEW r \in mailed' \cap recent'
                 PROVE  \/ status'[r] = "sent"
                        \/ \E x \in Workers : At(x, "mailed")' /\ First(x)' = r
                        \/ Key(r)' \in loose'
      BY DEF OnRecord
    <3>1. CASE r = f
      BY <1>4, <2>2, <3>1
    <3>2. CASE r # f
      <4>1. r \in mailed \cap recent /\ Key(r)' = Key(r)
        BY <1>3, <2>1, <3>2, QueueKeys
      <4> QED BY <1>2, <1>6, <2>2, <4>1 DEF QueueMails, OnRecord
    <3> QED BY <3>1, <3>2
  <2>4. Unsent'
    BY <1>2, <1>3, <1>4, <2>1, <2>2, QueueUnsentOn DEF QueueMails
  <2>5. MailsApart'
    <3>1. \A s \in mailed \cap recent : Key(s) = Key(f) => Key(s) \in loose
      BY <2>1 DEF QueueMails, Unsent
    <3> QED BY <1>2, <2>1, <3>1 DEF QueueMails, MailsApart
  <2> QED BY <1>5, <2>3, <2>4, <2>5 DEF QueueMails
<1>8. CASE ~Send(w)
  <2>1. mailed' = mailed /\ recent' = recent /\ twice' = twice
    BY <1>8 DEF FanOut, Prepare, FanOutUser, mailHistory
  <2>2. OnRecord'
    BY <1>2, <1>3, <1>6, <2>1, QueueRecordOn DEF QueueMails
  <2>3. CASE Prepare(w)
    <3> SUFFICES ASSUME NEW x \in Workers, At(x, "sending")', NEW r \in mailed \cap recent,
                        Key(r)' = Key(First(x))'
                 PROVE  Key(r)' \in loose
      BY <1>2, <1>5, <2>1, <2>2 DEF QueueMails, Unsent, MailsApart
    <3>1. UNCHANGED <<status, user, topic>> /\ At(w, "next") /\ ~WasSentRecently(f)
      BY <2>3 DEF Prepare, table, MayMail
    <3>2. First(x)' = First(x)
      BY <1>4 DEF First
    <3>3. Key(r) = Key(First(x)) /\ Key(r)' = Key(r)
      BY <3>1, <3>2 DEF Key
    <3>4. CASE x # w
      BY <1>4, <3>3, <3>4 DEF QueueMails, Unsent
    <3>5. CASE x = w
      <4>1. status[r] # "sent"
        BY <3>1, <3>3, <3>5, QueueKeys, <1>3 DEF WasSentRecently, Sent
      <4>2. ASSUME NEW y \in Workers, At(y, "mailed"), First(y) = r
            PROVE  Key(r) \in loose
        <5>1. y # w /\ r \in work[y].rows
          BY <1>2, <4>2, QueueFirst
        <5> QED BY <1>2, <3>3, <3>5, <5>1 DEF QueueMails, Apart
      <4> QED BY <3>3, <4>1, <4>2 DEF QueueMails, OnRecord
    <3> QED BY <3>4, <3>5
  <2>4. CASE ~Prepare(w)
    <3>1. ~At(w, "sending")'
      BY <1>1, <1>4, <2>4
    <3>2. Unsent'
      BY <1>2, <1>3, <1>4, <2>1, <3>1, QueueUnsentOn DEF QueueMails
    <3> QED BY <1>5, <2>1, <2>2, <3>2, <1>2 DEF QueueMails, MailsApart
  <2> QED BY <2>3, <2>4
<1> QED BY <1>7, <1>8

LEMMA QueueMailsStep ==
    ASSUME QueueTypeOK, QueueMails, [QueueNext]_(queueVars)
    PROVE  QueueMails'
<1>1. CASE UNCHANGED queueVars
  <2>1. UNCHANGED <<status, user, topic, recent, work, mailed, loose, twice>>
    BY <1>1 DEF queueVars, table, mailHistory
  <2> QED BY <2>1, QueueMailsQuiet DEF QueueKept
<1>2. ASSUME NEW u \in Addressees \cup {None}, NEW t \in Topics, u = None => t \in Rotations,
             QueueRow(u, t)
      PROVE  QueueMails'
  <2>1. /\ recent' = recent /\ work' = work /\ mailed' = mailed /\ loose' = loose
        /\ twice' = twice /\ Enqueue(u, t)
    BY <1>2 DEF QueueRow, mailHistory
  <2>2. QueueKept /\ \A r \in Rows : status[r] # "none" => status'[r] = status[r]
    BY <1>2, <2>1, QueueEnqueue
  <2> QED BY <2>1, <2>2, QueueMailsQuiet
<1>3. ASSUME NEW r \in Rows, Forget(r)
      PROVE  QueueMails'
  <2>1. /\ UNCHANGED <<status, user, topic, work, mailed, loose, twice>>
        /\ recent' \subseteq recent
    BY <1>3 DEF Forget, table, mailHistory
  <2> QED BY <2>1, QueueMailsQuiet DEF QueueKept
<1>4. ASSUME NEW w \in Workers, Dequeue(w) \/ Crash(w)
      PROVE  QueueMails'
  <2> DEFINE S == Oldest(Queued)
  <2>1. /\ UNCHANGED <<status, user, topic, recent, mailed, twice>>
        /\ loose \subseteq loose'
        /\ \A x \in Workers \ {w} : work'[x] = work[x]
        /\ ~At(w, "sending")' /\ ~At(w, "mailed")'
    BY <1>4 DEF Dequeue, Crash, table, mailHistory, QueueTypeOK,
                BatchOf, Idle
  <2>2. QueueKept /\ MailsApart'
    BY <2>1 DEF QueueKept, QueueMails, MailsApart
  <2>3. At(w, "mailed") => Key(First(w)) \in loose'
    BY <1>4 DEF Dequeue, Crash
  <2>4. OnRecord'
    <3>1. ASSUME NEW x \in Workers, At(x, "mailed")
          PROVE  \/ At(x, "mailed")' /\ First(x)' = First(x)
                 \/ Key(First(x)) \in loose'
      BY <2>1, <2>3, <3>1 DEF First
    <3> QED BY <2>1, <2>2, <3>1, QueueRecordOn DEF QueueMails
  <2>5. Unsent'
    BY <2>1, <2>2, QueueUnsentOn DEF QueueMails
  <2>6. CASE Crash(w)
    <3>1. \A x \in Workers : work'[x].rows \subseteq work[x].rows
      BY <2>1, <2>6 DEF Crash, QueueTypeOK, Idle
    <3>2. Apart' /\ Taken'
      BY <2>1, <2>2, <3>1, QueueApartOn, QueueTakenOn DEF QueueMails
    <3> QED BY <2>2, <2>4, <2>5, <3>2 DEF QueueMails
  <2>7. CASE Dequeue(w)
    <3>1. work'[w] = BatchOf(S) /\ loose' = loose \cup Raced(w, S)
      BY <2>7 DEF Dequeue, QueueTypeOK
    <3>2. work'[w].rows = S /\ S \subseteq Queued
      BY <3>1 DEF BatchOf, Oldest
    <3> HIDE DEF S
    <3>3. \A r \in S : status'[r] = "queued"
      BY <2>1, <3>2 DEF Queued
    <3>4. \A r : Key(r)' = Key(r)
      BY <2>1 DEF Key
    <3>5. Taken'
      BY <2>1, <3>2, <3>3, <3>4 DEF QueueMails, Taken
    <3>6. ASSUME NEW x \in Workers \ {w}, NEW r \in S, NEW s \in work[x].rows,
                 Key(r) = Key(s)
          PROVE  Key(r) \in loose'
      BY <3>1, <3>6 DEF Raced
    <3>7. Apart'
      <4> SUFFICES ASSUME NEW v \in Workers, NEW x \in Workers, v # x,
                          NEW r \in work'[v].rows, NEW s \in work'[x].rows,
                          Key(r) = Key(s)
                   PROVE  Key(r) \in loose'
        BY <3>4 DEF Apart
      <4>1. CASE v = w
        BY <2>1, <3>2, <3>6, <4>1
      <4>2. CASE x = w
        BY <2>1, <3>2, <3>6, <4>2
      <4>3. CASE v # w /\ x # w
        BY <2>1, <4>3 DEF QueueMails, Apart
      <4> QED BY <4>1, <4>2, <4>3
    <3> QED BY <2>2, <2>4, <2>5, <3>5, <3>7 DEF QueueMails
  <2> QED BY <1>4, <2>6, <2>7
<1>5. ASSUME NEW w \in Workers, QueueStep(w)
      PROVE  QueueMails'
  BY <1>4, <1>5, QueueMailsGoes, QueueMailsSettles DEF QueueStep
<1> QED BY <1>1, <1>2, <1>3, <1>5, QueueCases

\* Whatever workers, requests, errors and crashes come between the statements
\* of processNotification, nobody is mailed about one thing twice within the
\* duration of the rate limit but after a mail that is not on record, or by
\* two workers that had rows of it at once.
THEOREM QueueMailsApart ==
    QueueSpec => []MailsApart
<1>1. QueueInit => QueueMails
  BY DEF QueueInit, QueueMails, Apart, Taken, OnRecord, Unsent,
         MailsApart, Idle
<1>2. QueueMails => MailsApart
  BY DEF QueueMails
<1> QED BY <1>1, <1>2, QueueMailsStep, QueueTypeInvariant, PTL DEF QueueSpec
-----------------------------------------------------------------------------
(* Hashes are of what was mailed.                                          *)

\* Steps that send nothing: a worker at one of the last steps stays as it is.
LEMMA QueueWordedOn ==
    ASSUME QueueTypeOK, Worded, QueueKept, told \subseteq told',
           DOMAIN content' = Rows, DOMAIN body' = Workers,
           \A r \in Rows : content'[r] # None =>
               \/ content'[r] = content[r]
               \/ status[r] # "none" /\ <<user[r], content'[r]>> \in told,
           \A w \in Workers : work'[w].at \in {"sending", "mailed"} =>
               work'[w] = work[w] /\ body'[w] = body[w]
    PROVE  Worded'
<1>1. ASSUME NEW r \in Rows, content'[r] # None
      PROVE  status'[r] # "none" /\ <<user'[r], content'[r]>> \in told'
  <2>1. status[r] # "none" /\ <<user[r], content'[r]>> \in told
    BY <1>1 DEF Worded
  <2> QED BY <2>1 DEF QueueKept
<1>2. ASSUME NEW w \in Workers, work'[w].at \in {"sending", "mailed"}
      PROVE  /\ body'[w] \in Texts(topic[First(w)])'
             /\ At(w, "mailed")' => <<user[First(w)], body[w]>>' \in told'
  <2>1. work'[w] = work[w] /\ body'[w] = body[w] /\ First(w)' = First(w) /\ ~At(w, "idle")
    BY <1>2 DEF First
  <2>2. topic'[First(w)] = topic[First(w)] /\ user'[First(w)] = user[First(w)]
    BY <2>1, QueueFirst DEF QueueKept
  <2> QED BY <1>2, <2>1, <2>2 DEF Worded, Texts
<1> QED BY <1>1, <1>2 DEF Worded, Rows

LEMMA QueueWordedStep ==
    ASSUME QueueTypeOK, Worded, [QueueNext]_(queueVars)
    PROVE  Worded'
<1>a. DOMAIN content = Rows /\ DOMAIN body = Workers /\ DOMAIN work = Workers
  BY DEF QueueTypeOK, Worded
<1>1. CASE UNCHANGED queueVars \/ \E r \in Rows : Forget(r)
  <2>1. UNCHANGED <<status, user, topic, content, told, work, body>>
    BY <1>1 DEF queueVars, table, mailHistory, Forget
  <2> QED BY <1>a, <2>1, QueueWordedOn DEF QueueKept
<1>2. ASSUME NEW u \in Addressees \cup {None}, NEW t \in Topics, u = None => t \in Rotations,
             QueueRow(u, t)
      PROVE  Worded'
  <2>1. /\ Enqueue(u, t) /\ UNCHANGED <<content, told, work, body>>
        /\ recent' = recent /\ mailed' = mailed
    BY <1>2 DEF QueueRow, mailHistory, Enqueue
  <2>2. QueueKept
    BY <1>2, <2>1, QueueEnqueue
  <2> QED BY <1>a, <2>1, <2>2, QueueWordedOn
<1>3. ASSUME NEW w \in Workers, Dequeue(w) \/ Crash(w)
      PROVE  Worded'
  <2>1. /\ UNCHANGED <<status, user, topic, content, told>> /\ DOMAIN body' = Workers
        /\ work'[w].at \notin {"sending", "mailed"}
        /\ \A x \in Workers \ {w} : work'[x] = work[x] /\ body'[x] = body[x]
    BY <1>a, <1>3 DEF Dequeue, Crash, table, BatchOf, Idle
  <2> QED BY <1>a, <2>1, QueueWordedOn DEF QueueKept
<1>4. ASSUME NEW w \in Workers, FanOut(w)
      PROVE  Worded'
  <2>1. /\ UNCHANGED <<status, user, topic, content, told, body>>
        /\ Go(w, "fanning", Sharers[topic[First(w)]])
    BY <1>4 DEF FanOut, table, mailHistory
  <2>2. /\ work'[w].at \notin {"sending", "mailed"}
        /\ \A x \in Workers \ {w} : work'[x] = work[x]
    BY <1>a, <2>1 DEF Go, QueueTypeOK, WorkOK, Work
  <2> QED BY <1>a, <2>1, <2>2, QueueWordedOn DEF QueueKept
<1>5. ASSUME NEW w \in Workers, NEW u \in Addressees, FanOutUser(w, u)
      PROVE  Worded'
  <2>1. /\ Go(w, "fanning", work[w].todo \ {u}) /\ UNCHANGED <<told, body>>
        /\ recent' = recent /\ mailed' = mailed /\ content' = content
        /\ Enqueue(u, topic[First(w)]) \/ UNCHANGED table
        /\ At(w, "fanning") /\ user[First(w)] = None
    BY <1>5 DEF FanOutUser, Enqueue, table, QueueTypeOK, WorkOK
  <2>2. /\ work'[w].at \notin {"sending", "mailed"}
        /\ \A x \in Workers \ {w} : work'[x] = work[x]
    BY <1>a, <2>1 DEF Go, QueueTypeOK, WorkOK, Work
  <2>3. topic[First(w)] \in Topics /\ u # None
    BY <2>1, QueueFanOutFacts, NoneAssumption DEF Topics
  <2>4. QueueKept
    BY <2>1, <2>3, QueueEnqueue, QueueSame
  <2> QED BY <1>a, <2>1, <2>2, <2>4, QueueWordedOn
<1>6. ASSUME NEW w \in Workers, QueueAccepts(w)
      PROVE  Worded'
  <2> DEFINE f == First(w)
  <2>1. PICK hash : QueueHash(w, hash) /\ Accept(w, hash)
    BY <1>6 DEF QueueAccepts
  <2>2. /\ ~At(w, "idle") /\ f \in Rows /\ status[f] # "none"
    BY <1>6, QueueFirst DEF QueueAccepts
  <2>3. /\ QueueKept /\ QueueSettles(w) /\ told' = told
    BY <2>1, <2>2, QueueAccept, QueueTypeSettles DEF Accept
  <2>4. /\ DOMAIN body' = Workers /\ work'[w].at \notin {"sending", "mailed"}
        /\ \A x \in Workers \ {w} : work'[x] = work[x] /\ body'[x] = body[x]
    BY <1>a, <2>2, <2>3, QueueDone DEF QueueSettles, Done
  <2>5. hash # None => <<user[f], hash>> \in told
    <3>1. CASE hash # None /\ WasContentSentRecently(f, hash)
      BY <3>1 DEF WasContentSentRecently, Worded, Sent
    <3>2. CASE At(w, "mailed") /\ hash = body[w]
      BY <3>2 DEF Worded
    <3> QED BY <2>1, <3>1, <3>2 DEF QueueHash
  <2>6. /\ DOMAIN content' = Rows
        /\ \A r \in Rows : content'[r] = content[r] \/ (r = f /\ hash # None /\ content'[r] = hash)
    BY <1>a, <2>1 DEF Accept, Ack, table
  <2> HIDE DEF f
  <2>7. \A r \in Rows : content'[r] # None =>
            \/ content'[r] = content[r]
            \/ status[r] # "none" /\ <<user[r], content'[r]>> \in told
    BY <2>2, <2>5, <2>6
  <2> QED BY <2>3, <2>4, <2>6, <2>7, QueueWordedOn
<1>7. ASSUME NEW w \in Workers, QueueRefuses(w) \/ SendTimesOut(w)
      PROVE  Worded'
  <2>1. /\ ~At(w, "idle") /\ QueueSettles(w) /\ mailed \subseteq mailed'
        /\ mailed' \subseteq mailed \cup {First(w)} /\ told \subseteq told' /\ content' = content
    BY <1>7, QueueRefuse, QueueTimesOut
       DEF QueueRefuses, Refuse, SendTimesOut, Mail, Nack, table
  <2>2. QueueKept
    BY <2>1, QueueTypeSettles
  <2>3. /\ DOMAIN body' = Workers /\ work'[w].at \notin {"sending", "mailed"}
        /\ \A x \in Workers \ {w} : work'[x] = work[x] /\ body'[x] = body[x]
    BY <1>a, <2>1, QueueDone DEF QueueSettles, Done
  <2> QED BY <1>a, <2>1, <2>2, <2>3, QueueWordedOn
<1>8. ASSUME NEW w \in Workers, Prepare(w) \/ Send(w)
      PROVE  Worded'
  <2> DEFINE f == First(w)
  <2>1. /\ UNCHANGED <<status, user, topic, content>> /\ ~At(w, "idle") /\ told \subseteq told'
        /\ DOMAIN body' = Workers /\ \A x \in Workers \ {w} : body'[x] = body[x]
    BY <1>a, <1>8 DEF Prepare, Send, Mail, table, mailHistory
  <2>2. /\ Go(w, "sending", {}) \/ Go(w, "mailed", {})
        /\ Go(w, "mailed", {}) => Send(w)
    BY <1>8, <1>a DEF Prepare, Send, Go, QueueTypeOK, WorkOK, Work
  <2>3. /\ \A x \in Workers \ {w} : work'[x] = work[x]
        /\ First(w)' = f
    BY <2>2, QueueGo DEF Step
  <2>4. body'[w] \in Texts(topic[f])
    BY <1>a, <1>8 DEF Prepare, Send, Worded
  <2>5. At(w, "mailed")' => <<user[f], body'[w]>> \in told'
    BY <2>2, QueueGo DEF Step, Send, Mail
  <2> HIDE DEF f
  <2>6. ASSUME NEW x \in Workers, work'[x].at \in {"sending", "mailed"}
        PROVE  /\ body'[x] \in Texts(topic[First(x)])'
               /\ At(x, "mailed")' => <<user[First(x)], body[x]>>' \in told'
    <3>1. CASE x = w
      BY <2>1, <2>3, <2>4, <2>5, <3>1 DEF Texts
    <3>2. CASE x # w
      <4>1. work'[x] = work[x] /\ body'[x] = body[x] /\ First(x)' = First(x)
        BY <2>1, <2>3, <3>2 DEF First
      <4> QED BY <2>1, <2>6, <4>1 DEF Worded, Texts
    <3> QED BY <3>1, <3>2
  <2> QED BY <1>a, <2>1, <2>6 DEF Worded, Rows
<1>9. ASSUME NEW w \in Workers, QueueStep(w)
      PROVE  Worded'
  BY <1>3, <1>4, <1>5, <1>6, <1>7, <1>8, <1>9 DEF QueueStep
<1> QED BY <1>1, <1>2, <1>9, QueueCases
-----------------------------------------------------------------------------
(* Sent means told.                                                        *)

QueueTold(r) ==
    IF user[r] = None
    THEN \A u \in Sharers[topic[r]] : HasRow(r, u)
    ELSE \/ user[r] \in Blocked
         \/ \E text \in Texts(topic[r]) : <<user[r], text>> \in told

\* What only grows.
QueueGrows ==
    /\ QueueKept /\ told \subseteq told' /\ unlisted \subseteq unlisted'
    /\ \A s \in Rows : user[s] # None => user'[s] = user[s] /\ topic'[s] = topic[s]

LEMMA QueueRowStays ==
    ASSUME QueueGrows, NEW r \in Rows, status[r] # "none",
           NEW u \in Addressees, HasRow(r, u)
    PROVE  HasRow(r, u)'
<1>1. u # None
  BY NoneAssumption
<1>2. topic'[r] = topic[r]
  BY DEF QueueGrows, QueueKept
<1> QED BY <1>1, <1>2 DEF HasRow, QueueGrows, Rows

LEMMA QueueToldStays ==
    ASSUME QueueTypeOK, QueueGrows, NEW r \in Rows, status[r] # "none",
           QueueTold(r)
    PROVE  QueueTold(r)'
<1>1. user'[r] = user[r] /\ topic'[r] = topic[r]
  BY DEF QueueGrows, QueueKept
<1>2. CASE user[r] = None
  <2>1. Sharers[topic[r]] \subseteq Addressees
    BY <1>2, TopicsAssumption DEF QueueTypeOK, RowOK
  <2>2. \A u \in Sharers[topic[r]] : HasRow(r, u)'
    BY <1>2, <2>1, QueueRowStays DEF QueueTold
  <2> QED BY <1>1, <1>2, <2>2 DEF QueueTold
<1>3. CASE user[r] # None
  BY <1>1, <1>3 DEF QueueTold, QueueGrows, Texts
<1> QED BY <1>2, <1>3

\* The mails that a worker's expansion of an event still owes.
QueueTelling == (\A r \in Sent : QueueTold(r)) /\ FanningHolds

LEMMA QueueFanningOn ==
    ASSUME QueueTypeOK, QueueGrows, NEW w \in Workers, At(w, "fanning"),
           NEW u \in Addressees, First(w)' = First(w), HasRow(First(w), u)
    PROVE  HasRow(First(w), u)'
<1>1. \A r \in Rows : status[r] # "none" /\ HasRow(r, u) => HasRow(r, u)'
  BY QueueRowStays
<1>2. First(w) \in Rows /\ status[First(w)] # "none"
  BY QueueFirst
<1>3. PICK r \in Rows : r = First(w) /\ HasRow(r, u)'
  BY <1>1, <1>2
<1> QED BY <1>3 DEF HasRow

\* No row is newly sent, and no worker but w does anything.
LEMMA QueueTellingOn ==
    ASSUME QueueTypeOK, QueueTelling, QueueGrows,
           \A r \in Rows : status'[r] = "sent" => status[r] = "sent" \/ QueueTold(r)',
           \A w \in Workers : At(w, "fanning")' =>
               /\ At(w, "fanning") /\ work'[w] = work[w]
    PROVE  QueueTelling'
<1>1. ASSUME NEW r \in Rows, status'[r] = "sent"
      PROVE  QueueTold(r)'
  BY <1>1, QueueToldStays DEF QueueTelling, Sent
<1>2. ASSUME NEW w \in Workers, At(w, "fanning")',
             NEW u \in Sharers[topic[First(w)]]'
      PROVE  u \in work'[w].todo \/ HasRow(First(w), u)'
  <2>1. At(w, "fanning") /\ work'[w] = work[w] /\ First(w)' = First(w)
    BY <1>2 DEF First
  <2>2. topic'[First(w)] = topic[First(w)]
    BY <2>1, QueueFirst DEF QueueGrows, QueueKept
  <2>3. u \in Sharers[topic[First(w)]]
    BY <1>2, <2>1, <2>2
  <2>4. u \in Addressees
    BY <2>1, <2>3, QueueFanOutFacts DEF QueueTypeOK, WorkOK
  <2>5. u \in work[w].todo \/ HasRow(First(w), u)
    BY <2>1, <2>3 DEF QueueTelling, FanningHolds
  <2> QED BY <2>1, <2>4, <2>5, QueueFanningOn
<1>3. FanningHolds'
  BY <1>2 DEF FanningHolds
<1> QED BY <1>1, <1>3 DEF QueueTelling, Sent, Rows

LEMMA QueueTellingAccepts ==
    ASSUME QueueTypeOK, Worded, QueueTelling, NEW w \in Workers, QueueAccepts(w)
    PROVE  QueueTelling'
<1> DEFINE f == First(w)
<1>1. /\ ~At(w, "idle") /\ QueueSettles(w)
      /\ mailed' = mailed /\ told' = told /\ unlisted' = unlisted
  BY QueueAccept DEF QueueAccepts, Accept
<1>2. f \in Rows /\ status[f] # "none"
  BY <1>1, QueueFirst
<1>3. QueueGrows
  BY <1>1, QueueTypeSettles DEF QueueGrows, QueueSettles
<1>4. QueueTold(f)
  <2>1. CASE At(w, "fanning") /\ work[w].todo = {}
    <3>1. user[f] = None
      BY <2>1 DEF QueueTypeOK, WorkOK
    <3> QED BY <2>1, <3>1 DEF QueueTold, QueueTelling, FanningHolds
  <2>2. CASE user[f] \in Blocked
    <3>1. user[f] # None
      BY <2>2, NoneAssumption, TopicsAssumption
    <3> QED BY <2>2, <3>1 DEF QueueTold
  <2>3. CASE user[f] \in Addressees /\ WasSentRecently(f)
    <3>1. user[f] # None
      BY <2>3, NoneAssumption
    <3>2. PICK s \in Sent : user[s] = user[f] /\ topic[s] = topic[f]
      BY <2>3 DEF WasSentRecently, Key
    <3>3. QueueTold(s)
      BY <3>2 DEF QueueTelling
    <3> QED BY <3>1, <3>2, <3>3 DEF QueueTold
  <2>4. CASE /\ user[f] \in Addressees
             /\ \E text \in Texts(topic[f]) : WasContentSentRecently(f, text)
    <3>1. user[f] # None
      BY <2>4, NoneAssumption
    <3>2. PICK text \in Texts(topic[f]) : WasContentSentRecently(f, text)
      BY <2>4
    <3>3. PICK s \in Rows : user[s] = user[f] /\ content[s] = text
      BY <3>2 DEF WasContentSentRecently, Sent
    <3>4. text # None
      BY <1>2, <3>1, <3>2, NoneAssumption DEF Texts, QueueTypeOK, RowOK, Topics
    <3> QED BY <3>1, <3>2, <3>3, <3>4 DEF QueueTold, Worded
  <2>5. CASE At(w, "mailed")
    <3>1. user[f] \in Addressees /\ body[w] \in Texts(topic[f]) /\ <<user[f], body[w]>> \in told
      BY <2>5 DEF QueueTypeOK, WorkOK, Worded
    <3>2. user[f] # None
      BY <3>1, NoneAssumption
    <3> QED BY <3>1, <3>2 DEF QueueTold
  <2> QED BY <2>1, <2>2, <2>3, <2>4, <2>5 DEF QueueAccepts, QueueReason
<1>5. ASSUME NEW r \in Rows, status'[r] = "sent", status[r] # "sent"
      PROVE  QueueTold(r)'
  <2>1. r = f
    BY <1>1, <1>5 DEF QueueSettles
  <2> QED BY <1>2, <1>3, <1>4, <2>1, QueueToldStays
<1>6. \A x \in Workers : At(x, "fanning")' => At(x, "fanning") /\ work'[x] = work[x]
  BY <1>1, QueueDone DEF QueueSettles
<1> QED BY <1>3, <1>5, <1>6, QueueTellingOn

LEMMA QueueTellingFanOutUser ==
    ASSUME QueueTypeOK, QueueTelling, NEW w \in Workers, NEW u \in Addressees,
           FanOutUser(w, u)
    PROVE  QueueTelling'
<1> DEFINE f == First(w)
<1>1. /\ At(w, "fanning") /\ recent' = recent /\ mailed' = mailed /\ told' = told
      /\ Go(w, "fanning", work[w].todo \ {u})
      /\ user[f] = None
  BY DEF FanOutUser, QueueTypeOK, WorkOK
<1>2. topic[f] \in Topics /\ u # None /\ f \in Rows /\ status[f] # "none"
  BY <1>1, QueueFirst, QueueFanOutFacts, NoneAssumption DEF Topics
<1>3. work[w].todo \ {u} \in SUBSET Addressees
  BY DEF QueueTypeOK, WorkOK, Work
<1>4. /\ \A x \in Workers \ {w} : work'[x] = work[x]
      /\ work'[w].todo = work[w].todo \ {u} /\ First(w)' = f
  BY <1>1, <1>3, QueueGo DEF Step
<1>5. /\ QueueGrows
      /\ \A r \in Rows : status'[r] = "sent" => status[r] = "sent"
      /\ \/ \E s \in Rows : user'[s] = u /\ topic'[s] = topic[f]
         \/ <<f, u>> \in unlisted'
  <2>1. CASE Enqueue(u, topic[f]) /\ UNCHANGED <<faults, unlisted>>
    BY <1>1, <1>2, <2>1, QueueEnqueue DEF QueueGrows
  <2>2. CASE UNCHANGED table /\ unlisted' = unlisted \cup {<<f, u>>}
    BY <1>1, <2>2 DEF QueueGrows, QueueKept, table
  <2> QED BY <2>1, <2>2 DEF FanOutUser
<1>6. topic'[f] = topic[f]
  BY <1>2, <1>5 DEF QueueGrows, QueueKept
<1>7. HasRow(f, u)'
  <2>1. PICK r \in Rows : r = f
    BY <1>2
  <2>2. HasRow(r, u)'
    BY <1>5, <1>6, <2>1 DEF HasRow, Rows
  <2> QED BY <1>4, <2>1, <2>2 DEF HasRow
<1>8. ASSUME NEW x \in Workers, At(x, "fanning")', NEW v \in Sharers[topic[First(x)]]'
      PROVE  v \in work'[x].todo \/ HasRow(First(x), v)'
  <2>1. At(x, "fanning") /\ First(x)' = First(x)
    BY <1>1, <1>4, <1>8 DEF First
  <2>2. topic'[First(x)] = topic[First(x)]
    BY <1>5, <2>1, QueueFirst DEF QueueGrows, QueueKept
  <2>3. v \in Sharers[topic[First(x)]]
    BY <1>8, <2>1, <2>2
  <2>4. v \in Addressees
    BY <2>1, <2>3, QueueFanOutFacts DEF QueueTypeOK, WorkOK
  <2>5. v \in work[x].todo \/ HasRow(First(x), v)
    BY <2>1, <2>3 DEF QueueTelling, FanningHolds
  <2>6. CASE HasRow(First(x), v)
    BY <1>5, <2>1, <2>4, <2>6, QueueFanningOn
  <2>7. CASE v \in work[x].todo
    BY <1>4, <1>7, <2>7
  <2> QED BY <2>5, <2>6, <2>7
<1>9. FanningHolds'
  BY <1>8 DEF FanningHolds
<1>10. ASSUME NEW r \in Rows, status'[r] = "sent"
       PROVE  QueueTold(r)'
  BY <1>5, <1>10, QueueToldStays DEF QueueTelling, Sent
<1> QED BY <1>9, <1>10 DEF QueueTelling, Sent, Rows

LEMMA QueueTellingStep ==
    ASSUME QueueTypeOK, Worded, QueueTelling, [QueueNext]_(queueVars)
    PROVE  QueueTelling'
<1>1. ASSUME UNCHANGED <<status, user, topic>>, told \subseteq told', unlisted' = unlisted,
             \A w \in Workers : At(w, "fanning")' =>
                 At(w, "fanning") /\ work'[w] = work[w]
      PROVE  QueueTelling'
  BY <1>1, QueueTellingOn DEF QueueGrows, QueueKept
<1>2. CASE UNCHANGED queueVars \/ \E r \in Rows : Forget(r)
  <2>1. UNCHANGED <<status, user, topic, told, unlisted, work>>
    BY <1>2 DEF queueVars, table, mailHistory, Forget
  <2> QED BY <1>1, <2>1
<1>3. ASSUME NEW u \in Addressees \cup {None}, NEW t \in Topics, u = None => t \in Rotations,
             QueueRow(u, t)
      PROVE  QueueTelling'
  <2>1. /\ recent' = recent /\ mailed' = mailed /\ told' = told /\ unlisted' = unlisted /\ work' = work
        /\ Enqueue(u, t)
    BY <1>3 DEF QueueRow, mailHistory
  <2>2. QueueGrows /\ \A r \in Rows : status'[r] = "sent" => status[r] = "sent"
    BY <1>3, <2>1, QueueEnqueue DEF QueueGrows
  <2> QED BY <2>1, <2>2, QueueTellingOn
<1>4. ASSUME NEW w \in Workers, Dequeue(w) \/ Crash(w)
      PROVE  QueueTelling'
  <2>1. /\ UNCHANGED <<status, user, topic, told, unlisted>>
        /\ \A x \in Workers \ {w} : work'[x] = work[x]
        /\ ~At(w, "fanning")'
    BY <1>4 DEF Dequeue, Crash, table, mailHistory, QueueTypeOK,
                BatchOf, Idle
  <2> QED BY <1>1, <2>1
<1>5. ASSUME NEW w \in Workers, Prepare(w) \/ Send(w)
      PROVE  QueueTelling'
  <2>1. /\ UNCHANGED <<status, user, topic, unlisted>> /\ told \subseteq told'
        /\ Go(w, "sending", {}) \/ Go(w, "mailed", {})
    BY <1>5 DEF Prepare, Send, Mail, table, mailHistory
  <2>2. ~At(w, "fanning")' /\ \A x \in Workers \ {w} : work'[x] = work[x]
    BY <2>1, QueueGo DEF Step
  <2> QED BY <1>1, <2>1, <2>2
<1>6. ASSUME NEW w \in Workers, FanOut(w)
      PROVE  QueueTelling'
  <2> DEFINE f == First(w)
             S == Sharers[topic[f]]
  <2>1. /\ UNCHANGED <<status, user, topic, told, unlisted>>
        /\ Go(w, "fanning", S) /\ user[f] = None /\ ~At(w, "idle")
    BY <1>6 DEF FanOut, table, mailHistory
  <2>2. S \in SUBSET Addressees
    BY <2>1, QueueFanOutFacts
  <2>3. /\ \A x \in Workers \ {w} : work'[x] = work[x]
        /\ work'[w].todo = S /\ First(w)' = f
    BY <2>1, <2>2, QueueGo DEF Step
  <2>4. ASSUME NEW x \in Workers, At(x, "fanning")', NEW u \in Sharers[topic[First(x)]]'
        PROVE  u \in work'[x].todo \/ HasRow(First(x), u)'
    <3>1. CASE x = w
      BY <2>1, <2>3, <2>4, <3>1
    <3>2. CASE x # w
      <4>1. work'[x] = work[x] /\ First(x)' = First(x)
        BY <2>3, <3>2 DEF First
      <4> QED BY <2>1, <2>4, <4>1 DEF QueueTelling, FanningHolds, HasRow
    <3> QED BY <3>1, <3>2
  <2>5. QueueGrows
    BY <2>1 DEF QueueGrows, QueueKept
  <2>6. ASSUME NEW r \in Rows, status'[r] = "sent"
        PROVE  QueueTold(r)'
    BY <2>1, <2>5, <2>6, QueueToldStays DEF QueueTelling, Sent
  <2> QED BY <2>4, <2>6 DEF QueueTelling, Sent, Rows, FanningHolds
<1>7. ASSUME NEW w \in Workers, QueueRefuses(w) \/ SendTimesOut(w)
      PROVE  QueueTelling'
  <2>1. /\ ~At(w, "idle") /\ QueueSettles(w)
        /\ mailed \subseteq mailed' /\ mailed' \subseteq mailed \cup {First(w)}
        /\ unlisted' = unlisted /\ told \subseteq told'
        /\ status' = status \/ status'[First(w)] = "failed"
    BY <1>7, QueueRefuse, QueueTimesOut DEF QueueRefuses, Refuse, SendTimesOut, Mail
  <2>2. QueueGrows
    BY <2>1, QueueTypeSettles DEF QueueGrows, QueueSettles
  <2>3. \A r \in Rows : status'[r] = "sent" => status[r] = "sent"
    BY <2>1 DEF QueueSettles
  <2>4. \A x \in Workers : At(x, "fanning")' => At(x, "fanning") /\ work'[x] = work[x]
    BY <2>1, QueueDone DEF QueueSettles
  <2> QED BY <2>2, <2>3, <2>4, QueueTellingOn
<1>8. ASSUME NEW w \in Workers, QueueStep(w)
      PROVE  QueueTelling'
  BY <1>4, <1>5, <1>6, <1>7, <1>8, QueueTellingAccepts, QueueTellingFanOutUser DEF QueueStep
<1> QED BY <1>2, <1>3, <1>8, QueueCases

\* A row is on record as sent only when its user was mailed a text of its topic
\* or is blocked, and an event only when each of its users has a row or an error
\* kept theirs out: whatever the rate limit and the look-up of the content skip.
THEOREM QueueSentMeansTold ==
    QueueSpec => []SentMeansTold
<1>1. QueueInit => QueueTelling /\ Worded
  BY DEF QueueInit, QueueTelling, FanningHolds, Worded, Sent, Rows, Idle
<1>2. QueueTelling => SentMeansTold
  BY DEF QueueTelling, SentMeansTold, QueueTold, HasRow
<1> QED
  BY <1>1, <1>2, QueueTellingStep, QueueWordedStep, QueueTypeInvariant, PTL DEF QueueSpec
=============================================================================
