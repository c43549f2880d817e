------------------------------- MODULE SignIn -------------------------------
(***************************************************************************)
(* Signing in to one account: the password with its counter of failures    *)
(* and its lock, the second factor with its own counter, the set-up of     *)
(* that factor in two calls, and the backup codes.                         *)
(*                                                                         *)
(* A handler judges the row it read first; what it then writes are         *)
(* statements of their own, whose failure is mostly only logged.  Which    *)
(* tokens stay valid is the matter of Sessions.                            *)
(***************************************************************************)
EXTENDS Naturals, FiniteSets

CONSTANTS
    Handlers,         \* bound: requests in flight at a time
    LockoutThreshold, \* accountLockoutThreshold
    FactorThreshold,  \* mfaLockoutThreshold
    BackupCodes,      \* codes made by a set-up
    MaxFailed,        \* bound: either counter of failures
    MaxSecrets,       \* bound: secrets ever made
    MaxSetups         \* bound: set-ups completed

ASSUME HandlersAssumption == IsFiniteSet(Handlers)
ASSUME ThresholdAssumption ==
    LockoutThreshold \in Nat \ {0} /\ FactorThreshold \in Nat \ {0}
ASSUME BoundAssumption ==
    BackupCodes \in Nat /\ MaxFailed \in Nat /\ MaxSecrets \in Nat /\ MaxSetups \in Nat

VARIABLES
    failed,    \* failed_login_attempts
    locked,    \* locked_until lies ahead
    missed,    \* failed_mfa_attempts
    verified,  \* email_verified
    enabled,   \* mfa_enabled, the opposite of mfa_setup_required
    secret,    \* mfa_secret: the number of the secret, 0 for NULL
    codes,     \* mfa_backup_codes: <<set-up, number>>
    made,      \* secrets made so far
    setups,    \* set-ups completed so far
    tokens,    \* types of the tokens out that do not open the account yet
    request,   \* what each handler is doing
    \* History, read by the properties only.
    guesses,   \* wrong passwords judged since the counter was reset or the lock ran out
    tries,     \* wrong second factors judged since the counter was reset
    spent,     \* backup codes redeemed
    confirmed, \* secrets of which a code was given
    replaced   \* the secret was replaced by a set-up begun late

counters == <<failed, locked, missed>>
factor   == <<enabled, secret, codes, made, setups>>
history  == <<guesses, tries, spent, confirmed, replaced>>
vars     == <<counters, verified, factor, tokens, request, history>>

Types == {"email_unverified", "mfa_setup", "pending_mfa"}
Codes == (1 .. MaxSetups) \X (1 .. BackupCodes)
Batch(n) == {n} \X (1 .. BackupCodes)

Idle == [op |-> "idle"]
Wrong             == [op |-> "wrong"]
Locking           == [op |-> "locking"]
Right(f, m, k)    == [op |-> "right", failures |-> f, misses |-> m, type |-> k]
Granting(m, k)    == [op |-> "granting", misses |-> m, type |-> k]
Enabling          == [op |-> "enabling"]
Redeeming(c, m)   == [op |-> "redeeming", code |-> c, misses |-> m]
Mistaken          == [op |-> "mistaken"]
Verified(m)       == [op |-> "verified", misses |-> m]

Requests ==
    [op : {"idle", "wrong", "locking", "enabling", "mistaken"}]
    \cup [op : {"right"}, failures : BOOLEAN, misses : BOOLEAN, type : Types]
    \cup [op : {"granting"}, misses : BOOLEAN, type : Types]
    \cup [op : {"redeeming"}, code : Codes, misses : BOOLEAN]
    \cup [op : {"verified"}, misses : BOOLEAN]

Turn(h, r) == request' = [request EXCEPT ![h] = r]

\* The type of token Login decides on.
LoginType ==
    IF ~verified THEN "email_unverified"
    ELSE IF enabled THEN "pending_mfa" ELSE "mfa_setup"

Doing(ops) == {h \in Handlers : request[h].op \in ops}
-----------------------------------------------------------------------------
Init ==
    /\ failed = 0
    /\ locked = FALSE
    /\ missed = 0
    /\ verified \in BOOLEAN
    /\ enabled = FALSE
    /\ secret = 0
    /\ codes = {}
    /\ made = 0
    /\ setups = 0
    /\ tokens = {}
    /\ request = [h \in Handlers |-> Idle]
    /\ guesses = 0
    /\ tries = 0
    /\ spent = {}
    /\ confirmed = {}
    /\ replaced = FALSE
-----------------------------------------------------------------------------
(* The password.                                                           *)

\* Login with a wrong password, of a row that is not locked.
GuessWrong(h) ==
    /\ request[h] = Idle
    /\ ~locked
    /\ failed < MaxFailed
    /\ guesses' = guesses + 1
    /\ Turn(h, Wrong)
    /\ UNCHANGED <<counters, verified, factor, tokens, tries, spent, confirmed, replaced>>

\* IncrementFailedLoginAttempts returns the count that decides on the lock.
CountFailure(h) ==
    /\ request[h] = Wrong
    /\ failed' = failed + 1
    /\ Turn(h, IF failed' >= LockoutThreshold THEN Locking ELSE Idle)
    /\ UNCHANGED <<locked, missed, verified, factor, tokens, history>>

LockAccount(h) ==
    /\ request[h] = Locking
    /\ locked' = TRUE
    /\ Turn(h, Idle)
    /\ UNCHANGED <<failed, missed, verified, factor, tokens, history>>

\* The error of either statement is logged: the guess goes uncounted.
LoseFailure(h) ==
    /\ request[h] \in {Wrong, Locking}
    /\ guesses' = IF guesses > 0 THEN guesses - 1 ELSE 0
    /\ Turn(h, Idle)
    /\ UNCHANGED <<counters, verified, factor, tokens, tries, spent, confirmed, replaced>>

\* The lock runs out; the counter stays, so that the next failure locks again.
Unlock ==
    /\ locked
    /\ locked' = FALSE
    /\ guesses' = 0
    /\ UNCHANGED <<failed, missed, verified, factor, tokens, request, tries, spent, confirmed,
          replaced>>

\* Login with the right password: counters, type of token and lock as the row read has them.
GuessRight(h) ==
    /\ request[h] = Idle
    /\ ~locked
    /\ Turn(h, Right(failed > 0, missed > 0, LoginType))
    /\ UNCHANGED <<counters, verified, factor, tokens, history>>

\* ResetFailedLoginAttempts clears a lock set since the row was read, too.
ResetFailures(h) ==
    /\ request[h].op = "right"
    /\ \/ /\ request[h].failures
          /\ failed' = 0
          /\ locked' = FALSE
          /\ guesses' = 0
       \/ UNCHANGED <<failed, locked, guesses>>
    /\ Turn(h, Granting(request[h].misses, request[h].type))
    /\ UNCHANGED <<missed, verified, factor, tokens, tries, spent, confirmed, replaced>>

\* ResetFailedMFAAttempts, and the token.
GrantToken(h) ==
    /\ request[h].op = "granting"
    /\ \/ request[h].misses /\ missed' = 0 /\ tries' = 0
       \/ UNCHANGED <<missed, tries>>
    /\ tokens' = tokens \cup {request[h].type}
    /\ Turn(h, Idle)
    /\ UNCHANGED <<failed, locked, verified, factor, guesses, spent, confirmed, replaced>>

\* The link of the e-mail.
VerifyEmail ==
    /\ ~verified
    /\ verified' = TRUE
    /\ UNCHANGED <<counters, factor, tokens, request, history>>

ExpireToken(k) ==
    /\ k \in tokens
    /\ tokens' = tokens \ {k}
    /\ UNCHANGED <<counters, verified, factor, request, history>>
-----------------------------------------------------------------------------
(* Setting up the second factor.                                           *)

\* InitSetup asks neither whether the factor is enabled nor whether a set-up is under way.
InitSetup ==
    /\ "mfa_setup" \in tokens
    /\ made < MaxSecrets
    /\ made' = made + 1
    /\ secret' = made'
    /\ replaced' = (replaced \/ enabled \/ Doing({"enabling"}) # {})
    /\ UNCHANGED <<counters, verified, enabled, codes, setups, tokens, request, guesses, tries,
          spent, confirmed>>

\* Mutant of ConfirmSecret: the code is not validated.
ConfirmUnvalidated(h) ==
    /\ request[h] = Idle
    /\ "mfa_setup" \in tokens
    /\ secret # 0
    /\ Turn(h, Enabling)
    /\ UNCHANGED <<counters, verified, factor, tokens, history>>

\* CompleteSetup, up to the hashing of the backup codes: the code was made with the secret read.
ConfirmSecret(h) ==
    /\ request[h] = Idle
    /\ "mfa_setup" \in tokens
    /\ secret # 0
    /\ confirmed' = confirmed \cup {secret}
    /\ Turn(h, Enabling)
    /\ UNCHANGED <<counters, verified, factor, tokens, guesses, tries, spent, replaced>>

\* EnableMFA writes whatever the row holds by now; the codes of an earlier set-up are lost.
EnableMFA(h) ==
    /\ request[h] = Enabling
    /\ setups < MaxSetups
    /\ setups' = setups + 1
    /\ enabled' = TRUE
    /\ codes' = Batch(setups')
    /\ Turn(h, Idle)
    /\ UNCHANGED <<counters, verified, secret, made, tokens, history>>
-----------------------------------------------------------------------------
(* The second factor.                                                      *)

\* Mutant of MayVerify: the counter is not compared.
MayVerifyAlways ==
    /\ "pending_mfa" \in tokens
    /\ enabled
    /\ secret # 0

\* What Verify asks of the row it reads.
MayVerify ==
    /\ "pending_mfa" \in tokens
    /\ enabled
    /\ secret # 0
    /\ missed < FactorThreshold

GiveCode(h) ==
    /\ request[h] = Idle
    /\ MayVerify
    /\ Turn(h, Verified(missed > 0))
    /\ UNCHANGED <<counters, verified, factor, tokens, history>>

GiveWrongCode(h) ==
    /\ request[h] = Idle
    /\ MayVerify
    /\ missed < MaxFailed
    /\ tries' = tries + 1
    /\ Turn(h, Mistaken)
    /\ UNCHANGED <<counters, verified, factor, tokens, guesses, spent, confirmed, replaced>>

\* Any backup code that was ever shown, spent ones among them.
GiveBackupCode(h, c) ==
    /\ request[h] = Idle
    /\ MayVerify
    /\ missed < MaxFailed
    /\ c[1] <= setups
    /\ Turn(h, Redeeming(c, missed > 0))
    /\ UNCHANGED <<counters, verified, factor, tokens, history>>

\* Mutant of RedeemBackupCode: the list written back is the one the request began with.
RedeemOfList(h) ==
    /\ request[h].op = "redeeming"
    /\ request[h].code \in codes
    /\ codes' = Batch(setups) \ {request[h].code}
    /\ spent' = spent \cup {request[h].code}
    /\ Turn(h, Verified(request[h].misses))
    /\ UNCHANGED <<counters, verified, enabled, secret, made, setups, tokens, guesses, tries,
          confirmed, replaced>>

\* The transaction locks the row and judges the codes it holds now.
RedeemBackupCode(h) ==
    /\ request[h].op = "redeeming"
    /\ request[h].code \in codes
    /\ codes' = codes \ {request[h].code}
    /\ spent' = spent \cup {request[h].code}
    /\ Turn(h, Verified(request[h].misses))
    /\ UNCHANGED <<counters, verified, enabled, secret, made, setups, tokens, guesses, tries,
          confirmed, replaced>>

\* No code left is an error that is not counted.
RefuseBackupCode(h) ==
    /\ request[h].op = "redeeming"
    /\ request[h].code \notin codes
    /\ \/ codes = {} /\ Turn(h, Idle) /\ UNCHANGED tries
       \/ codes # {} /\ Turn(h, Mistaken) /\ tries' = tries + 1
    /\ UNCHANGED <<counters, verified, factor, tokens, guesses, spent, confirmed, replaced>>

\* handleMFAFailure; if the statement fails the user is told of a lock that is not there.
CountMiss(h) ==
    /\ request[h] = Mistaken
    /\ \/ missed' = missed + 1 /\ UNCHANGED tries
       \/ UNCHANGED missed /\ tries' = IF tries > 0 THEN tries - 1 ELSE 0
    /\ Turn(h, Idle)
    /\ UNCHANGED <<failed, locked, verified, factor, tokens, guesses, spent, confirmed, replaced>>

\* The counter is reset if the row read had one, and the full token is issued.
FinishVerify(h) ==
    /\ request[h].op = "verified"
    /\ \/ request[h].misses /\ missed' = 0 /\ tries' = 0
       \/ UNCHANGED <<missed, tries>>
    /\ Turn(h, Idle)
    /\ UNCHANGED <<failed, locked, verified, factor, tokens, guesses, spent, confirmed, replaced>>

\* The next statement of a request fails with an error, and the request ends.
Fail(h) ==
    /\ request[h].op \in {"right", "granting", "enabling", "redeeming", "verified"}
    /\ Turn(h, Idle)
    /\ UNCHANGED <<counters, verified, factor, tokens, history>>

Next ==
    \/ \E h \in Handlers :
        \/ GuessWrong(h) \/ CountFailure(h) \/ LockAccount(h) \/ LoseFailure(h)
        \/ GuessRight(h) \/ ResetFailures(h) \/ GrantToken(h)
        \/ ConfirmSecret(h) \/ EnableMFA(h)
        \/ GiveCode(h) \/ GiveWrongCode(h) \/ \E c \in Codes : GiveBackupCode(h, c)
        \/ RedeemBackupCode(h) \/ RefuseBackupCode(h) \/ CountMiss(h) \/ FinishVerify(h)
        \/ Fail(h)
    \/ Unlock \/ VerifyEmail \/ InitSetup
    \/ \E k \in Types : ExpireToken(k)

Spec == Init /\ [][Next]_vars
-----------------------------------------------------------------------------
\* Type invariant of the account and of the requests in flight; the codes are of the last set-up.
TypeOK ==
    /\ failed \in Nat /\ missed \in Nat /\ made \in Nat /\ secret \in 0 .. made
    /\ locked \in BOOLEAN /\ verified \in BOOLEAN /\ enabled \in BOOLEAN
    /\ setups \in 0 .. MaxSetups
    /\ codes \subseteq Codes
    /\ \A c \in codes : c[1] = setups
    /\ tokens \subseteq Types
    /\ request \in [Handlers -> Requests]
    /\ guesses \in Nat /\ tries \in Nat
    /\ spent \subseteq Codes
    /\ confirmed \subseteq 1 .. made
    /\ replaced \in BOOLEAN

\* Overlapping logins and verifications are judged by counters that the others have not yet
\* raised: beyond the threshold there are at most as many guesses as requests in flight.
TriesAreBounded ==
    /\ guesses < LockoutThreshold + Cardinality(Handlers)
    /\ tries < FactorThreshold + Cardinality(Handlers)

\* A backup code that opened a session does not come back, whoever redeems another with it.
SpentCodesStaySpent == codes \cap spent = {}

\* The factor that is asked for is one the user gave a code of, unless a set-up was begun
\* again while another was being completed or after it.
SecretIsConfirmed == enabled => secret \in confirmed \/ replaced
=============================================================================
