---------------------------- MODULE SignInProofs ----------------------------
(* The invariants of SignIn hold for any handlers, thresholds and codes.   *)
EXTENDS SignIn, FiniteSetTheorems, TLAPS

\* The operations of a request in flight and the fields they carry.
LEMMA RequestFields ==
    ASSUME NEW q \in Requests
    PROVE  /\ q.op = "right" => q.failures \in BOOLEAN /\ q.misses \in BOOLEAN /\ q.type \in Types
           /\ q.op = "granting" => q.misses \in BOOLEAN /\ q.type \in Types
           /\ q.op = "redeeming" => q.code \in Codes /\ q.misses \in BOOLEAN
           /\ q.op = "verified" => q.misses \in BOOLEAN
<1>1. CASE q \in [op : {"idle", "wrong", "locking", "enabling", "mistaken"}]
  BY <1>1
<1>2. CASE q \in [op : {"right"}, failures : BOOLEAN, misses : BOOLEAN, type : Types]
  BY <1>2
<1>3. CASE q \in [op : {"granting"}, misses : BOOLEAN, type : Types]
  BY <1>3
<1>4. CASE q \in [op : {"redeeming"}, code : Codes, misses : BOOLEAN]
  BY <1>4
<1>5. CASE q \in [op : {"verified"}, misses : BOOLEAN]
  BY <1>5
<1> QED
  BY <1>1, <1>2, <1>3, <1>4, <1>5 DEF Requests

\* The requests that actions store are requests.
LEMMA RequestTypes ==
    /\ Idle \in Requests /\ Wrong \in Requests /\ Locking \in Requests
    /\ Enabling \in Requests /\ Mistaken \in Requests
    /\ \A f, m \in BOOLEAN, k \in Types : Right(f, m, k) \in Requests
    /\ \A m \in BOOLEAN, k \in Types : Granting(m, k) \in Requests
    /\ \A c \in Codes, m \in BOOLEAN : Redeeming(c, m) \in Requests
    /\ \A m \in BOOLEAN : Verified(m) \in Requests
BY DEF Requests, Idle, Wrong, Locking, Enabling, Mistaken, Right, Granting, Redeeming, Verified

(***************************************************************************)
(* Types.                                                                  *)
(***************************************************************************)

\* The types hold initially.
LEMMA InitType == Init => TypeOK
<1> SUFFICES ASSUME Init PROVE TypeOK
  OBVIOUS
<1>1. request \in [Handlers -> Requests]
  BY RequestTypes DEF Init
<1>2. setups \in 0 .. MaxSetups /\ secret \in 0 .. made /\ made \in Nat
  BY BoundAssumption DEF Init
<1> QED
  BY <1>1, <1>2 DEF Init, TypeOK

\* A turn keeps the requests well typed.
LEMMA TurnType ==
    ASSUME TypeOK, NEW h \in Handlers, NEW q \in Requests, Turn(h, q)
    PROVE  request' \in [Handlers -> Requests]
BY DEF TypeOK, Turn

\* Every step preserves the types.
LEMMA StepType == TypeOK /\ [Next]_vars => TypeOK'
<1> SUFFICES ASSUME TypeOK, [Next]_vars PROVE TypeOK'
  OBVIOUS
<1> USE RequestTypes DEF counters, factor, history
<1>1. ASSUME NEW h \in Handlers, GuessWrong(h) PROVE TypeOK'
  BY <1>1, TurnType DEF GuessWrong, TypeOK
<1>2. ASSUME NEW h \in Handlers, CountFailure(h) PROVE TypeOK'
  BY <1>2, TurnType DEF CountFailure, TypeOK
<1>3. ASSUME NEW h \in Handlers, LockAccount(h) PROVE TypeOK'
  BY <1>3, TurnType DEF LockAccount, TypeOK
<1>4. ASSUME NEW h \in Handlers, LoseFailure(h) PROVE TypeOK'
  BY <1>4, TurnType DEF LoseFailure, TypeOK
<1>5. ASSUME NEW h \in Handlers, GuessRight(h) PROVE TypeOK'
  <2>1. LoginType \in Types
    BY DEF LoginType, Types
  <2>2. PICK f \in BOOLEAN, m \in BOOLEAN : Turn(h, Right(f, m, LoginType))
    <3>1. (failed > 0) \in BOOLEAN /\ (missed > 0) \in BOOLEAN
      OBVIOUS
    <3>2. Turn(h, Right(failed > 0, missed > 0, LoginType))
      BY <1>5 DEF GuessRight
    <3> QED
      BY <3>1, <3>2
  <2>3. request' \in [Handlers -> Requests]
    BY <2>1, <2>2, TurnType
  <2> QED
    BY <1>5, <2>3 DEF GuessRight, TypeOK
<1>6. ASSUME NEW h \in Handlers, ResetFailures(h) PROVE TypeOK'
  <2>1. request[h].misses \in BOOLEAN /\ request[h].type \in Types
    BY <1>6, RequestFields DEF ResetFailures, TypeOK
  <2>2. request' \in [Handlers -> Requests]
    BY <1>6, <2>1, TurnType DEF ResetFailures
  <2> QED
    <3>1. UNCHANGED <<missed, verified, factor, tokens, tries, spent, confirmed, replaced>>
      BY <1>6 DEF ResetFailures
    <3>2. failed' \in Nat /\ locked' \in BOOLEAN /\ guesses' \in Nat
      <4>1. CASE failed' = 0 /\ locked' = FALSE /\ guesses' = 0
        BY <4>1
      <4>2. CASE UNCHANGED <<failed, locked, guesses>>
        BY <4>2 DEF TypeOK
      <4> QED
        BY <1>6, <4>1, <4>2 DEF ResetFailures
    <3> QED
      BY <2>2, <3>1, <3>2 DEF TypeOK
<1>7. ASSUME NEW h \in Handlers, GrantToken(h) PROVE TypeOK'
  <2>1. request[h].type \in Types
    BY <1>7, RequestFields DEF GrantToken, TypeOK
  <2> QED
    BY <1>7, <2>1, TurnType DEF GrantToken, TypeOK
<1>8. ASSUME NEW h \in Handlers, ConfirmSecret(h) PROVE TypeOK'
  BY <1>8, TurnType DEF ConfirmSecret, TypeOK
<1>9. ASSUME NEW h \in Handlers, EnableMFA(h) PROVE TypeOK'
  <2>1. setups' \in 0 .. MaxSetups /\ setups' \in 1 .. MaxSetups
    BY <1>9, BoundAssumption DEF EnableMFA, TypeOK
  <2>2. codes' \subseteq Codes /\ \A c \in codes' : c[1] = setups'
    BY <1>9, <2>1 DEF EnableMFA, Batch, Codes
  <2> QED
    BY <1>9, <2>1, <2>2, TurnType DEF EnableMFA, TypeOK
<1>10. ASSUME NEW h \in Handlers, GiveCode(h) PROVE TypeOK'
  <2>1. PICK m \in BOOLEAN : Turn(h, Verified(m))
    <3>1. (missed > 0) \in BOOLEAN
      OBVIOUS
    <3>2. Turn(h, Verified(missed > 0))
      BY <1>10 DEF GiveCode
    <3> QED
      BY <3>1, <3>2
  <2>2. request' \in [Handlers -> Requests]
    BY <2>1, TurnType
  <2> QED
    BY <1>10, <2>2 DEF GiveCode, TypeOK
<1>11. ASSUME NEW h \in Handlers, GiveWrongCode(h) PROVE TypeOK'
  BY <1>11, TurnType DEF GiveWrongCode, TypeOK
<1>12. ASSUME NEW h \in Handlers, NEW c \in Codes, GiveBackupCode(h, c) PROVE TypeOK'
  <2>1. PICK m \in BOOLEAN : Turn(h, Redeeming(c, m))
    <3>1. (missed > 0) \in BOOLEAN
      OBVIOUS
    <3>2. Turn(h, Redeeming(c, missed > 0))
      BY <1>12 DEF GiveBackupCode
    <3> QED
      BY <3>1, <3>2
  <2>2. request' \in [Handlers -> Requests]
    BY <2>1, TurnType
  <2> QED
    BY <1>12, <2>2 DEF GiveBackupCode, TypeOK
<1>13. ASSUME NEW h \in Handlers, RedeemBackupCode(h) PROVE TypeOK'
  <2>1. request[h].code \in Codes /\ request[h].misses \in BOOLEAN
    BY <1>13, RequestFields DEF RedeemBackupCode, TypeOK
  <2> QED
    BY <1>13, <2>1, TurnType DEF RedeemBackupCode, TypeOK
<1>14. ASSUME NEW h \in Handlers, RefuseBackupCode(h) PROVE TypeOK'
  BY <1>14, TurnType DEF RefuseBackupCode, TypeOK
<1>15. ASSUME NEW h \in Handlers, CountMiss(h) PROVE TypeOK'
  BY <1>15, TurnType DEF CountMiss, TypeOK
<1>16. ASSUME NEW h \in Handlers, FinishVerify(h) PROVE TypeOK'
  BY <1>16, TurnType DEF FinishVerify, TypeOK
<1>17. ASSUME NEW h \in Handlers, Fail(h) PROVE TypeOK'
  BY <1>17, TurnType DEF Fail, TypeOK
<1>18. CASE Unlock
  BY <1>18 DEF Unlock, TypeOK
<1>19. CASE VerifyEmail
  BY <1>19 DEF VerifyEmail, TypeOK
<1>20. CASE InitSetup
  BY <1>20 DEF InitSetup, TypeOK
<1>21. ASSUME NEW k \in Types, ExpireToken(k) PROVE TypeOK'
  BY <1>21 DEF ExpireToken, TypeOK
<1>22. CASE UNCHANGED vars
  BY <1>22 DEF vars, TypeOK
<1> QED
  BY <1>1, <1>2, <1>3, <1>4, <1>5, <1>6, <1>7, <1>8, <1>9, <1>10, <1>11, <1>12, <1>13, <1>14,
     <1>15, <1>16, <1>17, <1>18, <1>19, <1>20, <1>21, <1>22 DEF Next

\* The account, its codes and the requests in flight keep their types.
THEOREM TypeCorrect == Spec => []TypeOK
<1> QED
  BY InitType, StepType, PTL DEF Spec

(***************************************************************************)
(* How many guesses there can be.                                          *)
(***************************************************************************)

\* The requests with an operation are finitely many, at most all handlers.
LEMMA DoingFinite ==
    ASSUME NEW S
    PROVE  /\ IsFiniteSet(Doing(S)) /\ Cardinality(Doing(S)) \in Nat
           /\ Cardinality(Doing(S)) <= Cardinality(Handlers) /\ Cardinality(Handlers) \in Nat
<1>1. Doing(S) \subseteq Handlers
  BY DEF Doing
<1> QED
  BY <1>1, HandlersAssumption, FS_Subset, FS_CardinalityType

\* The same in the next state.
LEMMA DoingFinite2 ==
    ASSUME NEW S
    PROVE  /\ IsFiniteSet(Doing(S)') /\ Cardinality(Doing(S)') \in Nat
           /\ Cardinality(Doing(S)') <= Cardinality(Handlers)
<1>1. Doing(S)' \subseteq Handlers
  BY DEF Doing
<1> QED
  BY <1>1, HandlersAssumption, FS_Subset, FS_CardinalityType

\* A request that begins, continues or ends an operation changes their number so.
LEMMA DoingTurn ==
    ASSUME TypeOK, NEW S, NEW h \in Handlers, NEW q, Turn(h, q)
    PROVE  /\ request[h].op \in S /\ q.op \in S
                  => Cardinality(Doing(S)') = Cardinality(Doing(S))
           /\ request[h].op \notin S /\ q.op \notin S
                  => Cardinality(Doing(S)') = Cardinality(Doing(S))
           /\ request[h].op \notin S /\ q.op \in S
                  => Cardinality(Doing(S)') = Cardinality(Doing(S)) + 1
           /\ request[h].op \in S /\ q.op \notin S
                  => Cardinality(Doing(S)') = Cardinality(Doing(S)) - 1
<1>1. IsFiniteSet(Doing(S)) /\ Cardinality(Doing(S)) \in Nat
  BY DoingFinite
<1>2. request[h].op \in S /\ q.op \in S => Doing(S)' = Doing(S)
  BY DEF TypeOK, Turn, Doing
<1>3. request[h].op \notin S /\ q.op \notin S => Doing(S)' = Doing(S)
  BY DEF TypeOK, Turn, Doing
<1>4. request[h].op \notin S /\ q.op \in S
          => h \notin Doing(S) /\ Doing(S)' = Doing(S) \cup {h}
  BY DEF TypeOK, Turn, Doing
<1>5. request[h].op \in S /\ q.op \notin S
          => h \in Doing(S) /\ Doing(S)' = Doing(S) \ {h}
  BY DEF TypeOK, Turn, Doing
<1>6. h \notin Doing(S) => Cardinality(Doing(S) \cup {h}) = Cardinality(Doing(S)) + 1
  BY <1>1, FS_AddElement
<1>7. h \in Doing(S) => Cardinality(Doing(S) \ {h}) = Cardinality(Doing(S)) - 1
  BY <1>1, FS_RemoveElement
<1> QED
  BY <1>2, <1>3, <1>4, <1>5, <1>6, <1>7

\* Counts are not negative.
LEMMA NonNegative == \A a, b \in Nat : 0 <= a + b
OBVIOUS

\* Guesses that are judged and not yet counted, and those that are counted.
Uncounted == Cardinality(Doing({"wrong", "locking"}))
Counted == IF failed < LockoutThreshold THEN failed ELSE LockoutThreshold - 1

\* While the row is not locked every guess is counted or will be.
GuessesCounted ==
    /\ guesses < LockoutThreshold + Cardinality(Handlers)
    /\ ~locked => guesses <= Uncounted + Counted

\* What one step may do to the guesses, the counter and the lock.
LEMMA QuietGuesses ==
    ASSUME TypeOK, GuessesCounted, NEW h \in Handlers, NEW q, Turn(h, q),
           request[h].op \notin {"wrong", "locking"}, q.op \notin {"wrong", "locking"},
           UNCHANGED <<failed, locked, guesses>>
    PROVE  GuessesCounted'
<1>1. Uncounted' = Uncounted
  BY DoingTurn DEF Uncounted
<1>2. Counted' = Counted
  BY DEF Counted
<1> QED
  BY <1>1, <1>2 DEF GuessesCounted

\* Every step keeps the account of the guesses.
LEMMA StepGuesses == TypeOK /\ GuessesCounted /\ [Next]_vars => GuessesCounted'
<1> SUFFICES ASSUME TypeOK, GuessesCounted, [Next]_vars PROVE GuessesCounted'
  OBVIOUS
<1> USE DEF counters, factor, history
<1>a. /\ Uncounted \in Nat /\ Uncounted <= Cardinality(Handlers)
      /\ Uncounted' \in Nat /\ Uncounted' <= Cardinality(Handlers)
      /\ Cardinality(Handlers) \in Nat /\ Counted \in Nat
      /\ Counted <= LockoutThreshold - 1 /\ LockoutThreshold \in Nat /\ guesses \in Nat
  BY DoingFinite, DoingFinite2, ThresholdAssumption DEF TypeOK, Uncounted, Counted
<1>b. 0 < LockoutThreshold + Cardinality(Handlers)
  BY <1>a
<1>1. ASSUME NEW h \in Handlers, GuessWrong(h) PROVE GuessesCounted'
  <2>1. Uncounted' = Uncounted + 1
    <3>1. Turn(h, Wrong) /\ request[h].op \notin {"wrong", "locking"} /\ Wrong.op \in {"wrong",
          "locking"}
      BY <1>1 DEF GuessWrong, Idle, Wrong
    <3> QED
      BY <3>1, DoingTurn DEF Uncounted
  <2>2. Counted' = Counted
    BY <1>1 DEF GuessWrong, Counted
  <2> QED
    BY <1>1, <1>a, <2>1, <2>2 DEF GuessWrong, GuessesCounted
<1>2. ASSUME NEW h \in Handlers, CountFailure(h) PROVE GuessesCounted'
  <2>1. CASE failed' >= LockoutThreshold
    <3>1. Turn(h, Locking)
      BY <1>2, <2>1 DEF CountFailure
    <3>2. Uncounted' = Uncounted
      BY <1>2, <3>1, DoingTurn DEF CountFailure, Uncounted, Wrong, Locking
    <3>3. Counted' = Counted
      BY <1>2, <2>1, ThresholdAssumption DEF CountFailure, Counted, TypeOK
    <3> QED
      BY <1>2, <3>2, <3>3 DEF CountFailure, GuessesCounted
  <2>2. CASE ~(failed' >= LockoutThreshold)
    <3>1. Turn(h, Idle)
      BY <1>2, <2>2 DEF CountFailure
    <3>2. Uncounted' = Uncounted - 1
      BY <1>2, <3>1, DoingTurn DEF CountFailure, Uncounted, Wrong, Idle
    <3>3. Counted' = Counted + 1
      BY <1>2, <2>2, ThresholdAssumption DEF CountFailure, Counted, TypeOK
    <3> QED
      BY <1>2, <1>a, <3>2, <3>3 DEF CountFailure, GuessesCounted
  <2> QED
    BY <2>1, <2>2
<1>3. ASSUME NEW h \in Handlers, LockAccount(h) PROVE GuessesCounted'
  BY <1>3 DEF LockAccount, GuessesCounted
<1>4. ASSUME NEW h \in Handlers, LoseFailure(h) PROVE GuessesCounted'
  <2>1. Uncounted' = Uncounted - 1
    BY <1>4, DoingTurn DEF LoseFailure, Uncounted, Idle, Wrong, Locking
  <2>2. Counted' = Counted
    BY <1>4 DEF LoseFailure, Counted
  <2> QED
    BY <1>4, <1>a, <2>1, <2>2 DEF LoseFailure, GuessesCounted
<1>5. ASSUME NEW h \in Handlers, GuessRight(h) PROVE GuessesCounted'
  BY <1>5, QuietGuesses DEF GuessRight, Right, Idle
<1>6. ASSUME NEW h \in Handlers, ResetFailures(h) PROVE GuessesCounted'
  <2>1. CASE guesses' = 0
    <3>1. Counted' \in Nat
      BY <1>6, ThresholdAssumption DEF ResetFailures, Counted, TypeOK
    <3> QED
      <4>1. guesses' < LockoutThreshold + Cardinality(Handlers)
        BY <1>b, <2>1
      <4>2. guesses' <= Uncounted' + Counted'
        BY <1>a, <2>1, <3>1, NonNegative
      <4> QED
        BY <4>1, <4>2 DEF GuessesCounted
  <2>2. CASE UNCHANGED <<failed, locked, guesses>>
    BY <1>6, <2>2, QuietGuesses DEF ResetFailures, Granting
  <2> QED
    BY <1>6, <2>1, <2>2 DEF ResetFailures
<1>7. ASSUME NEW h \in Handlers, GrantToken(h) PROVE GuessesCounted'
  BY <1>7, QuietGuesses DEF GrantToken, Idle
<1>8. ASSUME NEW h \in Handlers, ConfirmSecret(h) PROVE GuessesCounted'
  BY <1>8, QuietGuesses DEF ConfirmSecret, Enabling, Idle
<1>9. ASSUME NEW h \in Handlers, EnableMFA(h) PROVE GuessesCounted'
  BY <1>9, QuietGuesses DEF EnableMFA, Idle, Enabling
<1>10. ASSUME NEW h \in Handlers, GiveCode(h) PROVE GuessesCounted'
  BY <1>10, QuietGuesses DEF GiveCode, Verified, Idle
<1>11. ASSUME NEW h \in Handlers, GiveWrongCode(h) PROVE GuessesCounted'
  BY <1>11, QuietGuesses DEF GiveWrongCode, Mistaken, Idle
<1>12. ASSUME NEW h \in Handlers, NEW c \in Codes, GiveBackupCode(h, c) PROVE GuessesCounted'
  BY <1>12, QuietGuesses DEF GiveBackupCode, Redeeming, Idle
<1>13. ASSUME NEW h \in Handlers, RedeemBackupCode(h) PROVE GuessesCounted'
  BY <1>13, QuietGuesses DEF RedeemBackupCode, Verified, Idle
<1>14. ASSUME NEW h \in Handlers, RefuseBackupCode(h) PROVE GuessesCounted'
  <2>1. PICK q : Turn(h, q) /\ q.op \notin {"wrong", "locking"}
    BY <1>14 DEF RefuseBackupCode, Idle, Mistaken
  <2> QED
    BY <1>14, <2>1, QuietGuesses DEF RefuseBackupCode
<1>15. ASSUME NEW h \in Handlers, CountMiss(h) PROVE GuessesCounted'
  BY <1>15, QuietGuesses DEF CountMiss, Idle, Mistaken
<1>16. ASSUME NEW h \in Handlers, FinishVerify(h) PROVE GuessesCounted'
  BY <1>16, QuietGuesses DEF FinishVerify, Idle
<1>17. ASSUME NEW h \in Handlers, Fail(h) PROVE GuessesCounted'
  BY <1>17, QuietGuesses DEF Fail, Idle
<1>18. CASE Unlock
  <2>1. Counted' \in Nat
    BY <1>18, <1>a DEF Unlock, Counted
  <2> QED
    <3>1. guesses' = 0
      BY <1>18 DEF Unlock
    <3>2. guesses' < LockoutThreshold + Cardinality(Handlers)
      BY <1>b, <3>1
    <3>3. guesses' <= Uncounted' + Counted'
      BY <1>a, <2>1, <3>1, NonNegative
    <3> QED
      BY <3>2, <3>3 DEF GuessesCounted
<1>19. CASE VerifyEmail
  BY <1>19 DEF VerifyEmail, GuessesCounted, Uncounted, Counted, Doing
<1>20. CASE InitSetup
  BY <1>20 DEF InitSetup, GuessesCounted, Uncounted, Counted, Doing
<1>21. ASSUME NEW k \in Types, ExpireToken(k) PROVE GuessesCounted'
  BY <1>21 DEF ExpireToken, GuessesCounted, Uncounted, Counted, Doing
<1>22. CASE UNCHANGED vars
  BY <1>22 DEF vars, GuessesCounted, Uncounted, Counted, Doing
<1> QED
  BY <1>1, <1>2, <1>3, <1>4, <1>5, <1>6, <1>7, <1>8, <1>9, <1>10, <1>11, <1>12, <1>13, <1>14,
     <1>15, <1>16, <1>17, <1>18, <1>19, <1>20, <1>21, <1>22 DEF Next

\* Wrong second factors not yet counted, and those that may yet turn out to be wrong.
Unjudged == Cardinality(Doing({"mistaken", "redeeming"}))
Unmissed == Cardinality(Doing({"mistaken"}))

\* Every wrong second factor is counted or will be, and the counter was below the
\* threshold when the last of them began.
TriesCounted ==
    /\ tries <= missed + Unmissed
    /\ missed + Unjudged < FactorThreshold + Cardinality(Handlers)

\* Steps that are not about wrong second factors.
LEMMA QuietTries ==
    ASSUME TypeOK, TriesCounted, NEW h \in Handlers, NEW q, Turn(h, q),
           request[h].op \notin {"mistaken", "redeeming"}, q.op \notin {"mistaken", "redeeming"},
           \/ UNCHANGED <<missed, tries>>
           \/ missed' = 0 /\ tries' = 0
    PROVE  TriesCounted'
<1>1. Unjudged' = Unjudged /\ Unmissed' = Unmissed
  BY DoingTurn DEF Unjudged, Unmissed
<1>2. Unjudged \in Nat /\ Unmissed \in Nat /\ missed \in Nat /\ Cardinality(Handlers) \in Nat
      /\ FactorThreshold \in Nat
  BY DoingFinite, ThresholdAssumption DEF Unjudged, Unmissed, TypeOK
<1> QED
  BY <1>1, <1>2 DEF TriesCounted

\* Every step keeps the account of the second factors.
LEMMA StepTries == TypeOK /\ TriesCounted /\ [Next]_vars => TriesCounted'
<1> SUFFICES ASSUME TypeOK, TriesCounted, [Next]_vars PROVE TriesCounted'
  OBVIOUS
<1> USE DEF counters, factor, history
<1>a. /\ Unjudged \in Nat /\ Unmissed \in Nat /\ missed \in Nat /\ tries \in Nat
      /\ Cardinality(Handlers) \in Nat /\ FactorThreshold \in Nat \ {0}
      /\ Unmissed' \in Nat /\ Unjudged' \in Nat /\ Unjudged' <= Cardinality(Handlers)
  BY DoingFinite, DoingFinite2, ThresholdAssumption DEF Unjudged, Unmissed, TypeOK
<1>1. ASSUME NEW h \in Handlers, GuessWrong(h) PROVE TriesCounted'
  BY <1>1, QuietTries DEF GuessWrong, Wrong, Idle
<1>2. ASSUME NEW h \in Handlers, CountFailure(h) PROVE TriesCounted'
  <2>1. PICK q : Turn(h, q) /\ q.op \notin {"mistaken", "redeeming"}
    BY <1>2 DEF CountFailure, Idle, Locking
  <2> QED
    BY <1>2, <2>1, QuietTries DEF CountFailure, Wrong
<1>3. ASSUME NEW h \in Handlers, LockAccount(h) PROVE TriesCounted'
  BY <1>3, QuietTries DEF LockAccount, Idle, Locking
<1>4. ASSUME NEW h \in Handlers, LoseFailure(h) PROVE TriesCounted'
  BY <1>4, QuietTries DEF LoseFailure, Idle, Wrong, Locking
<1>5. ASSUME NEW h \in Handlers, GuessRight(h) PROVE TriesCounted'
  BY <1>5, QuietTries DEF GuessRight, Right, Idle
<1>6. ASSUME NEW h \in Handlers, ResetFailures(h) PROVE TriesCounted'
  BY <1>6, QuietTries DEF ResetFailures, Granting
<1>7. ASSUME NEW h \in Handlers, GrantToken(h) PROVE TriesCounted'
  BY <1>7, QuietTries DEF GrantToken, Idle
<1>8. ASSUME NEW h \in Handlers, ConfirmSecret(h) PROVE TriesCounted'
  BY <1>8, QuietTries DEF ConfirmSecret, Enabling, Idle
<1>9. ASSUME NEW h \in Handlers, EnableMFA(h) PROVE TriesCounted'
  BY <1>9, QuietTries DEF EnableMFA, Idle, Enabling
<1>10. ASSUME NEW h \in Handlers, GiveCode(h) PROVE TriesCounted'
  BY <1>10, QuietTries DEF GiveCode, Verified, Idle
<1>11. ASSUME NEW h \in Handlers, GiveWrongCode(h) PROVE TriesCounted'
  <2>1. Unmissed' = Unmissed + 1
    <3>1. Turn(h, Mistaken) /\ request[h].op \notin {"mistaken"} /\ Mistaken.op \in {"mistaken"}
      BY <1>11 DEF GiveWrongCode, Idle, Mistaken
    <3> QED
      BY <3>1, DoingTurn DEF Unmissed
  <2> QED
    BY <1>11, <1>a, <2>1 DEF GiveWrongCode, MayVerify, TriesCounted
<1>12. ASSUME NEW h \in Handlers, NEW c \in Codes, GiveBackupCode(h, c) PROVE TriesCounted'
  <2>1. Unmissed' = Unmissed
    BY <1>12, DoingTurn DEF GiveBackupCode, Unmissed, Idle, Redeeming
  <2> QED
    BY <1>12, <1>a, <2>1 DEF GiveBackupCode, MayVerify, TriesCounted
<1>13. ASSUME NEW h \in Handlers, RedeemBackupCode(h) PROVE TriesCounted'
  <2>1. Unmissed' = Unmissed /\ Unjudged' = Unjudged - 1
    BY <1>13, DoingTurn DEF RedeemBackupCode, Unmissed, Unjudged, Verified
  <2> QED
    BY <1>13, <1>a, <2>1 DEF RedeemBackupCode, TriesCounted
<1>14. ASSUME NEW h \in Handlers, RefuseBackupCode(h) PROVE TriesCounted'
  <2>1. CASE codes = {}
    <3>1. Turn(h, Idle) /\ UNCHANGED <<missed, tries>>
      BY <1>14, <2>1 DEF RefuseBackupCode
    <3>2. Unmissed' = Unmissed /\ Unjudged' = Unjudged - 1
      BY <1>14, <3>1, DoingTurn DEF RefuseBackupCode, Unmissed, Unjudged, Idle
    <3> QED
      BY <1>a, <3>1, <3>2 DEF TriesCounted
  <2>2. CASE codes # {}
    <3>1. Turn(h, Mistaken) /\ missed' = missed /\ tries' = tries + 1
      BY <1>14, <2>2 DEF RefuseBackupCode
    <3>2. Unmissed' = Unmissed + 1 /\ Unjudged' = Unjudged
      BY <1>14, <3>1, DoingTurn DEF RefuseBackupCode, Unmissed, Unjudged, Mistaken
    <3> QED
      BY <1>a, <3>1, <3>2 DEF TriesCounted
  <2> QED
    BY <2>1, <2>2
<1>15. ASSUME NEW h \in Handlers, CountMiss(h) PROVE TriesCounted'
  <2>1. Unmissed' = Unmissed - 1 /\ Unjudged' = Unjudged - 1
    BY <1>15, DoingTurn DEF CountMiss, Unmissed, Unjudged, Mistaken, Idle
  <2>2. CASE missed' = missed + 1 /\ tries' = tries
    BY <1>a, <2>1, <2>2 DEF TriesCounted
  <2>3. CASE missed' = missed /\ tries > 0 /\ tries' = tries - 1
    BY <1>a, <2>1, <2>3 DEF TriesCounted
  <2>4. CASE missed' = missed /\ tries = 0 /\ tries' = 0
    <3>1. tries' <= missed' + Unmissed'
      BY <1>a, <2>4, NonNegative
    <3>2. missed' + Unjudged' < FactorThreshold + Cardinality(Handlers)
      BY <1>a, <2>1, <2>4 DEF TriesCounted
    <3> QED
      BY <3>1, <3>2 DEF TriesCounted
  <2>5. \/ missed' = missed + 1 /\ tries' = tries
        \/ missed' = missed /\ tries > 0 /\ tries' = tries - 1
        \/ missed' = missed /\ tries = 0 /\ tries' = 0
    BY <1>15, <1>a DEF CountMiss
  <2> QED
    BY <2>2, <2>3, <2>4, <2>5
<1>16. ASSUME NEW h \in Handlers, FinishVerify(h) PROVE TriesCounted'
  BY <1>16, QuietTries DEF FinishVerify, Idle
<1>17. ASSUME NEW h \in Handlers, Fail(h) PROVE TriesCounted'
  <2>1. CASE request[h].op = "redeeming"
    <3>1. Unmissed' = Unmissed /\ Unjudged' = Unjudged - 1
      BY <1>17, <2>1, DoingTurn DEF Fail, Unmissed, Unjudged, Idle
    <3> QED
      BY <1>17, <1>a, <3>1 DEF Fail, TriesCounted
  <2>2. CASE request[h].op # "redeeming"
    BY <1>17, <2>2, QuietTries DEF Fail, Idle
  <2> QED
    BY <2>1, <2>2
<1>18. CASE Unlock
  BY <1>18 DEF Unlock, TriesCounted, Unjudged, Unmissed, Doing
<1>19. CASE VerifyEmail
  BY <1>19 DEF VerifyEmail, TriesCounted, Unjudged, Unmissed, Doing
<1>20. CASE InitSetup
  BY <1>20 DEF InitSetup, TriesCounted, Unjudged, Unmissed, Doing
<1>21. ASSUME NEW k \in Types, ExpireToken(k) PROVE TriesCounted'
  BY <1>21 DEF ExpireToken, TriesCounted, Unjudged, Unmissed, Doing
<1>22. CASE UNCHANGED vars
  BY <1>22 DEF vars, TriesCounted, Unjudged, Unmissed, Doing
<1> QED
  BY <1>1, <1>2, <1>3, <1>4, <1>5, <1>6, <1>7, <1>8, <1>9, <1>10, <1>11, <1>12, <1>13, <1>14,
     <1>15, <1>16, <1>17, <1>18, <1>19, <1>20, <1>21, <1>22 DEF Next

\* Beyond either threshold there are at most as many guesses as requests in flight.
THEOREM TriesBounded == Spec => []TriesAreBounded
<1>1. Init => GuessesCounted /\ TriesCounted
  <2> SUFFICES ASSUME Init PROVE GuessesCounted /\ TriesCounted
    OBVIOUS
  <2>1. Doing({"mistaken", "redeeming"}) = {} /\ Doing({"mistaken"}) = {}
    BY DEF Init, Doing, Idle
  <2>2. /\ Uncounted \in Nat /\ Cardinality(Handlers) \in Nat /\ Unjudged = 0 /\ Unmissed = 0
    BY <2>1, DoingFinite, FS_EmptySet DEF Uncounted, Unjudged, Unmissed
  <2> QED
    BY <2>2, ThresholdAssumption DEF Init, GuessesCounted, TriesCounted, Counted
<1>2. TypeOK /\ GuessesCounted /\ TriesCounted => TriesAreBounded
  <2> SUFFICES ASSUME TypeOK, GuessesCounted, TriesCounted PROVE TriesAreBounded
    OBVIOUS
  <2>1. Doing({"mistaken"}) \subseteq Doing({"mistaken", "redeeming"})
    BY DEF Doing
  <2>2. Unmissed <= Unjudged
    BY <2>1, DoingFinite, FS_Subset DEF Unmissed, Unjudged
  <2>3. Unmissed \in Nat /\ Unjudged \in Nat /\ Cardinality(Handlers) \in Nat
    BY DoingFinite DEF Unmissed, Unjudged
  <2> QED
    BY <2>2, <2>3, ThresholdAssumption DEF GuessesCounted, TriesCounted, TriesAreBounded, TypeOK
<1> QED
  BY <1>1, <1>2, StepGuesses, StepTries, TypeCorrect, PTL DEF Spec

(***************************************************************************)
(* Backup codes.                                                           *)
(***************************************************************************)

\* Codes that were redeemed are of set-ups that were completed.
SpentInv ==
    /\ SpentCodesStaySpent
    /\ \A c \in spent : c[1] <= setups

\* Every step preserves SpentInv.
LEMMA StepSpent == TypeOK /\ SpentInv /\ [Next]_vars => SpentInv'
<1> SUFFICES ASSUME TypeOK, SpentInv, [Next]_vars PROVE SpentInv'
  OBVIOUS
<1> USE DEF counters, factor, history, SpentInv, SpentCodesStaySpent
<1>1. ASSUME NEW h \in Handlers, GuessWrong(h) PROVE SpentInv'
  BY <1>1 DEF GuessWrong
<1>2. ASSUME NEW h \in Handlers, CountFailure(h) PROVE SpentInv'
  BY <1>2 DEF CountFailure
<1>3. ASSUME NEW h \in Handlers, LockAccount(h) PROVE SpentInv'
  BY <1>3 DEF LockAccount
<1>4. ASSUME NEW h \in Handlers, LoseFailure(h) PROVE SpentInv'
  BY <1>4 DEF LoseFailure
<1>5. ASSUME NEW h \in Handlers, GuessRight(h) PROVE SpentInv'
  BY <1>5 DEF GuessRight
<1>6. ASSUME NEW h \in Handlers, ResetFailures(h) PROVE SpentInv'
  BY <1>6 DEF ResetFailures
<1>7. ASSUME NEW h \in Handlers, GrantToken(h) PROVE SpentInv'
  BY <1>7 DEF GrantToken
<1>8. ASSUME NEW h \in Handlers, ConfirmSecret(h) PROVE SpentInv'
  BY <1>8 DEF ConfirmSecret
<1>9. ASSUME NEW h \in Handlers, EnableMFA(h) PROVE SpentInv'
  <2>1. \A c \in codes' : c[1] = setups + 1
    BY <1>9 DEF EnableMFA, Batch
  <2>2. setups \in Nat /\ setups' = setups + 1 /\ spent' = spent /\ spent \subseteq Codes
    BY <1>9, BoundAssumption DEF EnableMFA, TypeOK
  <2>3. \A c \in spent : c[1] \in Nat
    BY <2>2, BoundAssumption DEF Codes
  <2> QED
    BY <2>1, <2>2, <2>3
<1>10. ASSUME NEW h \in Handlers, GiveCode(h) PROVE SpentInv'
  BY <1>10 DEF GiveCode
<1>11. ASSUME NEW h \in Handlers, GiveWrongCode(h) PROVE SpentInv'
  BY <1>11 DEF GiveWrongCode
<1>12. ASSUME NEW h \in Handlers, NEW c \in Codes, GiveBackupCode(h, c) PROVE SpentInv'
  BY <1>12 DEF GiveBackupCode
<1>13. ASSUME NEW h \in Handlers, RedeemBackupCode(h) PROVE SpentInv'
  BY <1>13 DEF RedeemBackupCode, TypeOK
<1>14. ASSUME NEW h \in Handlers, RefuseBackupCode(h) PROVE SpentInv'
  BY <1>14 DEF RefuseBackupCode
<1>15. ASSUME NEW h \in Handlers, CountMiss(h) PROVE SpentInv'
  BY <1>15 DEF CountMiss
<1>16. ASSUME NEW h \in Handlers, FinishVerify(h) PROVE SpentInv'
  BY <1>16 DEF FinishVerify
<1>17. ASSUME NEW h \in Handlers, Fail(h) PROVE SpentInv'
  BY <1>17 DEF Fail
<1>18. CASE Unlock
  BY <1>18 DEF Unlock
<1>19. CASE VerifyEmail
  BY <1>19 DEF VerifyEmail
<1>20. CASE InitSetup
  BY <1>20 DEF InitSetup
<1>21. ASSUME NEW k \in Types, ExpireToken(k) PROVE SpentInv'
  BY <1>21 DEF ExpireToken
<1>22. CASE UNCHANGED vars
  BY <1>22 DEF vars
<1> QED
  BY <1>1, <1>2, <1>3, <1>4, <1>5, <1>6, <1>7, <1>8, <1>9, <1>10, <1>11, <1>12, <1>13, <1>14,
     <1>15, <1>16, <1>17, <1>18, <1>19, <1>20, <1>21, <1>22 DEF Next

\* A backup code that was redeemed is never again among the codes of the account.
THEOREM SpentForGood == Spec => []SpentCodesStaySpent
<1>1. Init => SpentInv
  BY DEF Init, SpentInv, SpentCodesStaySpent
<1>2. SpentInv => SpentCodesStaySpent
  BY DEF SpentInv
<1> QED
  BY <1>1, <1>2, StepSpent, TypeCorrect, PTL DEF Spec

(***************************************************************************)
(* The secret.                                                             *)
(***************************************************************************)

\* A set-up that is being completed, too, has a secret that was confirmed or replaced.
SecretInv ==
    enabled \/ Doing({"enabling"}) # {} => secret \in confirmed \/ replaced

\* Steps that neither begin to complete a set-up nor touch the secret.
LEMMA QuietSecret ==
    ASSUME TypeOK, SecretInv, NEW h \in Handlers, NEW q, Turn(h, q), q.op # "enabling",
           UNCHANGED <<enabled, secret, confirmed, replaced>>
    PROVE  SecretInv'
<1>1. Doing({"enabling"})' \subseteq Doing({"enabling"})
  BY DEF TypeOK, Turn, Doing
<1> QED
  BY <1>1 DEF SecretInv

\* Every step preserves SecretInv.
LEMMA StepSecret == TypeOK /\ SecretInv /\ [Next]_vars => SecretInv'
<1> SUFFICES ASSUME TypeOK, SecretInv, [Next]_vars PROVE SecretInv'
  OBVIOUS
<1> USE DEF counters, factor, history
<1>1. ASSUME NEW h \in Handlers, GuessWrong(h) PROVE SecretInv'
  BY <1>1, QuietSecret DEF GuessWrong, Wrong
<1>2. ASSUME NEW h \in Handlers, CountFailure(h) PROVE SecretInv'
  <2>1. PICK q : Turn(h, q) /\ q.op # "enabling"
    BY <1>2 DEF CountFailure, Idle, Locking
  <2> QED
    BY <1>2, <2>1, QuietSecret DEF CountFailure
<1>3. ASSUME NEW h \in Handlers, LockAccount(h) PROVE SecretInv'
  BY <1>3, QuietSecret DEF LockAccount, Idle
<1>4. ASSUME NEW h \in Handlers, LoseFailure(h) PROVE SecretInv'
  BY <1>4, QuietSecret DEF LoseFailure, Idle
<1>5. ASSUME NEW h \in Handlers, GuessRight(h) PROVE SecretInv'
  BY <1>5, QuietSecret DEF GuessRight, Right
<1>6. ASSUME NEW h \in Handlers, ResetFailures(h) PROVE SecretInv'
  BY <1>6, QuietSecret DEF ResetFailures, Granting
<1>7. ASSUME NEW h \in Handlers, GrantToken(h) PROVE SecretInv'
  BY <1>7, QuietSecret DEF GrantToken, Idle
<1>8. ASSUME NEW h \in Handlers, ConfirmSecret(h) PROVE SecretInv'
  BY <1>8 DEF ConfirmSecret, SecretInv
<1>9. ASSUME NEW h \in Handlers, EnableMFA(h) PROVE SecretInv'
  BY <1>9 DEF EnableMFA, SecretInv, Doing, Enabling
<1>10. ASSUME NEW h \in Handlers, GiveCode(h) PROVE SecretInv'
  BY <1>10, QuietSecret DEF GiveCode, Verified
<1>11. ASSUME NEW h \in Handlers, GiveWrongCode(h) PROVE SecretInv'
  BY <1>11, QuietSecret DEF GiveWrongCode, Mistaken
<1>12. ASSUME NEW h \in Handlers, NEW c \in Codes, GiveBackupCode(h, c) PROVE SecretInv'
  BY <1>12, QuietSecret DEF GiveBackupCode, Redeeming
<1>13. ASSUME NEW h \in Handlers, RedeemBackupCode(h) PROVE SecretInv'
  BY <1>13, QuietSecret DEF RedeemBackupCode, Verified
<1>14. ASSUME NEW h \in Handlers, RefuseBackupCode(h) PROVE SecretInv'
  <2>1. PICK q : Turn(h, q) /\ q.op # "enabling"
    BY <1>14 DEF RefuseBackupCode, Idle, Mistaken
  <2> QED
    BY <1>14, <2>1, QuietSecret DEF RefuseBackupCode
<1>15. ASSUME NEW h \in Handlers, CountMiss(h) PROVE SecretInv'
  BY <1>15, QuietSecret DEF CountMiss, Idle
<1>16. ASSUME NEW h \in Handlers, FinishVerify(h) PROVE SecretInv'
  BY <1>16, QuietSecret DEF FinishVerify, Idle
<1>17. ASSUME NEW h \in Handlers, Fail(h) PROVE SecretInv'
  BY <1>17, QuietSecret DEF Fail, Idle
<1>18. CASE Unlock
  BY <1>18 DEF Unlock, SecretInv, Doing
<1>19. CASE VerifyEmail
  BY <1>19 DEF VerifyEmail, SecretInv, Doing
<1>20. CASE InitSetup
  BY <1>20 DEF InitSetup, SecretInv, Doing
<1>21. ASSUME NEW k \in Types, ExpireToken(k) PROVE SecretInv'
  BY <1>21 DEF ExpireToken, SecretInv, Doing
<1>22. CASE UNCHANGED vars
  BY <1>22 DEF vars, SecretInv, Doing
<1> QED
  BY <1>1, <1>2, <1>3, <1>4, <1>5, <1>6, <1>7, <1>8, <1>9, <1>10, <1>11, <1>12, <1>13, <1>14,
     <1>15, <1>16, <1>17, <1>18, <1>19, <1>20, <1>21, <1>22 DEF Next

\* The secret in force was confirmed, or a late set-up replaced it.
THEOREM SecretConfirmed == Spec => []SecretIsConfirmed
<1>1. Init => SecretInv
  BY DEF Init, SecretInv, Doing, Idle
<1>2. SecretInv => SecretIsConfirmed
  BY DEF SecretInv, SecretIsConfirmed
<1> QED
  BY <1>1, <1>2, StepSecret, TypeCorrect, PTL DEF Spec
=============================================================================
