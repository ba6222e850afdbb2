--------------------------- MODULE SignIn_proofs ---------------------------
(***************************************************************************)
(* Proofs about signing in and staying signed in: one-time codes, for any  *)
(* number of calls, attempts and codes, and the session of a browser.      *)
(***************************************************************************)
EXTENDS MCOneTimeCodes, TLAPS

\* What the place a call is at says of the account and of the row it has read.
Placed(c) ==
  /\ pc[c] \notin {"idle", "insert"} => account # NoAccount
  /\ pc[c] \in {"lookup", "wrong", "right", "punish", "recount"} => operation[c] \in Counter
  /\ pc[c] = "lookup" => operation[c] = "login"
  /\ pc[c] = "session" => account.verified
  /\ user[c] # NoAccount /\ user[c].verified => account # NoAccount /\ account.verified
  /\ pc[c] \in {"lookup", "right"} => user[c] # NoAccount
  /\ operation[c] \in {"verify", "verifyReset"} =>
       user[c] # NoAccount /\ user[c].otp # 0 /\ user[c].otp <= codes
  /\ pc[c] = "session" /\ operation[c] = "verify" => user[c].otp # account.otp

AllPlaced == \A c \in Call : Placed(c)

\* Codes in the row and accepted codes are among those generated.
Generated ==
  /\ account # NoAccount => account.otp <= codes
  /\ \A otp \in accepted : otp <= codes

\* The limit of counter k: its lock is set, or fewer wrong answers have been given
\* than counted, and fewer than the limit.
Limited(k) == \/ k = "login" /\ locked
              \/ failures[k] <= attempts[k] /\ failures[k] < MaxAttempts

\* A wrong answer that is counted and not given yet is about to be punished, and
\* a call that deletes the counter has punished: the lock is set, or its code is
\* out of the row.
Punished(c) ==
  /\ c \in counted => pc[c] = "punish"
  /\ pc[c] = "recount" => IF operation[c] = "login" THEN locked ELSE account.otp # user[c].otp

LimitsHold == (\A k \in Counter : Limited(k)) /\ (\A c \in Call : Punished(c))

IInv ==
  /\ TypeOK /\ AllPlaced
  /\ SessionsOnlyVerified /\ Generated /\ AcceptedStaysSpent /\ CodesGetSent /\ LimitsHold

LEMMA InitType == Init => TypeOK
<1> SUFFICES ASSUME Init PROVE TypeOK
  OBVIOUS
<1>1. codes \in Code /\ issued \in [Call -> Code]
  BY CodesAssumption DEF Init, Code
<1>2. /\ attempts \in [Counter -> 0..MaxAttempts]
      /\ failures \in [Counter -> 0..MaxAttempts]
  BY CodesAssumption DEF Init
<1>3. operation \in [Call -> Operation] /\ user \in [Call -> {NoAccount} \cup Account]
  BY DEF Init, Operation, Counter
<1> QED
  BY <1>1, <1>2, <1>3 DEF Init, TypeOK

LEMMA InitHolds == Init => IInv
<1> SUFFICES ASSUME Init PROVE IInv
  OBVIOUS
<1>1. AllPlaced
  BY DEF Init, AllPlaced, Placed
<1>2. SessionsOnlyVerified /\ Generated /\ AcceptedStaysSpent /\ CodesGetSent
  BY DEF Init, SessionsOnlyVerified, Generated, AcceptedStaysSpent, CodesGetSent
<1>3. LimitsHold
  BY CodesAssumption DEF Init, LimitsHold, Limited, Punished
<1> QED
  BY <1>1, <1>2, <1>3, InitType DEF IInv

\* What the helpers of the actions leave in the variables they set.
LEMMA ForgetType ==
  ASSUME TypeOK, NEW K, Forget(K)
  PROVE  counted' \subseteq Call /\ failures' \in [Counter -> 0..MaxAttempts]
BY CodesAssumption DEF TypeOK, Forget

LEMMA PutCodeType ==
  ASSUME TypeOK, NEW row \in Account, NEW otp \in Code, PutCode(row, otp)
  PROVE  /\ account' \in Account
         /\ delivery' \in {"none", "pending", "settled"}
         /\ counted' \subseteq Call /\ failures' \in [Counter -> 0..MaxAttempts]
BY ForgetType DEF PutCode, Account

LEMMA NewAccountType ==
  ASSUME NEW provider \in Provider
  PROVE  [provider |-> provider, verified |-> provider = "google",
          otp |-> 0, expired |-> FALSE] \in Account
BY CodesAssumption DEF Account, Code

LEMMA VerifiedType ==
  ASSUME NEW row \in Account
  PROVE  [row EXCEPT !.verified = TRUE] \in Account
BY DEF Account

LEMMA EndType ==
  ASSUME TypeOK, NEW c \in Call, End(c)
  PROVE  /\ pc' \in [Call -> {"idle", "lookup", "insert", "rewrite", "wrong", "right", "punish",
                              "recount", "clear", "store", "restart", "send", "undo", "session"}]
         /\ operation' \in [Call -> Operation]
         /\ user' \in [Call -> {NoAccount} \cup Account]
         /\ issued' \in [Call -> Code]
BY CodesAssumption DEF TypeOK, End, Operation, Counter, Code

\* The row as login keeps it.
LEMMA LoginKeeps ==
  ASSUME NEW row \in Account
  PROVE  LET kept == [row EXCEPT !.otp = 0, !.expired = FALSE]
         IN  kept \in Account /\ kept # NoAccount /\ kept.verified = row.verified
<1> DEFINE kept == [row EXCEPT !.otp = 0, !.expired = FALSE]
<1>1. 0 \in Code
  BY CodesAssumption DEF Code
<1>2. kept \in Account
  BY <1>1 DEF Account
<1>3. kept.verified = row.verified
  BY DEF Account
<1>4. kept # NoAccount
  BY <1>2, CodesAssumption
<1> QED
  BY <1>2, <1>3, <1>4

LEMMA KeptType ==
  ASSUME TypeOK, NEW op \in Operation, account = NoAccount => op \notin Counter
  PROVE  Kept(op) \in {NoAccount} \cup Account
<1>1. CASE op \in {"verify", "verifyReset"}
  BY <1>1 DEF TypeOK, Kept
<1>2. CASE op = "login"
  BY <1>2, LoginKeeps DEF TypeOK, Kept, Counter
<1>3. CASE op \notin Counter
  BY <1>3 DEF Kept, Counter
<1> QED
  BY <1>1, <1>2, <1>3 DEF Operation, Counter

LEMMA TypeStep == TypeOK /\ AllPlaced /\ [Next]_vars => TypeOK'
<1> SUFFICES ASSUME TypeOK, AllPlaced, [Next]_vars PROVE TypeOK'
  OBVIOUS
<1> USE CodesAssumption DEF TypeOK, AllPlaced, Placed, keys, calls, history
<1>1. ASSUME NEW c \in Call, BeginRegister(c) PROVE TypeOK'
  BY <1>1, KeptType DEF BeginRegister, Begin, Operation, Counter
<1>2. ASSUME NEW c \in Call, BeginGoogle(c) PROVE TypeOK'
  BY <1>2, KeptType DEF BeginGoogle, Begin, Operation, Counter
<1>3. ASSUME NEW c \in Call, Insert(c) PROVE TypeOK'
  BY <1>3 DEF Insert, NewAccount, GoTo, Account, Provider, Code
<1>4. ASSUME NEW c \in Call, Rewrite(c) PROVE TypeOK'
  <2>1. account \in Account /\ 0 \in Code
    BY <1>4 DEF Rewrite, Code
  <2>2. PutCode(account, 0)
    BY <1>4 DEF Rewrite, ClearOtpOnly
  <2> QED
    BY <1>4, <2>1, <2>2, PutCodeType DEF Rewrite, GoTo
<1>5. ASSUME NEW c \in Call, BeginForgot(c) PROVE TypeOK'
  BY <1>5, KeptType DEF BeginForgot, Begin, Operation, Counter
<1>6. ASSUME NEW c \in Call, BeginResend(c) PROVE TypeOK'
  BY <1>6, KeptType DEF BeginResend, Begin, Operation, Counter
<1>7. ASSUME NEW c \in Call, Store(c) PROVE TypeOK'
  <2>1. account \in Account /\ codes' \in Code
    BY <1>7 DEF Store, Code
  <2>2. PutCode(account, codes')
    BY <1>7 DEF Store, StoreOtpHash
  <2> QED
    BY <1>7, <2>1, <2>2, PutCodeType DEF Store
<1>8. ASSUME NEW c \in Call, RestartCounter(c) PROVE TypeOK'
  BY <1>8, ForgetType DEF RestartCounter, GoTo, Counter
<1>9. ASSUME NEW c \in Call, Send(c) PROVE TypeOK'
  BY <1>9, EndType DEF Send, Deliver
<1>10. ASSUME NEW c \in Call, SendFails(c) PROVE TypeOK'
  <2>1. CASE End(c)
    BY <1>10, <2>1, EndType DEF SendFails, Deliver
  <2>2. CASE GoTo(c, "undo")
    BY <1>10, <2>2 DEF SendFails, Deliver, GoTo
  <2> QED
    BY <1>10, <2>1, <2>2 DEF SendFails
<1>11. ASSUME NEW c \in Call, Undo(c) PROVE TypeOK'
  <2>1. account \in Account /\ 0 \in Code
    BY <1>11 DEF Undo, Code
  <2>2. PutCode(account, 0)
    BY <1>11 DEF Undo, ClearOtpOnly
  <2> QED
    BY <1>11, <2>1, <2>2, PutCodeType, EndType DEF Undo
<1>12. ASSUME NEW c \in Call, BeginLogin(c) PROVE TypeOK'
  BY <1>12, KeptType DEF BeginLogin, Begin, Operation, Counter
<1>13. ASSUME NEW c \in Call, RefuseLocked(c) PROVE TypeOK'
  BY <1>13, EndType DEF RefuseLocked
<1>14. ASSUME NEW c \in Call, NEW right \in BOOLEAN, CheckPassword(c, right) PROVE TypeOK'
  BY <1>14 DEF CheckPassword, GoTo
<1>15. ASSUME NEW c \in Call, NEW op \in {"verify", "verifyReset"},
            NEW right \in BOOLEAN, BeginVerify(c, op, right) PROVE TypeOK'
  BY <1>15, KeptType DEF BeginVerify, Begin, Operation, Counter
<1>16. ASSUME NEW c \in Call, CountWrong(c) PROVE TypeOK'
  <2>1. /\ operation[c] \in Counter /\ CountUp(operation[c]) \in 0..MaxAttempts
        /\ attempts' \in [Counter -> 0..MaxAttempts]
    BY <1>16 DEF CountWrong, Count, CountUp
  <2>2. PICK cs \in SUBSET Call : \/ AnswerWrong(c, cs) /\ End(c)
                                  \/ /\ counted' = cs
                                     /\ GoTo(c, "punish")
                                     /\ UNCHANGED <<delivery, accepted, failures>>
    BY <1>16 DEF CountWrong, Count
  <2>3. CASE AnswerWrong(c, cs) /\ End(c)
    <3>1. counted' \subseteq Call /\ failures' \in [Counter -> 0..MaxAttempts]
      BY <2>1, <2>3 DEF AnswerWrong
    <3> QED
      BY <1>16, <2>1, <2>3, <3>1, EndType DEF CountWrong, Count, AnswerWrong
  <2>4. CASE counted' = cs /\ GoTo(c, "punish") /\ UNCHANGED <<delivery, accepted, failures>>
    BY <1>16, <2>1, <2>4 DEF CountWrong, Count, GoTo
  <2> QED
    BY <2>2, <2>3, <2>4
<1>17. ASSUME NEW c \in Call, CountThenFail(c) PROVE TypeOK'
  BY <1>17, EndType DEF CountThenFail, CountUp
<1>18. ASSUME NEW c \in Call, Punish(c) PROVE TypeOK'
  <2>1. account \in Account /\ 0 \in Code
    BY <1>18 DEF Punish, Code
  <2>2. CASE operation[c] = "login"
    BY <1>18, <2>2, ForgetType DEF Punish, GoTo
  <2>3. CASE operation[c] # "login"
    <3>1. PutCode(account, 0)
      BY <1>18, <2>3 DEF Punish, ClearOtpOnly
    <3> QED
      BY <1>18, <2>1, <2>3, <3>1, PutCodeType DEF Punish, GoTo
  <2> QED
    BY <2>2, <2>3
<1>19. ASSUME NEW c \in Call, Recount(c) PROVE TypeOK'
  <2>1. counted' \subseteq Call /\ failures' \in [Counter -> 0..MaxAttempts]
    <3>1. CASE Forget({operation[c]})
      BY <3>1, ForgetType
    <3>2. CASE AnswerWrong(c, counted)
      <4>1. operation[c] \in Counter
        BY <1>19 DEF Recount
      <4> QED
        BY <3>2, <4>1 DEF AnswerWrong
    <3> QED
      BY <1>19, <3>1, <3>2 DEF Recount
  <2>2. /\ End(c) /\ attempts' \in [Counter -> 0..MaxAttempts]
        /\ UNCHANGED <<account, codes, locked, signedIn>>
    BY <1>19 DEF Recount
  <2>3. UNCHANGED <<delivery, accepted>>
    BY <1>19 DEF Recount, AnswerWrong
  <2> QED
    BY <2>1, <2>2, <2>3, EndType
<1>20. ASSUME NEW c \in Call, Right(c) PROVE TypeOK'
  BY <1>20, ForgetType DEF Right, GoTo
<1>21. ASSUME NEW c \in Call, Clear(c) PROVE TypeOK'
  <2> DEFINE row == [account EXCEPT !.verified = TRUE]
  <2>0. account \in Account
    BY <1>21 DEF Clear
  <2>1. row \in Account /\ 0 \in Code
    BY <2>0, VerifiedType, CodesAssumption DEF Code
  <2>2. PutCode(row, 0)
    BY <1>21 DEF Clear, ClearOtp
  <2>3. CASE operation[c] = "verifyReset" /\ Accept(c) /\ End(c)
    <3>1. accepted' \subseteq Code \ {0}
      BY <2>3 DEF Accept, Account
    <3> QED
      BY <1>21, <2>1, <2>2, <2>3, <3>1, PutCodeType, EndType DEF Clear
  <2>4. CASE UNCHANGED accepted /\ GoTo(c, "session")
    BY <1>21, <2>1, <2>2, <2>4, PutCodeType DEF Clear, GoTo
  <2> QED
    BY <1>21, <2>3, <2>4 DEF Clear
<1>22. ASSUME NEW c \in Call, SignIn(c) PROVE TypeOK'
  <2>1. accepted' \subseteq Code \ {0}
    BY <1>22 DEF SignIn, Accept, Account
  <2> QED
    BY <1>22, <2>1, EndType DEF SignIn
<1>23. ASSUME NEW c \in Call, Fail(c) PROVE TypeOK'
  BY <1>23, EndType DEF Fail
<1>24. ASSUME CodeExpires PROVE TypeOK'
  BY <1>24 DEF CodeExpires, Account
<1>25. ASSUME LockExpires PROVE TypeOK'
  BY <1>25, ForgetType DEF LockExpires
<1>26. ASSUME NEW k \in Counter, CounterExpires(k) PROVE TypeOK'
  BY <1>26, ForgetType DEF CounterExpires
<1>27. CASE UNCHANGED vars
  BY <1>27 DEF vars
<1> QED
  BY <1>1, <1>2, <1>3, <1>4, <1>5, <1>6, <1>7, <1>8, <1>9, <1>10, <1>11, <1>12, <1>13, <1>14, <1>15, <1>16, <1>17, <1>18, <1>19, <1>20, <1>21, <1>22, <1>23, <1>24, <1>25, <1>26, <1>27 DEF Next

(***************************************************************************)
(* What a step does to the row: no account vanishes, no verification is    *)
(* undone, and a code in it is the one before or a new one.                *)
(***************************************************************************)
RowKept ==
  /\ codes <= codes'
  /\ account # NoAccount => account' # NoAccount /\ (account.verified => account'.verified)
  /\ account' # NoAccount =>
       \/ account'.otp = 0
       \/ account # NoAccount /\ account'.otp = account.otp
       \/ account'.otp = codes' /\ codes' = codes + 1

LEMMA PutCodeEffect ==
  ASSUME NEW row \in Account, NEW otp \in Code, PutCode(row, otp)
  PROVE  /\ account' # NoAccount
         /\ account'.otp = otp /\ account'.verified = row.verified
BY CodesAssumption DEF PutCode, Account

LEMMA ExpiredEffect ==
  ASSUME NEW row \in Account
  PROVE  LET expired == [row EXCEPT !.expired = TRUE]
         IN  expired # NoAccount /\ expired.otp = row.otp /\ expired.verified = row.verified
BY CodesAssumption DEF Account

LEMMA RowStep == TypeOK /\ AllPlaced /\ [Next]_vars => RowKept
<1> SUFFICES ASSUME TypeOK, AllPlaced, [Next]_vars PROVE RowKept
  OBVIOUS
<1>0. /\ codes \in Nat /\ 0 \in Code
      /\ account # NoAccount => account \in Account
      /\ \A c \in Call : pc[c] \notin {"idle", "insert"} => account # NoAccount
  BY CodesAssumption DEF TypeOK, AllPlaced, Placed, Code
<1>1. ASSUME UNCHANGED <<account, codes>> PROVE RowKept
  BY <1>0, <1>1 DEF RowKept
<1>2. ASSUME NEW row \in Account, PutCode(row, 0), UNCHANGED codes,
             account # NoAccount /\ account.verified => row.verified
      PROVE  RowKept
  BY <1>0, <1>2, PutCodeEffect DEF RowKept
<1>3. ASSUME NEW c \in Call, Insert(c) PROVE RowKept
  BY <1>0, <1>3 DEF Insert, NewAccount, RowKept
<1>4. ASSUME NEW c \in Call, Rewrite(c) PROVE RowKept
  BY <1>0, <1>2, <1>4 DEF Rewrite, ClearOtpOnly
<1>5. ASSUME NEW c \in Call, Store(c) PROVE RowKept
  <2>1. account \in Account /\ codes' \in Code /\ codes' = codes + 1
    BY <1>0, <1>5, CodesAssumption DEF Store, Code
  <2>2. PutCode(account, codes')
    BY <1>5 DEF Store, StoreOtpHash
  <2> QED
    BY <1>0, <2>1, <2>2, PutCodeEffect DEF RowKept
<1>6. ASSUME NEW c \in Call, Undo(c) PROVE RowKept
  BY <1>0, <1>2, <1>6 DEF Undo, ClearOtpOnly
<1>7. ASSUME NEW c \in Call, Punish(c) PROVE RowKept
  <2>1. account \in Account
    BY <1>0, <1>7 DEF Punish
  <2>2. UNCHANGED account \/ PutCode(account, 0)
    BY <1>7 DEF Punish, ClearOtpOnly
  <2> QED
    BY <1>1, <1>2, <1>7, <2>1, <2>2 DEF Punish
<1>8. ASSUME NEW c \in Call, Clear(c) PROVE RowKept
  <2>1. account \in Account
    BY <1>0, <1>8 DEF Clear
  <2>2. [account EXCEPT !.verified = TRUE].verified
    BY <2>1 DEF Account
  <2>3. PutCode([account EXCEPT !.verified = TRUE], 0) /\ UNCHANGED codes
    BY <1>8 DEF Clear, ClearOtp
  <2> QED
    BY <1>2, <2>1, <2>2, <2>3, VerifiedType
<1>9. ASSUME CodeExpires PROVE RowKept
  BY <1>0, <1>9, ExpiredEffect DEF CodeExpires, RowKept
<1>10. ASSUME NEW c \in Call,
              \/ BeginRegister(c) \/ BeginGoogle(c) \/ BeginForgot(c) \/ BeginResend(c)
              \/ BeginLogin(c) \/ \E op \in {"verify", "verifyReset"}, right \in BOOLEAN :
                                      BeginVerify(c, op, right)
      PROVE RowKept
  BY <1>1, <1>10 DEF BeginRegister, BeginGoogle, BeginForgot, BeginResend, BeginLogin, BeginVerify, Begin
<1>11. ASSUME NEW c \in Call,
              \/ RestartCounter(c) \/ Send(c) \/ SendFails(c) \/ RefuseLocked(c)
              \/ \E right \in BOOLEAN : CheckPassword(c, right)
              \/ CountWrong(c) \/ CountThenFail(c) \/ Recount(c) \/ Right(c)
              \/ SignIn(c) \/ Fail(c)
      PROVE RowKept
  BY <1>1, <1>11 DEF RestartCounter, Send, SendFails, RefuseLocked, CheckPassword, CountWrong,
     Count, CountThenFail, Recount, Right, SignIn, Fail
<1>12. CASE LockExpires \/ \E k \in Counter : CounterExpires(k)
  BY <1>1, <1>12 DEF LockExpires, CounterExpires
<1>13. CASE UNCHANGED vars
  BY <1>1, <1>13 DEF vars
<1> QED
  BY <1>3, <1>4, <1>5, <1>6, <1>7, <1>8, <1>9, <1>10, <1>11, <1>12, <1>13 DEF Next

\* A call that takes no step stays where it may be.
LEMMA OthersPlaced ==
  ASSUME TypeOK, TypeOK', RowKept, NEW c \in Call, Placed(c),
         pc'[c] = pc[c], operation'[c] = operation[c], user'[c] = user[c]
  PROVE  Placed(c)'
<1> USE CodesAssumption DEF TypeOK, RowKept, Placed, Code, Account
<1>1. user[c] # NoAccount => user[c].otp \in 0..MaxCodes
  OBVIOUS
<1>2. account # NoAccount => account' # NoAccount /\ (account.verified => account'.verified)
  OBVIOUS
<1>3. operation[c] \in {"verify", "verifyReset"} => user[c].otp <= codes'
  BY <1>1
<1>4. pc[c] = "session" /\ operation[c] = "verify" => user[c].otp # account'.otp
  BY <1>1, <1>2
<1> QED
  BY <1>2, <1>3, <1>4

\* A step of call c leaves it where it may be, and does not touch the others.
Moved(c) ==
  /\ Placed(c)'
  /\ \A d \in Call \ {c} :
       pc'[d] = pc[d] /\ operation'[d] = operation[d] /\ user'[d] = user[d]

LEMMA MovedPlaced ==
  ASSUME TypeOK, TypeOK', RowKept, AllPlaced, NEW c \in Call, Moved(c)
  PROVE  AllPlaced'
<1> SUFFICES ASSUME NEW d \in Call PROVE Placed(d)'
  BY DEF AllPlaced
<1>1. CASE d = c
  BY <1>1 DEF Moved
<1>2. CASE d # c
  BY <1>2, OthersPlaced DEF Moved, AllPlaced
<1> QED
  BY <1>1, <1>2

LEMMA EndMoves == ASSUME TypeOK, NEW c \in Call, End(c) PROVE Moved(c)
BY DEF TypeOK, End, Moved, Placed

LEMMA BeginMoves ==
  ASSUME TypeOK, Generated, NEW c \in Call, NEW op \in Operation, NEW label, Begin(c, op, label),
         label \in {"insert", "rewrite", "clear", "store", "lookup", "right", "wrong", "session"},
         label # "insert" => account # NoAccount,
         label \in {"lookup", "right", "wrong"} => op \in Counter,
         label = "lookup" => op = "login",
         label = "session" => account.verified /\ op # "verify",
         op \in Counter => account # NoAccount,
         op \in {"verify", "verifyReset"} => account.otp # 0
  PROVE  Moved(c)
<1> USE CodesAssumption DEF TypeOK, Generated, Begin, Counter
<1>1. /\ pc'[c] = label /\ operation'[c] = op
      /\ user'[c] = Kept(op)
      /\ UNCHANGED <<account, codes>>
  OBVIOUS
<1>2. op = "login" => Kept(op) # NoAccount /\ Kept(op).verified = account.verified
  BY LoginKeeps DEF Kept
<1>3. /\ op \in {"verify", "verifyReset"} => Kept(op) = account
      /\ op \notin Counter => Kept(op) = NoAccount
  BY DEF Kept
<1>4. Placed(c)'
  BY <1>1, <1>2, <1>3 DEF Placed, Operation
<1> QED
  BY <1>4 DEF Moved

LEMMA GoToMoves ==
  ASSUME TypeOK, TypeOK', RowKept, NEW c \in Call, Placed(c), pc[c] # "idle", NEW label, GoTo(c, label),
         label \in {"right", "wrong", "punish", "recount", "clear", "store", "send", "undo", "session"},
         account' # NoAccount,
         label \in {"right", "wrong", "punish", "recount"} => operation[c] \in Counter,
         label = "right" => user[c] # NoAccount,
         label = "session" => /\ account'.verified
                              /\ operation[c] = "verify" => user[c].otp # account'.otp
  PROVE  Moved(c)
<1> USE DEF TypeOK, GoTo
<1>1. pc'[c] = label /\ operation'[c] = operation[c] /\ user'[c] = user[c]
  OBVIOUS
<1>2. operation[c] \in {"verify", "verifyReset"} => user[c].otp <= codes'
  BY CodesAssumption DEF Placed, RowKept, Code, Account
<1>3. Placed(c)'
  BY <1>1, <1>2 DEF Placed, RowKept
<1> QED
  BY <1>3 DEF Moved

LEMMA PlacedStep == TypeOK /\ AllPlaced /\ Generated /\ [Next]_vars => AllPlaced'
<1> SUFFICES ASSUME TypeOK, AllPlaced, Generated, [Next]_vars PROVE AllPlaced'
  OBVIOUS
<1>0. TypeOK' /\ RowKept
  BY TypeStep, RowStep
<1>1. ASSUME NEW c \in Call, Moved(c) PROVE AllPlaced'
  BY <1>0, <1>1, MovedPlaced
<1>2. ASSUME NEW c \in Call, End(c) PROVE AllPlaced'
  BY <1>1, <1>2, EndMoves
<1>3. ASSUME NEW c \in Call PROVE Placed(c)
  BY DEF AllPlaced
<1>4. ASSUME NEW c \in Call, BeginRegister(c) \/ BeginGoogle(c) PROVE AllPlaced'
  BY <1>1, <1>4, BeginMoves DEF BeginRegister, BeginGoogle, Operation, Counter
<1>5. ASSUME NEW c \in Call, BeginForgot(c) \/ BeginResend(c) \/ BeginLogin(c) PROVE AllPlaced'
  BY <1>1, <1>5, BeginMoves DEF BeginForgot, BeginResend, BeginLogin, Operation, Counter
<1>6. ASSUME NEW c \in Call, NEW op \in {"verify", "verifyReset"}, NEW right \in BOOLEAN,
             BeginVerify(c, op, right)
      PROVE AllPlaced'
  BY <1>1, <1>6, BeginMoves DEF BeginVerify, Operation, Counter
<1>7. ASSUME NEW c \in Call, Insert(c) PROVE AllPlaced'
  <2> DEFINE provider == IF operation[c] = "google" THEN "google" ELSE "email"
  <2>0. account' = [provider |-> provider, verified |-> provider = "google",
                    otp |-> 0, expired |-> FALSE]
    BY <1>7 DEF Insert, NewAccount
  <2>1. account' # NoAccount /\ (operation[c] = "google" => account'.verified)
    <3>1. account' \in Account
      BY <2>0, NewAccountType DEF Provider
    <3>2. operation[c] = "google" => account'.verified
      BY <2>0
    <3> QED
      BY <3>1, <3>2, CodesAssumption
  <2>2. GoTo(c, IF operation[c] = "google" THEN "session" ELSE "store")
    BY <1>7 DEF Insert
  <2> QED
    BY <1>0, <1>1, <1>3, <1>7, <2>1, <2>2, GoToMoves DEF Insert
<1>8. ASSUME NEW c \in Call, Rewrite(c) PROVE AllPlaced'
  BY <1>0, <1>1, <1>3, <1>8, GoToMoves DEF Rewrite, RowKept, Placed
<1>9. ASSUME NEW c \in Call, Store(c) PROVE AllPlaced'
  <2>1. /\ pc'[c] \in {"restart", "send"} /\ operation'[c] = operation[c] /\ user'[c] = user[c]
        /\ \A d \in Call \ {c} :
             pc'[d] = pc[d] /\ operation'[d] = operation[d] /\ user'[d] = user[d]
    BY <1>9 DEF Store, TypeOK
  <2>2. Placed(c)'
    <3>1. account' # NoAccount
      BY <1>0, <1>3, <1>9 DEF Store, Placed, RowKept
    <3>2. operation[c] \in {"verify", "verifyReset"} => user[c].otp <= codes'
      BY <1>0, <1>3, CodesAssumption DEF TypeOK, Placed, RowKept, Code, Account
    <3> QED
      BY <1>0, <1>3, <2>1, <3>1, <3>2 DEF Placed, RowKept
  <2> QED
    BY <1>1, <2>1, <2>2 DEF Moved
<1>10. ASSUME NEW c \in Call, RestartCounter(c) PROVE AllPlaced'
  BY <1>0, <1>1, <1>3, <1>10, GoToMoves DEF RestartCounter, Placed
<1>11. ASSUME NEW c \in Call,
              \/ Send(c) \/ Undo(c) \/ RefuseLocked(c) \/ CountThenFail(c) \/ Recount(c)
              \/ SignIn(c) \/ Fail(c)
       PROVE AllPlaced'
  BY <1>2, <1>11 DEF Send, Undo, RefuseLocked, CountThenFail, Recount, SignIn, Fail
<1>12. ASSUME NEW c \in Call, SendFails(c) PROVE AllPlaced'
  BY <1>0, <1>1, <1>2, <1>3, <1>12, GoToMoves DEF SendFails, Placed
<1>13. ASSUME NEW c \in Call, NEW right \in BOOLEAN, CheckPassword(c, right) PROVE AllPlaced'
  BY <1>0, <1>1, <1>3, <1>13, GoToMoves DEF CheckPassword, Placed, Counter
<1>14. ASSUME NEW c \in Call, CountWrong(c) PROVE AllPlaced'
  BY <1>0, <1>1, <1>2, <1>3, <1>14, GoToMoves DEF CountWrong, Count, Placed
<1>15. ASSUME NEW c \in Call, Punish(c) PROVE AllPlaced'
  BY <1>0, <1>1, <1>3, <1>15, GoToMoves DEF Punish, Placed, RowKept
<1>16. ASSUME NEW c \in Call, Right(c) PROVE AllPlaced'
  BY <1>0, <1>1, <1>3, <1>16, GoToMoves DEF Right, Placed
<1>17. ASSUME NEW c \in Call, Clear(c) PROVE AllPlaced'
  <2>1. account \in Account
    BY <1>3, <1>17 DEF Clear, Placed, TypeOK
  <2>2. account' # NoAccount /\ account'.verified /\ account'.otp = 0
    <3>1. [account EXCEPT !.verified = TRUE].verified
      BY <2>1 DEF Account
    <3>2. PutCode([account EXCEPT !.verified = TRUE], 0) /\ 0 \in Code
      BY <1>17, CodesAssumption DEF Clear, ClearOtp, Code
    <3> QED
      BY <2>1, <3>1, <3>2, VerifiedType, PutCodeEffect
  <2>3. CASE End(c)
    BY <1>2, <2>3
  <2>4. CASE GoTo(c, "session")
    <3>1. operation[c] = "verify" => user[c].otp # 0
      BY <1>3 DEF Placed
    <3> QED
      BY <1>0, <1>1, <1>3, <1>17, <2>2, <2>4, <3>1, GoToMoves DEF Clear
  <2> QED
    BY <1>17, <2>3, <2>4 DEF Clear
<1>18. ASSUME CodeExpires \/ LockExpires \/ (\E k \in Counter : CounterExpires(k)) \/ UNCHANGED vars
       PROVE AllPlaced'
  <2>1. UNCHANGED <<pc, operation, user>>
    BY <1>18 DEF CodeExpires, LockExpires, CounterExpires, vars, calls
  <2> QED
    BY <1>0, <1>3, <2>1, OthersPlaced DEF AllPlaced
<1> QED
  BY <1>4, <1>5, <1>6, <1>7, <1>8, <1>9, <1>10, <1>11, <1>12, <1>13, <1>14, <1>15, <1>16, <1>17,
     <1>18 DEF Next

LEMMA SessionsStep ==
  TypeOK /\ AllPlaced /\ SessionsOnlyVerified /\ [Next]_vars => SessionsOnlyVerified'
<1> SUFFICES ASSUME TypeOK, AllPlaced, SessionsOnlyVerified, [Next]_vars
             PROVE  SessionsOnlyVerified'
  OBVIOUS
<1>1. account # NoAccount => account' # NoAccount /\ (account.verified => account'.verified)
  BY RowStep DEF RowKept
<1>2. UNCHANGED signedIn \/ \E c \in Call : SignIn(c)
  BY DEF Next, vars, BeginRegister, BeginGoogle, Insert, Rewrite, BeginForgot, BeginResend, Begin,
     Store, RestartCounter, Send, SendFails, Undo, BeginLogin, RefuseLocked, CheckPassword,
     BeginVerify, CountWrong, Count, CountThenFail, Punish, Recount, Right, Clear, Fail,
     CodeExpires, LockExpires, CounterExpires
<1>3. ASSUME NEW c \in Call, SignIn(c) PROVE account # NoAccount /\ account.verified
  BY <1>3 DEF SignIn, AllPlaced, Placed
<1> QED
  BY <1>1, <1>2, <1>3 DEF SessionsOnlyVerified

(***************************************************************************)
(* A code is accepted after it has left the row, and new codes are larger  *)
(* than all before, so none comes back.                                    *)
(***************************************************************************)
LEMMA SpentStep ==
  TypeOK /\ AllPlaced /\ Generated /\ AcceptedStaysSpent /\ [Next]_vars
    => Generated' /\ AcceptedStaysSpent'
<1> SUFFICES ASSUME TypeOK, AllPlaced, Generated, AcceptedStaysSpent, [Next]_vars
             PROVE  Generated' /\ AcceptedStaysSpent'
  OBVIOUS
<1>1. TypeOK' /\ RowKept
  BY TypeStep, RowStep
<1>2. codes \in Nat /\ codes' \in Nat /\ accepted \subseteq Nat \ {0} /\ accepted' \subseteq Nat \ {0}
  BY <1>1, CodesAssumption DEF TypeOK, Code
<1>3. account # NoAccount => account.otp \in Nat
  BY CodesAssumption DEF TypeOK, Account, Code
<1>4. CASE UNCHANGED accepted
  BY <1>1, <1>2, <1>3, <1>4 DEF RowKept, Generated, AcceptedStaysSpent
<1>5. ASSUME NEW c \in Call, accepted' = accepted \cup {user[c].otp}, user[c].otp <= codes,
             UNCHANGED codes, account' # NoAccount => account'.otp # user[c].otp
      PROVE  Generated' /\ AcceptedStaysSpent'
  BY <1>1, <1>2, <1>3, <1>5 DEF RowKept, Generated, AcceptedStaysSpent
<1>6. ASSUME NEW c \in Call, Clear(c) PROVE Generated' /\ AcceptedStaysSpent'
  <2>1. account \in Account /\ 0 \in Code
    BY <1>6, CodesAssumption DEF Clear, AllPlaced, Placed, TypeOK, Code
  <2>2. account'.otp = 0
    BY <1>6, <2>1, VerifiedType, PutCodeEffect DEF Clear, ClearOtp
  <2>3. CASE operation[c] = "verifyReset" /\ Accept(c)
    BY <1>5, <1>6, <2>2, <2>3 DEF Clear, Accept, AllPlaced, Placed
  <2> QED
    BY <1>4, <1>6, <2>3 DEF Clear
<1>7. ASSUME NEW c \in Call, SignIn(c) PROVE Generated' /\ AcceptedStaysSpent'
  <2>1. CASE operation[c] = "verify" /\ Accept(c)
    BY <1>5, <1>7, <2>1 DEF SignIn, Accept, AllPlaced, Placed
  <2> QED
    BY <1>4, <1>7, <2>1 DEF SignIn
<1>8. UNCHANGED accepted \/ \E c \in Call : Clear(c) \/ SignIn(c)
  BY DEF Next, vars, history, BeginRegister, BeginGoogle, Insert, Rewrite, BeginForgot, BeginResend,
     Begin, Store, RestartCounter, Send, Deliver, SendFails, Undo, BeginLogin, RefuseLocked,
     CheckPassword, BeginVerify, CountWrong, Count, AnswerWrong, CountThenFail, Punish, Recount,
     Right, Fail, CodeExpires, LockExpires, CounterExpires
<1> QED
  BY <1>4, <1>6, <1>7, <1>8

\* A step of call c that leaves the code and its delivery alone, and does not
\* take c away from sending.
Quiet(c) ==
  /\ UNCHANGED delivery
  /\ account # NoAccount => account'.otp = account.otp
  /\ pc[c] \in {"restart", "send", "undo"} => /\ pc'[c] \in {"restart", "send", "undo"}
                                             /\ issued'[c] = issued[c]
  /\ \A d \in Call \ {c} : pc'[d] = pc[d] /\ issued'[d] = issued[d]

LEMMA QuietSends ==
  ASSUME TypeOK, AllPlaced, CodesGetSent, NEW c \in Call, Quiet(c)
  PROVE  CodesGetSent'
<1> SUFFICES ASSUME delivery' = "pending"
             PROVE  \E d \in Call : pc'[d] \in {"restart", "send", "undo"} /\ issued'[d] = account'.otp
  BY DEF CodesGetSent
<1>1. PICK d \in Call : pc[d] \in {"restart", "send", "undo"} /\ issued[d] = account.otp
  BY DEF CodesGetSent, Quiet
<1>2. account # NoAccount
  BY <1>1 DEF AllPlaced, Placed
<1> QED
  BY <1>1, <1>2 DEF Quiet

LEMMA SentStep == TypeOK /\ AllPlaced /\ CodesGetSent /\ [Next]_vars => CodesGetSent'
<1> SUFFICES ASSUME TypeOK, AllPlaced, CodesGetSent, [Next]_vars PROVE CodesGetSent'
  OBVIOUS
<1>1. ASSUME NEW c \in Call, Quiet(c) PROVE CodesGetSent'
  BY <1>1, QuietSends
<1>2. ASSUME delivery' # "pending" PROVE CodesGetSent'
  BY <1>2 DEF CodesGetSent
<1>3. ASSUME NEW row, PutCode(row, 0) PROVE CodesGetSent'
  BY <1>2, <1>3 DEF PutCode
<1>4. ASSUME NEW c \in Call,
             \/ BeginRegister(c) \/ BeginGoogle(c) \/ BeginForgot(c) \/ BeginResend(c)
             \/ BeginLogin(c) \/ \E op \in {"verify", "verifyReset"}, right \in BOOLEAN :
                                     BeginVerify(c, op, right)
      PROVE CodesGetSent'
  <2>1. PICK op, label : Begin(c, op, label)
    BY <1>4 DEF BeginRegister, BeginGoogle, BeginForgot, BeginResend, BeginLogin, BeginVerify
  <2> QED
    BY <1>1, <2>1 DEF Begin, Quiet, TypeOK, history
<1>5. ASSUME NEW c \in Call, Insert(c) PROVE CodesGetSent'
  BY <1>1, <1>5 DEF Insert, GoTo, Quiet, TypeOK, history
<1>6. ASSUME NEW c \in Call, Rewrite(c) \/ Undo(c) PROVE CodesGetSent'
  BY <1>3, <1>6 DEF Rewrite, Undo, ClearOtpOnly
<1>7. ASSUME NEW c \in Call, Store(c) PROVE CodesGetSent'
  <2>1. account \in Account /\ codes' \in Code
    BY <1>7, TypeStep DEF Store, AllPlaced, Placed, TypeOK
  <2>2. account'.otp = codes'
    BY <1>7, <2>1, PutCodeEffect DEF Store, StoreOtpHash
  <2>3. pc'[c] \in {"restart", "send"} /\ issued'[c] = codes'
    BY <1>7 DEF Store, TypeOK
  <2> QED
    BY <2>2, <2>3 DEF CodesGetSent
<1>8. ASSUME NEW c \in Call, RestartCounter(c) PROVE CodesGetSent'
  BY <1>1, <1>8 DEF RestartCounter, GoTo, Quiet, TypeOK
<1>9. ASSUME NEW c \in Call, NEW fate \in {"settled", "settled"}, pc[c] = "send",
             Deliver(c, fate), End(c), UNCHANGED account
      PROVE CodesGetSent'
  <2>1. CASE account.otp = issued[c]
    BY <1>2, <1>9, <2>1 DEF Deliver
  <2>2. CASE account.otp # issued[c]
    BY <1>9, <2>2 DEF Deliver, End, TypeOK, CodesGetSent
  <2> QED
    BY <2>1, <2>2
<1>10. ASSUME NEW c \in Call, Send(c) PROVE CodesGetSent'
  BY <1>9, <1>10 DEF Send
<1>11. ASSUME NEW c \in Call, SendFails(c) PROVE CodesGetSent'
  <2>1. CASE GoTo(c, "undo") /\ UNCHANGED history
    BY <1>1, <1>11, <2>1 DEF SendFails, GoTo, Quiet, TypeOK, history
  <2> QED
    BY <1>9, <1>11, <2>1 DEF SendFails
<1>12. ASSUME NEW c \in Call, RefuseLocked(c) \/ CountThenFail(c) \/ Recount(c) \/ SignIn(c)
       PROVE CodesGetSent'
  BY <1>1, <1>12 DEF RefuseLocked, CountThenFail, Recount, AnswerWrong, SignIn, End, Quiet, TypeOK,
                      history
<1>13. ASSUME NEW c \in Call, Right(c) \/ \E right \in BOOLEAN : CheckPassword(c, right)
       PROVE CodesGetSent'
  BY <1>1, <1>13 DEF Right, CheckPassword, GoTo, Quiet, TypeOK, history
<1>14. ASSUME NEW c \in Call, CountWrong(c) PROVE CodesGetSent'
  BY <1>1, <1>14 DEF CountWrong, Count, AnswerWrong, GoTo, End, Quiet, TypeOK
<1>15. ASSUME NEW c \in Call, Punish(c) PROVE CodesGetSent'
  <2>1. CASE UNCHANGED <<account, delivery>>
    BY <1>1, <1>15, <2>1 DEF Punish, GoTo, Quiet, TypeOK
  <2> QED
    BY <1>3, <1>15, <2>1 DEF Punish, ClearOtpOnly
<1>16. ASSUME NEW c \in Call, Clear(c) PROVE CodesGetSent'
  BY <1>3, <1>16 DEF Clear, ClearOtp
<1>17. ASSUME NEW c \in Call, Fail(c) PROVE CodesGetSent'
  <2>1. CASE pc[c] \in {"restart", "send", "undo"} /\ account.otp = issued[c]
    BY <1>2, <1>17, <2>1 DEF Fail
  <2>2. CASE ~(pc[c] \in {"restart", "send", "undo"} /\ account.otp = issued[c])
    BY <1>17, <2>2 DEF Fail, End, TypeOK, CodesGetSent
  <2> QED
    BY <2>1, <2>2
<1>18. ASSUME CodeExpires PROVE CodesGetSent'
  <2>1. account \in Account
    BY <1>18 DEF CodeExpires, TypeOK
  <2>2. account'.otp = account.otp /\ UNCHANGED <<pc, issued, delivery>>
    BY <1>18, <2>1, ExpiredEffect DEF CodeExpires, calls, history
  <2> QED
    BY <2>2 DEF CodesGetSent
<1>19. ASSUME LockExpires \/ (\E k \in Counter : CounterExpires(k)) \/ UNCHANGED vars
       PROVE CodesGetSent'
  BY <1>19 DEF LockExpires, CounterExpires, vars, calls, history, CodesGetSent
<1> QED
  BY <1>4, <1>5, <1>6, <1>7, <1>8, <1>10, <1>11, <1>12, <1>13, <1>14, <1>15, <1>16, <1>17, <1>18,
     <1>19 DEF Next

\* A call that takes no step stays punished: the lock is set, and the code it has
\* cleared does not come back.
LEMMA OthersPunished ==
  ASSUME TypeOK, TypeOK', RowKept, NEW c \in Call, Placed(c), Punished(c),
         pc'[c] = pc[c], operation'[c] = operation[c], user'[c] = user[c],
         c \in counted' => c \in counted,
         pc[c] = "recount" /\ operation[c] = "login" /\ locked => locked'
  PROVE  Punished(c)'
<1>1. CASE pc[c] = "recount" /\ operation[c] # "login"
  <2>1. /\ operation[c] \in {"verify", "verifyReset"} /\ account # NoAccount
        /\ user[c].otp # 0 /\ user[c].otp <= codes
    BY <1>1 DEF Placed, Counter
  <2>2. user[c].otp \in Nat /\ codes \in Nat /\ account'.otp # user[c].otp
    BY <1>1, <2>1, CodesAssumption DEF Punished, RowKept, TypeOK, Placed, Code, Account
  <2> QED
    BY <1>1, <2>2 DEF Punished
<1>2. CASE ~(pc[c] = "recount" /\ operation[c] # "login")
  BY <1>2 DEF Punished
<1> QED
  BY <1>1, <1>2

\* A step of call c that leaves the limits, and c punished.
LEMMA LimitsMove ==
  ASSUME TypeOK, TypeOK', RowKept, AllPlaced, LimitsHold, NEW c \in Call,
         \A d \in Call \ {c} :
           pc'[d] = pc[d] /\ operation'[d] = operation[d] /\ user'[d] = user[d],
         counted' \subseteq counted \cup {c}, locked => locked',
         Punished(c)', \A k \in Counter : Limited(k)'
  PROVE  LimitsHold'
<1> SUFFICES ASSUME NEW d \in Call PROVE Punished(d)'
  BY DEF LimitsHold
<1>1. CASE d # c
  BY <1>1, OthersPunished DEF LimitsHold, AllPlaced
<1> QED
  BY <1>1

\* What is forgotten leaves the limits, whatever its counters are set to.
LEMMA ForgetLimits ==
  ASSUME TypeOK, TypeOK', LimitsHold, NEW K, Forget(K),
         \A k \in Counter \ K : attempts'[k] = attempts[k],
         locked => locked' \/ "login" \in K
  PROVE  counted' \subseteq counted /\ \A k \in Counter : Limited(k)'
<1> SUFFICES ASSUME NEW k \in Counter PROVE Limited(k)'
  BY DEF Forget
<1>1. failures'[k] = IF k \in K THEN 0 ELSE failures[k]
  BY DEF Forget
<1>2. attempts'[k] \in 0..MaxAttempts
  BY DEF TypeOK
<1>3. CASE k \in K
  BY <1>1, <1>2, <1>3, CodesAssumption DEF Limited
<1>4. CASE k \notin K
  BY <1>1, <1>4 DEF Limited, LimitsHold
<1> QED
  BY <1>3, <1>4

\* The code in the row changes: what was answered about another is forgotten.
LEMMA PutCodeLimits ==
  ASSUME TypeOK, TypeOK', LimitsHold, NEW row, NEW otp, PutCode(row, otp),
         attempts' = attempts, locked' = locked
  PROVE  counted' \subseteq counted /\ \A k \in Counter : Limited(k)'
<1>1. Forget(Counter \ {"login"})
  BY DEF PutCode
<1> QED
  BY <1>1, ForgetLimits

\* A step of call c that gives no wrong answer, and counts down only what is forgotten.
LEMMA LimitsQuiet ==
  ASSUME TypeOK, TypeOK', LimitsHold, failures' = failures, locked' = locked,
         \A k \in Counter : attempts[k] <= attempts'[k]
  PROVE  \A k \in Counter : Limited(k)'
<1> SUFFICES ASSUME NEW k \in Counter PROVE Limited(k)'
  OBVIOUS
<1>1. failures[k] \in Nat /\ attempts[k] \in Nat /\ attempts'[k] \in Nat
  BY CodesAssumption DEF TypeOK
<1>2. failures[k] <= attempts[k] => failures[k] <= attempts'[k]
  BY <1>1
<1> QED
  BY <1>2 DEF Limited, LimitsHold

\* A call at another place than punish and recount is not to be punished.
LEMMA ElsewherePunished ==
  ASSUME NEW c \in Call, pc'[c] \notin {"punish", "recount"}, c \notin counted'
  PROVE  Punished(c)'
BY DEF Punished

(***************************************************************************)
(* Each step leaves the limits: an answer is "wrong" only while the        *)
(* counter is below its limit, or from a call that has punished.           *)
(***************************************************************************)
LEMMA LimitsStep == TypeOK /\ AllPlaced /\ LimitsHold /\ [Next]_vars => LimitsHold'
<1> SUFFICES ASSUME TypeOK, AllPlaced, LimitsHold, [Next]_vars PROVE LimitsHold'
  OBVIOUS
<1>0. TypeOK' /\ RowKept
  BY TypeStep, RowStep
<1>1. ASSUME NEW c \in Call PROVE Placed(c) /\ Punished(c)
  BY DEF AllPlaced, LimitsHold
<1>2. ASSUME NEW c \in Call, pc[c] # "punish" PROVE c \notin counted
  BY <1>1, <1>2 DEF Punished
<1>3. ASSUME NEW c \in Call,
             \/ End(c) /\ pc'[c] = "idle"
             \/ \E label : GoTo(c, label)
             \/ \E op, label : Begin(c, op, label)
      PROVE \A d \in Call \ {c} :
              pc'[d] = pc[d] /\ operation'[d] = operation[d] /\ user'[d] = user[d]
  BY <1>3 DEF End, GoTo, Begin, TypeOK
<1>4. ASSUME NEW c \in Call, End(c) PROVE pc'[c] = "idle"
  BY <1>4 DEF End, TypeOK
<1>5. ASSUME NEW c \in Call, NEW label, GoTo(c, label)
      PROVE pc'[c] = label /\ operation'[c] = operation[c] /\ user'[c] = user[c]
  BY <1>5 DEF GoTo, TypeOK
<1>6. ASSUME UNCHANGED <<attempts, failures, locked>> PROVE \A k \in Counter : Limited(k)'
  BY <1>6 DEF LimitsHold, Limited
<1>7. ASSUME NEW c \in Call,
             \/ BeginRegister(c) \/ BeginGoogle(c) \/ BeginForgot(c) \/ BeginResend(c)
             \/ BeginLogin(c) \/ \E op \in {"verify", "verifyReset"}, right \in BOOLEAN :
                                     BeginVerify(c, op, right)
      PROVE LimitsHold'
  <2>1. PICK op, label : Begin(c, op, label) /\ label \notin {"punish", "recount"}
    BY <1>7 DEF BeginRegister, BeginGoogle, BeginForgot, BeginResend, BeginLogin, BeginVerify
  <2>2. /\ pc[c] = "idle" /\ pc'[c] = label
        /\ UNCHANGED <<attempts, failures, locked, counted>>
    BY <2>1 DEF Begin, TypeOK, keys, history
  <2> QED
    BY <1>0, <1>2, <1>3, <1>6, <2>1, <2>2, LimitsMove, ElsewherePunished
<1>8. ASSUME NEW c \in Call,
             \/ Insert(c) \/ \E right \in BOOLEAN : CheckPassword(c, right)
             \/ SendFails(c) /\ GoTo(c, "undo")
      PROVE LimitsHold'
  <2>1. PICK label : GoTo(c, label) /\ label \notin {"punish", "recount"}
    BY <1>8 DEF Insert, CheckPassword
  <2>2. pc[c] # "punish" /\ UNCHANGED <<attempts, failures, locked, counted>>
    BY <1>8, <1>4, <1>5 DEF Insert, CheckPassword, SendFails, Deliver, keys, history
  <2> QED
    BY <1>0, <1>2, <1>3, <1>5, <1>6, <2>1, <2>2, LimitsMove, ElsewherePunished
<1>9. ASSUME NEW c \in Call,
             \/ Send(c) \/ RefuseLocked(c) \/ SignIn(c) \/ Fail(c)
             \/ SendFails(c) /\ End(c)
      PROVE LimitsHold'
  <2>1. End(c) /\ UNCHANGED <<attempts, failures, locked>>
    BY <1>9, <1>4, <1>5 DEF Send, RefuseLocked, SignIn, Fail, SendFails, Deliver, keys, history
  <2>2. counted' = counted \ {c}
    <3>1. CASE Fail(c)
      BY <3>1 DEF Fail
    <3>2. CASE ~Fail(c)
      <4>1. pc[c] # "punish" /\ UNCHANGED counted
        BY <1>9, <3>2, <1>4, <1>5 DEF Send, RefuseLocked, SignIn, SendFails, Deliver, history
      <4> QED
        BY <1>2, <4>1
    <3> QED
      BY <3>1, <3>2
  <2> QED
    BY <1>0, <1>3, <1>4, <1>6, <2>1, <2>2, LimitsMove, ElsewherePunished
<1>10. ASSUME NEW c \in Call, Rewrite(c) \/ Undo(c) \/ Store(c) \/ Clear(c) PROVE LimitsHold'
  <2>1. \E row, otp : PutCode(row, otp)
    BY <1>10 DEF Rewrite, Undo, Store, Clear, ClearOtpOnly, ClearOtp, StoreOtpHash
  <2>2. UNCHANGED <<attempts, locked>> /\ pc[c] # "punish"
    BY <1>10 DEF Rewrite, Undo, Store, Clear, keys
  <2>3. /\ pc'[c] \in {"idle", "store", "restart", "send", "session"}
        /\ \A d \in Call \ {c} :
             pc'[d] = pc[d] /\ operation'[d] = operation[d] /\ user'[d] = user[d]
    <3>1. CASE Store(c)
      BY <3>1 DEF Store, TypeOK
    <3>2. CASE ~Store(c)
      BY <1>3, <1>4, <1>5, <1>10, <3>2 DEF Rewrite, Undo, Clear
    <3> QED
      BY <3>1, <3>2
  <2>4. counted' \subseteq counted /\ \A k \in Counter : Limited(k)'
    BY <1>0, <2>1, <2>2, PutCodeLimits
  <2> QED
    BY <1>0, <1>2, <2>2, <2>3, <2>4, LimitsMove, ElsewherePunished
<1>11. ASSUME NEW c \in Call, RestartCounter(c) \/ Right(c) PROVE LimitsHold'
  <2>1. PICK k \in Counter : attempts' = [attempts EXCEPT ![k] = 0] /\ Forget({k})
    BY <1>1, <1>11 DEF RestartCounter, Right, Placed, Counter
  <2>2. /\ pc[c] # "punish" /\ UNCHANGED locked
        /\ \E label : GoTo(c, label) /\ label \notin {"punish", "recount"}
    BY <1>11 DEF RestartCounter, Right
  <2>3. counted' \subseteq counted /\ \A j \in Counter : Limited(j)'
    BY <1>0, <2>1, <2>2, ForgetLimits DEF TypeOK
  <2> QED
    BY <1>0, <1>2, <1>3, <1>5, <2>2, <2>3, LimitsMove, ElsewherePunished
<1>12. ASSUME NEW c \in Call, CountWrong(c) PROVE LimitsHold'
  <2> DEFINE op == operation[c]
             cs == IF Current(c) THEN counted \cup {c} ELSE counted
  <2>1. /\ pc[c] = "wrong" /\ op \in Counter /\ c \notin counted
        /\ attempts[op] \in 0..MaxAttempts /\ failures[op] \in 0..MaxAttempts
        /\ attempts' = [attempts EXCEPT ![op] = CountUp(op)] /\ UNCHANGED locked
    BY <1>1, <1>2, <1>12 DEF CountWrong, Count, Placed, TypeOK
  <2>2. attempts[op] <= CountUp(op)
    BY <2>1, CodesAssumption DEF CountUp
  <2>3. CASE CountUp(op) # MaxAttempts
    <3>1. AnswerWrong(c, cs) /\ End(c)
      BY <1>12, <2>3 DEF CountWrong, Count
    <3>2. CountUp(op) = attempts[op] + 1 /\ attempts[op] + 1 < MaxAttempts
      BY <2>1, <2>3, CodesAssumption DEF CountUp
    <3>3. /\ \A k \in Counter \ {op} : failures'[k] = failures[k] /\ attempts'[k] = attempts[k]
          /\ failures'[op] <= failures[op] + 1 /\ attempts'[op] = attempts[op] + 1
      BY <2>1, <3>1, <3>2 DEF AnswerWrong, TypeOK
    <3>4. ASSUME NEW k \in Counter PROVE Limited(k)'
      <4>1. CASE k # op
        BY <2>1, <3>3, <4>1 DEF Limited, LimitsHold
      <4>2. CASE k = op
        <5>1. /\ failures'[op] \in Nat /\ attempts'[op] \in Nat /\ MaxAttempts \in Nat
              /\ failures[op] \in Nat /\ attempts[op] \in Nat
          BY <1>0, <2>1, CodesAssumption DEF TypeOK
        <5>2. Limited(op)
          BY <2>1 DEF LimitsHold
        <5>3. failures[op] <= attempts[op] =>
                failures'[op] <= attempts'[op] /\ failures'[op] < MaxAttempts
          BY <3>2, <3>3, <5>1
        <5> QED
          BY <2>1, <4>2, <5>2, <5>3 DEF Limited
      <4> QED
        BY <4>1, <4>2
    <3>5. counted' \subseteq counted /\ c \notin counted'
      BY <3>1 DEF AnswerWrong
    <3> QED
      BY <1>0, <1>3, <1>4, <2>1, <3>1, <3>4, <3>5, LimitsMove, ElsewherePunished
  <2>4. CASE CountUp(op) = MaxAttempts
    <3>1. counted' = cs /\ GoTo(c, "punish") /\ UNCHANGED failures
      BY <1>12, <2>4 DEF CountWrong, Count
    <3>2. \A k \in Counter : Limited(k)'
      <4>1. \A k \in Counter : attempts[k] \in Nat /\ attempts[k] <= attempts'[k]
        BY <2>1, <2>2, CodesAssumption DEF TypeOK
      <4> QED
        BY <1>0, <2>1, <3>1, <4>1, LimitsQuiet
    <3>3. Punished(c)'
      BY <1>5, <3>1 DEF Punished
    <3> QED
      BY <1>0, <1>3, <2>1, <3>1, <3>2, <3>3, LimitsMove
  <2> QED
    BY <2>3, <2>4
<1>13. ASSUME NEW c \in Call, CountThenFail(c) PROVE LimitsHold'
  <2>1. /\ operation[c] \in Counter /\ c \notin counted /\ End(c)
        /\ UNCHANGED <<failures, locked, counted>>
    BY <1>1, <1>2, <1>13 DEF CountThenFail, Placed, history
  <2>2. \A k \in Counter : attempts[k] \in Nat /\ attempts[k] <= attempts'[k]
    BY <1>13, <2>1, CodesAssumption DEF CountThenFail, CountUp, TypeOK
  <2> QED
    BY <1>0, <1>3, <1>4, <2>1, <2>2, LimitsQuiet, LimitsMove, ElsewherePunished
<1>14. ASSUME NEW c \in Call, Punish(c) PROVE LimitsHold'
  <2>1. pc[c] = "punish" /\ operation[c] \in Counter /\ GoTo(c, "recount") /\ UNCHANGED attempts
    BY <1>1, <1>14 DEF Punish, Placed
  <2>2. c \in OfCounters({operation[c]})
    BY DEF OfCounters
  <2>3. CASE operation[c] = "login"
    <3>1. locked' = TRUE /\ Forget({"login"})
      BY <1>14, <2>3 DEF Punish
    <3>2. counted' \subseteq counted /\ c \notin counted' /\ \A k \in Counter : Limited(k)'
      BY <1>0, <2>1, <2>2, <2>3, <3>1, ForgetLimits DEF Forget
    <3>3. Punished(c)'
      BY <1>5, <2>1, <2>3, <3>1, <3>2 DEF Punished
    <3> QED
      BY <1>0, <1>3, <2>1, <3>1, <3>2, <3>3, LimitsMove
  <2>4. CASE operation[c] # "login"
    <3>1. PutCode(account, 0) /\ UNCHANGED locked
      BY <1>14, <2>4 DEF Punish, ClearOtpOnly
    <3>2. counted' \subseteq counted /\ \A k \in Counter : Limited(k)'
      BY <1>0, <2>1, <3>1, PutCodeLimits
    <3>3. c \notin counted'
      BY <2>1, <2>4, <3>1 DEF PutCode, Forget, OfCounters
    <3>4. account'.otp = 0 /\ user[c].otp # 0
      <4>1. account \in Account /\ 0 \in Code
        BY <1>1, <2>1, CodesAssumption DEF Placed, TypeOK, Code
      <4> QED
        BY <1>1, <2>1, <2>4, <3>1, <4>1, PutCodeEffect DEF Placed, Counter
    <3>5. Punished(c)'
      BY <1>5, <2>1, <2>4, <3>3, <3>4 DEF Punished
    <3> QED
      BY <1>0, <1>3, <2>1, <3>1, <3>2, <3>5, LimitsMove
  <2> QED
    BY <2>3, <2>4
<1>15. ASSUME NEW c \in Call, Recount(c) PROVE LimitsHold'
  <2>1. /\ operation[c] \in Counter /\ c \notin counted /\ End(c)
        /\ attempts' = [attempts EXCEPT ![operation[c]] = 0] /\ UNCHANGED locked
    BY <1>1, <1>2, <1>15 DEF Recount, Placed
  <2>2. CASE Current(c) /\ AnswerWrong(c, counted)
    <3>1. operation[c] = "login" /\ locked
      BY <1>1, <1>15, <2>2 DEF Recount, Current, Punished
    <3>2. failures' = failures /\ counted' = counted
      BY <2>1, <2>2 DEF AnswerWrong
    <3>3. \A k \in Counter : Limited(k)'
      BY <2>1, <3>1, <3>2 DEF Limited, LimitsHold, TypeOK
    <3> QED
      BY <1>0, <1>3, <1>4, <2>1, <3>2, <3>3, LimitsMove, ElsewherePunished
  <2>3. CASE Forget({operation[c]})
    <3>1. counted' \subseteq counted /\ \A k \in Counter : Limited(k)'
      BY <1>0, <2>1, <2>3, ForgetLimits DEF TypeOK
    <3> QED
      BY <1>0, <1>3, <1>4, <2>1, <3>1, LimitsMove, ElsewherePunished
  <2> QED
    BY <1>15, <2>2, <2>3 DEF Recount
<1>16. ASSUME CodeExpires \/ LockExpires \/ (\E k \in Counter : CounterExpires(k)) \/ UNCHANGED vars
       PROVE LimitsHold'
  <2>1. UNCHANGED <<pc, operation, user>>
    BY <1>16 DEF CodeExpires, LockExpires, CounterExpires, vars, calls
  <2>2. counted' \subseteq counted /\ \A k \in Counter : Limited(k)'
    <3>1. CASE CodeExpires \/ UNCHANGED vars
      BY <1>6, <3>1 DEF CodeExpires, vars, keys, history
    <3>2. CASE LockExpires
      BY <1>0, <3>2, ForgetLimits DEF LockExpires
    <3>3. ASSUME NEW k \in Counter, CounterExpires(k)
          PROVE  counted' \subseteq counted /\ \A j \in Counter : Limited(j)'
      BY <1>0, <3>3, ForgetLimits DEF CounterExpires, TypeOK
    <3> QED
      BY <1>16, <3>1, <3>2, <3>3
  <2>3. ASSUME NEW c \in Call, pc[c] = "recount", operation[c] = "login", locked PROVE locked'
    BY <1>16, <2>3 DEF CodeExpires, LockExpires, CounterExpires, vars, keys, OfCounters
  <2> QED
    BY <1>0, <1>1, <2>1, <2>2, <2>3, OthersPunished DEF LimitsHold
<1> QED
  BY <1>7, <1>8, <1>9, <1>10, <1>11, <1>12, <1>13, <1>14, <1>15, <1>16 DEF Next, SendFails

LEMMA Inductive == IInv /\ [Next]_vars => IInv'
BY TypeStep, PlacedStep, SessionsStep, SpentStep, SentStep, LimitsStep DEF IInv

LEMMA Invariant == Spec => []IInv
<1>1. Init => IInv
  BY InitHolds
<1> QED
  BY <1>1, Inductive, PTL DEF Spec

(***************************************************************************)
(* Every variable keeps to its type: each step leaves a whole row.         *)
(***************************************************************************)
THEOREM CodesTypeCorrect == Spec => []TypeOK
<1>1. IInv => TypeOK
  BY DEF IInv
<1> QED
  BY <1>1, Invariant, PTL

(***************************************************************************)
(* Sessions are issued for verified accounts only, for any calls.          *)
(***************************************************************************)
THEOREM NoUnverifiedSession == Spec => []SessionsOnlyVerified
<1>1. IInv => SessionsOnlyVerified
  BY DEF IInv
<1> QED
  BY <1>1, Invariant, PTL

(***************************************************************************)
(* An accepted code never comes back to the row, for any calls.            *)
(***************************************************************************)
THEOREM NoCodeTwice == Spec => []AcceptedStaysSpent
<1>1. IInv => AcceptedStaysSpent
  BY DEF IInv
<1> QED
  BY <1>1, Invariant, PTL

(***************************************************************************)
(* Every code in the row is sent or about to be, but for the failures that *)
(* the code does not undo.                                                 *)
(***************************************************************************)
THEOREM NoStrayCode == Spec => []CodesGetSent
<1>1. IInv => CodesGetSent
  BY DEF IInv
<1> QED
  BY <1>1, Invariant, PTL

(***************************************************************************)
(* The limit of wrong answers ends in a lock or a cleared code, for any    *)
(* number of calls that answer at once and any limit.                      *)
(***************************************************************************)
THEOREM LimitsTakeEffect == Spec => []FailuresTakeEffect
<1>1. IInv => FailuresTakeEffect
  BY CodesAssumption DEF IInv, LimitsHold, Limited, FailuresTakeEffect, TypeOK
<1> QED
  BY <1>1, Invariant, PTL

-----------------------------------------------------------------------------
(***************************************************************************)
(* The session of a browser: it stays signed in, and is served only while  *)
(* the account is active, for any number of overlapping requests.          *)
(***************************************************************************)

Web ==
  [at : {"none", "guard", "rotate", "status", "handler", "exchange", "respond"},
   route : Route, access : AccessAge, refresh : 0..MaxTokens, token : 0..MaxTokens,
   locks : BOOLEAN, reply : {"keep", "clear", "set"}, user : BOOLEAN, sawActive : BOOLEAN]

Asking == {"guard", "rotate", "status", "handler", "exchange"}

LEMMA NoWebType == NoWeb \in Web
BY BrowserAssumption DEF NoWeb, Web, Route, AccessAge

\* A step of one request leaves the others as they are.
LEMMA OneMoves ==
  ASSUME BSTypeOK, NEW r \in WebRequest, NEW w \in Web, web' = [web EXCEPT ![r] = w]
  PROVE  /\ web' \in [WebRequest -> Web] /\ web'[r] = w
         /\ \A q \in WebRequest : q # r => web'[q] = web[q]
BY DEF BSTypeOK, Web

\* What a request is once it is answered.
LEMMA Responses ==
  ASSUME NEW reply \in {"keep", "clear", "set"}, NEW token \in 0..MaxTokens,
         NEW named \in BOOLEAN, NEW sawActive \in BOOLEAN,
         NEW w, w = Response(reply, token, named, sawActive)
  PROVE  /\ w \in Web /\ w.at = "respond" /\ w.reply = reply /\ w.refresh = 0
         /\ (w.user <=> named) /\ (w.sawActive <=> sawActive)
         /\ w.token = IF reply = "set" THEN token ELSE 0
BY BrowserAssumption DEF Response, Web, Route, AccessAge

\* What changes in a request that goes to another await,
LEMMA Goes ==
  ASSUME NEW v \in Web, NEW label \in Asking, NEW w, w = [v EXCEPT !.at = label]
  PROVE  /\ w \in Web /\ w.at = label /\ w.refresh = v.refresh /\ w.token = v.token
         /\ (w.user <=> v.user) /\ (w.sawActive <=> v.sawActive)
BY DEF Web, Asking

\* that takes the lock,
LEMMA Locks ==
  ASSUME NEW v \in Web, NEW w, w = [v EXCEPT !.locks = TRUE]
  PROVE  /\ w \in Web /\ w.at = v.at /\ w.refresh = v.refresh /\ w.token = v.token
         /\ (w.user <=> v.user) /\ (w.sawActive <=> v.sawActive)
BY DEF Web

\* and that refreshes a token that is still valid.
LEMMA RefreshesSilently ==
  ASSUME NEW v \in Web, NEW w, w = [v EXCEPT !.at = "rotate", !.user = TRUE]
  PROVE  /\ w \in Web /\ w.at = "rotate" /\ w.refresh = v.refresh /\ w.token = v.token
         /\ (w.sawActive <=> v.sawActive)
BY DEF Web

(***************************************************************************)
(* The invariant: while the session lives, every token that somebody holds *)
(* leads over the grace keys to the one that is accepted, no request is on *)
(* its way without a token and no response is going to clear the cookies.  *)
(***************************************************************************)
LeadsOn(t) == t # 0 /\ t <= minted /\ \A k \in t .. minted - 1 : successor[k] = k + 1

RequestLives(w) ==
  /\ w.at \in Asking => LeadsOn(w.refresh)
  /\ w.at = "status" => LeadsOn(w.token)
  /\ w.at = "respond" => w.reply # "clear" /\ (w.reply = "set" => LeadsOn(w.token))

SessionLives ==
  /\ tokenRows = {minted} /\ LeadsOn(cookies.refresh)
  /\ \A r \in WebRequest : RequestLives(web[r])

\* A request that may still become the user's saw the account active if it is.
Watches(w) ==
  /\ w.user => w.sawActive
  /\ w.at \in {"guard", "rotate", "status"} /\ accountActive => w.sawActive

BrowserInv ==
  /\ BSTypeOK
  /\ ~excused => SessionLives
  /\ \A r \in WebRequest : Watches(web[r])

\* The browser has just signed in, and nothing is on its way.
LEMMA BrowserInit == BSInit => BrowserInv
<1> SUFFICES ASSUME BSInit PROVE BrowserInv
  OBVIOUS
<1> USE BrowserAssumption DEF BSInit
<1>1. BSTypeOK
  <2>1. tokenRows \subseteq RefreshTokens /\ minted \in RefreshTokens
        /\ successor \in [RefreshTokens -> 0..MaxTokens]
    BY DEF RefreshTokens
  <2>2. cookies \in [access : AccessAge, refresh : 0..MaxTokens]
    BY DEF AccessAge
  <2>3. web \in [WebRequest -> Web]
    BY NoWebType
  <2> QED  BY <2>1, <2>2, <2>3 DEF BSTypeOK, Web
<1>2. SessionLives
  BY DEF SessionLives, LeadsOn, RequestLives, NoWeb, Asking
<1>3. \A r \in WebRequest : Watches(web[r])
  BY DEF Watches, NoWeb
<1> QED  BY <1>1, <1>2, <1>3 DEF BrowserInv

\* A step of one request that mints nothing keeps the invariant if what becomes of
\* the request agrees with it, or if the session is over.
LEMMA RequestStep ==
  ASSUME BrowserInv, NEW r \in WebRequest, NEW w \in Web, web' = [web EXCEPT ![r] = w],
         UNCHANGED <<successor, minted, accountActive, cookies>>,
         tokenRows' \subseteq RefreshTokens, excused' \in BOOLEAN,
         excused \/ tokenRows' # tokenRows => excused',
         ~excused' => RequestLives(w),
         Watches(w)
  PROVE  BrowserInv'
<1>1. /\ web' \in [WebRequest -> Web] /\ web'[r] = w
      /\ \A q \in WebRequest : q # r => web'[q] = web[q]
  BY OneMoves DEF BrowserInv
<1>2. BSTypeOK'
  BY <1>1 DEF BrowserInv, BSTypeOK, Web
<1>3. ASSUME ~excused' PROVE SessionLives'
  <2>1. SessionLives /\ RequestLives(w) /\ UNCHANGED tokenRows
    BY <1>3 DEF BrowserInv, BSTypeOK
  <2>2. LeadsOn(cookies.refresh)'
    BY <2>1 DEF SessionLives, LeadsOn
  <2>3. ASSUME NEW q \in WebRequest PROVE RequestLives(web[q])'
    <3>1. RequestLives(web'[q])
      BY <1>1, <2>1 DEF SessionLives
    <3> QED  BY <3>1 DEF RequestLives, LeadsOn
  <2> QED  BY <2>1, <2>2, <2>3 DEF SessionLives
<1>4. ASSUME NEW q \in WebRequest PROVE Watches(web[q])'
  <2>1. Watches(web'[q])
    BY <1>1 DEF BrowserInv
  <2> QED  BY <2>1 DEF Watches
<1> QED  BY <1>2, <1>3, <1>4 DEF BrowserInv

\* What is needed of a state for a request to be answered or admitted.
LEMMA RequestFacts ==
  ASSUME BrowserInv, NEW r \in WebRequest
  PROVE  /\ web[r] \in Web /\ web[r].token \in 0..MaxTokens /\ web[r].refresh \in 0..MaxTokens
         /\ web[r].user \in BOOLEAN /\ web[r].sawActive \in BOOLEAN
         /\ tokenRows \subseteq RefreshTokens /\ excused \in BOOLEAN
         /\ Watches(web[r])
         /\ ~excused => RequestLives(web[r])
         /\ ~excused /\ web[r].at \in Asking => LeadsOn(web[r].refresh)
BY DEF BrowserInv, BSTypeOK, Web, SessionLives, RequestLives

\* A response that clears no cookies, and sets only good ones, may be sent.
LEMMA AnswerStep ==
  ASSUME BrowserInv, NEW r \in WebRequest, NEW reply \in {"keep", "clear", "set"}, Answer(r, reply),
         UNCHANGED <<successor, minted, accountActive, cookies>>,
         tokenRows' \subseteq RefreshTokens, excused' \in BOOLEAN,
         excused \/ tokenRows' # tokenRows => excused',
         reply = "clear" => excused', reply = "set" => excused' \/ LeadsOn(web[r].token)
  PROVE  BrowserInv'
<1>1. PICK w : w = Response(reply, web[r].token, FALSE, FALSE)
  OBVIOUS
<1>2. /\ w \in Web /\ w.at = "respond" /\ w.reply = reply /\ ~w.user
      /\ reply = "set" => w.token = web[r].token
  <2>1. web[r].token \in 0..MaxTokens /\ FALSE \in BOOLEAN
    BY RequestFacts
  <2> QED  BY <1>1, <2>1, BrowserAssumption DEF Response, Web, Route, AccessAge
<1>3. web' = [web EXCEPT ![r] = w]
  BY <1>1 DEF Answer
<1>4. ~excused' => RequestLives(w)
  BY <1>2 DEF RequestLives, Asking
<1>5. Watches(w)
  BY <1>2 DEF Watches
<1> QED  BY <1>2, <1>3, <1>4, <1>5, RequestStep

\* A request that is let past the guard as the user has seen the account active.
LEMMA AdmitStep ==
  ASSUME BrowserInv, NEW r \in WebRequest, NEW reply \in {"keep", "clear", "set"},
         NEW named \in BOOLEAN, Admit(r, reply, named), web[r].at \in Asking,
         named => web[r].sawActive,
         UNCHANGED <<successor, minted, accountActive, cookies>>,
         tokenRows' \subseteq RefreshTokens, excused' \in BOOLEAN,
         excused \/ tokenRows' # tokenRows => excused',
         reply = "clear" => excused', reply = "set" => excused' \/ LeadsOn(web[r].token)
  PROVE  BrowserInv'
<1>1. /\ web[r] \in Web /\ web[r].token \in 0..MaxTokens /\ web[r].sawActive \in BOOLEAN
      /\ (~excused => LeadsOn(web[r].refresh))
  BY RequestFacts
<1>2. CASE web[r].route \in {"guarded", "public"}
  <2>1. PICK w : w = Response(reply, web[r].token, named, web[r].sawActive)
    OBVIOUS
  <2>2. /\ w \in Web /\ w.at = "respond" /\ w.reply = reply /\ (w.user <=> named)
        /\ (w.sawActive <=> web[r].sawActive) /\ (reply = "set" => w.token = web[r].token)
    BY <1>1, <2>1, Responses
  <2>3. web' = [web EXCEPT ![r] = w]
    BY <1>2, <2>1 DEF Admit
  <2>4. ~excused' => RequestLives(w)
    BY <2>2 DEF RequestLives, Asking
  <2>5. Watches(w)
    BY <2>2 DEF Watches
  <2> QED  BY <1>1, <2>2, <2>3, <2>4, <2>5, RequestStep
<1>3. CASE web[r].route \notin {"guarded", "public"}
  <2>1. PICK w : w = [web[r] EXCEPT !.at = "handler", !.access = "none", !.user = named, !.locks = FALSE]
    OBVIOUS
  <2>2. /\ w \in Web /\ w.at = "handler" /\ w.refresh = web[r].refresh
        /\ (w.user <=> named) /\ (w.sawActive <=> web[r].sawActive)
    BY <1>1, <2>1 DEF Web, AccessAge
  <2>3. web' = [web EXCEPT ![r] = w]
    BY <1>3, <2>1 DEF Admit
  <2>4. ~excused' => RequestLives(w)
    BY <1>1, <2>2 DEF RequestLives, Asking
  <2>5. Watches(w)
    BY <2>2 DEF Watches
  <2> QED  BY <1>1, <2>2, <2>3, <2>4, <2>5, RequestStep
<1> QED  BY <1>2, <1>3

\* A request that goes on to another await, within the guard or a handler.
LEMMA GoStep ==
  ASSUME BrowserInv, NEW r \in WebRequest, NEW label \in {"rotate", "exchange"},
         WebGoTo(r, label), web[r].at \in {"guard", "handler"},
         label = "rotate" => web[r].at = "guard",
         UNCHANGED <<tokenRows, successor, minted, accountActive, cookies, excused>>
  PROVE  BrowserInv'
<1>1. /\ web[r] \in Web /\ (~excused => LeadsOn(web[r].refresh)) /\ Watches(web[r])
      /\ tokenRows' \subseteq RefreshTokens /\ excused' \in BOOLEAN
  BY RequestFacts DEF Asking
<1>2. PICK w : w = [web[r] EXCEPT !.at = label]
  OBVIOUS
<1>3. /\ w \in Web /\ w.at = label /\ w.refresh = web[r].refresh
      /\ (w.user <=> web[r].user) /\ (w.sawActive <=> web[r].sawActive)
  BY <1>1, <1>2, Goes DEF Asking
<1>4. web' = [web EXCEPT ![r] = w]
  BY <1>2 DEF WebGoTo
<1>5. ~excused' => RequestLives(w)
  BY <1>1, <1>3 DEF RequestLives, Asking
<1>6. Watches(w)
  BY <1>1, <1>3 DEF Watches
<1> QED  BY <1>1, <1>3, <1>4, <1>5, <1>6, RequestStep

\* The guard before it refreshes: the user is known by a token that verifies.
LEMMA GuardStep == ASSUME BrowserInv, NEW r \in WebRequest, canActivate(r) PROVE BrowserInv'
<1>1. /\ web[r].at = "guard" /\ web[r].at \in Asking /\ web[r] \in Web /\ Watches(web[r])
      /\ (~excused => LeadsOn(web[r].refresh))
      /\ tokenRows' \subseteq RefreshTokens /\ excused \in BOOLEAN
      /\ UNCHANGED <<tokenRows, successor, minted, accountActive, cookies>>
  BY RequestFacts DEF canActivate, WebAt, Asking
<1>2. CASE Verifies(r) /\ accountActive
  <2>1. web[r].sawActive /\ UNCHANGED excused
    BY <1>1, <1>2 DEF Watches, canActivate
  <2>2. CASE Admit(r, "keep", TRUE)
    BY <1>1, <2>1, <2>2, AdmitStep
  <2>3. CASE web' = [web EXCEPT ![r].at = "rotate", ![r].user = TRUE]
    <3>1. PICK w : w = [web[r] EXCEPT !.at = "rotate", !.user = TRUE]
      OBVIOUS
    <3>2. /\ w \in Web /\ w.at = "rotate" /\ w.refresh = web[r].refresh
          /\ (w.sawActive <=> web[r].sawActive)
      BY <1>1, <3>1, RefreshesSilently
    <3>3. web' = [web EXCEPT ![r] = w]
      BY <2>3, <3>1 DEF BrowserInv, BSTypeOK
    <3>4. (~excused' => RequestLives(w)) /\ Watches(w)
      BY <1>1, <2>1, <3>2 DEF RequestLives, Watches, Asking
    <3> QED  BY <1>1, <2>1, <3>2, <3>3, <3>4, RequestStep
  <2>4. CASE WebGoTo(r, "rotate")
    BY <1>1, <2>1, <2>4, GoStep
  <2> QED  BY <1>2, <2>2, <2>3, <2>4 DEF canActivate
<1>3. CASE Verifies(r) /\ ~accountActive
  <2>1. CASE inactiveAccountException(r)
    BY <1>1, <2>1, AnswerStep DEF inactiveAccountException
  <2>2. CASE Admit(r, "keep", FALSE) /\ UNCHANGED excused
    BY <1>1, <2>2, AdmitStep
  <2>3. CASE WebGoTo(r, "rotate") /\ UNCHANGED excused
    BY <1>1, <2>3, GoStep
  <2> QED  BY <1>3, <2>1, <2>2, <2>3 DEF canActivate
<1>4. CASE ~Verifies(r)
  <2>1. CASE WebGoTo(r, "rotate") /\ UNCHANGED excused
    BY <1>1, <2>1, GoStep
  <2>2. CASE Admit(r, "keep", FALSE) /\ UNCHANGED excused
    BY <1>1, <2>2, AdmitStep
  <2> QED  BY <1>4, <2>1, <2>2 DEF canActivate
<1> QED  BY <1>2, <1>3, <1>4

\* A refresh that got no tokens clears no cookies unless the session is over.
LEMMA FailStep ==
  ASSUME BrowserInv, NEW r \in WebRequest, NEW reply \in {"keep", "clear"},
         web[r].at \in {"rotate", "exchange"}, RotationThrows(r, reply),
         UNCHANGED <<successor, minted, accountActive, cookies>>,
         tokenRows' \subseteq RefreshTokens, excused' \in BOOLEAN,
         excused \/ tokenRows' # tokenRows => excused',
         web[r].at = "exchange" \/ reply = "clear" => excused'
  PROVE  BrowserInv'
<1>1. /\ web[r].at \in Asking /\ Watches(web[r]) /\ web[r].user \in BOOLEAN
  BY RequestFacts DEF Asking
<1>2. CASE web[r].at = "exchange"
  <2>1. Answer(r, "clear")
    BY <1>2 DEF RotationThrows, WebAt
  <2> QED  BY <1>2, <2>1, AnswerStep
<1>3. CASE web[r].at # "exchange" /\ Silent(r)
  <2>1. Admit(r, "keep", web[r].user)
    BY <1>3 DEF RotationThrows, RefreshFailed, WebAt
  <2>2. web[r].user => web[r].sawActive
    BY <1>1 DEF Watches
  <2> QED  BY <1>1, <2>1, <2>2, AdmitStep
<1>4. CASE web[r].at # "exchange" /\ ~Silent(r)
  <2>1. Answer(r, reply)
    BY <1>4 DEF RotationThrows, RefreshFailed, WebAt
  <2> QED  BY <2>1, AnswerStep
<1> QED  BY <1>2, <1>3, <1>4

\* A request that rotates has a token, and the lock is all it takes at first.
LEMMA LockStep == ASSUME BrowserInv, NEW r \in WebRequest, LockToken(r) PROVE BrowserInv'
<1>1. /\ web[r] \in Web /\ Watches(web[r]) /\ (~excused => RequestLives(web[r]))
      /\ tokenRows \subseteq RefreshTokens /\ excused \in BOOLEAN
      /\ web[r].at \in {"rotate", "exchange"}
      /\ UNCHANGED <<tokenRows, successor, minted, accountActive, cookies, excused>>
  BY RequestFacts DEF LockToken, Rotates, WebAt
<1>2. PICK w : w = [web[r] EXCEPT !.locks = TRUE]
  OBVIOUS
<1>3. /\ w \in Web /\ w.at = web[r].at /\ w.refresh = web[r].refresh
      /\ (w.user <=> web[r].user) /\ (w.sawActive <=> web[r].sawActive)
  BY <1>1, <1>2, Locks
<1>4. web' = [web EXCEPT ![r] = w]
  BY <1>2 DEF LockToken
<1>5. (~excused' => RequestLives(w)) /\ Watches(w)
  BY <1>1, <1>3 DEF RequestLives, Watches, Asking
<1> QED  BY <1>1, <1>3, <1>4, <1>5, RequestStep

\* A token that somebody holds is the one in the row, or its grace key is set.
LEMMA GraceHolds ==
  ASSUME BrowserInv, ~excused, NEW t, LeadsOn(t), t \in 0..MaxTokens, t \notin tokenRows
  PROVE  successor[t] = t + 1 /\ LeadsOn(t + 1)
<1>1. t \in Nat /\ minted \in Nat /\ t # minted
  BY DEF BrowserInv, SessionLives, BSTypeOK, RefreshTokens
<1> QED  BY <1>1 DEF LeadsOn

\* The request that has its new token goes on, in the guard or to its response.
LEMMA TokenStep ==
  ASSUME BrowserInv, NEW r \in WebRequest, NEW t \in 0..MaxTokens, Rotates(r), GotTokens(r, t),
         UNCHANGED <<tokenRows, successor, minted, accountActive, cookies, excused>>,
         ~excused => LeadsOn(t)
  PROVE  BrowserInv'
<1>1. /\ web[r] \in Web /\ Watches(web[r]) /\ (~excused => LeadsOn(web[r].refresh))
      /\ tokenRows \subseteq RefreshTokens /\ excused \in BOOLEAN
      /\ web[r].at \in {"rotate", "exchange"}
  BY RequestFacts DEF Rotates, WebAt, Asking
<1>2. CASE web[r].at = "rotate"
  <2>1. PICK w : w = [web[r] EXCEPT !.at = "status", !.token = t, !.locks = FALSE]
    OBVIOUS
  <2>2. /\ w \in Web /\ w.at = "status" /\ w.refresh = web[r].refresh /\ w.token = t
        /\ (w.user <=> web[r].user) /\ (w.sawActive <=> web[r].sawActive)
    BY <1>1, <2>1 DEF Web
  <2>3. web' = [web EXCEPT ![r] = w]
    BY <1>2, <2>1 DEF GotTokens
  <2>4. (~excused' => RequestLives(w)) /\ Watches(w)
    BY <1>1, <1>2, <2>2 DEF RequestLives, Watches, Asking
  <2> QED  BY <1>1, <2>2, <2>3, <2>4, RequestStep
<1>3. CASE web[r].at = "exchange"
  <2>1. PICK w : w = Response("set", t, FALSE, FALSE)
    OBVIOUS
  <2>2. w \in Web /\ w.at = "respond" /\ w.reply = "set" /\ w.token = t /\ ~w.user
    BY <2>1, BrowserAssumption DEF Response, Web, Route, AccessAge
  <2>3. web' = [web EXCEPT ![r] = w]
    BY <1>3, <2>1 DEF GotTokens
  <2>4. (~excused' => RequestLives(w)) /\ Watches(w)
    BY <2>2 DEF RequestLives, Watches, Asking
  <2> QED  BY <1>1, <2>2, <2>3, <2>4, RequestStep
<1> QED  BY <1>1, <1>2, <1>3

\* A token that is minted is the successor of the one before, to which all lead.
LEMMA MintStep ==
  ASSUME BrowserInv, NEW r \in WebRequest, Rotates(r),
         web[r].refresh \in tokenRows, minted < MaxTokens, minted' = minted + 1,
         tokenRows' = (tokenRows \ {web[r].refresh}) \cup {minted'},
         successor' = [successor EXCEPT ![web[r].refresh] = minted'],
         GotTokens(r, minted'), UNCHANGED <<accountActive, cookies, excused>>
  PROVE  BrowserInv'
<1>1. /\ web[r] \in Web /\ Watches(web[r]) /\ tokenRows \subseteq RefreshTokens
      /\ web[r].at \in {"rotate", "exchange"} /\ (~excused => LeadsOn(web[r].refresh))
  BY RequestFacts DEF Rotates, WebAt, Asking
<1>2. minted' \in RefreshTokens /\ minted' \in 0..MaxTokens /\ minted \in Nat
  BY BrowserAssumption DEF BrowserInv, BSTypeOK, RefreshTokens
<1>3. PICK w \in Web :
        /\ web' = [web EXCEPT ![r] = w] /\ Watches(w)
        /\ w.at \in {"status", "respond"} /\ w.token = minted'
        /\ w.at = "respond" => w.reply # "clear"
        /\ w.at \in Asking => w.refresh = web[r].refresh
  <2>1. CASE web[r].at = "rotate"
    <3>1. PICK w : w = [web[r] EXCEPT !.at = "status", !.token = minted', !.locks = FALSE]
      OBVIOUS
    <3>2. /\ w \in Web /\ w.at = "status" /\ w.refresh = web[r].refresh /\ w.token = minted'
          /\ (w.user <=> web[r].user) /\ (w.sawActive <=> web[r].sawActive)
      BY <1>1, <1>2, <3>1 DEF Web
    <3>3. web' = [web EXCEPT ![r] = w]
      BY <2>1, <3>1 DEF GotTokens
    <3>4. Watches(w)
      BY <1>1, <2>1, <3>2 DEF Watches
    <3> QED  BY <3>2, <3>3, <3>4
  <2>2. CASE web[r].at = "exchange"
    <3>1. PICK w : w = Response("set", minted', FALSE, FALSE)
      OBVIOUS
    <3>2. w \in Web /\ w.at = "respond" /\ w.reply = "set" /\ w.token = minted' /\ ~w.user
      BY <1>2, <3>1, BrowserAssumption DEF Response, Web, Route, AccessAge
    <3>3. web' = [web EXCEPT ![r] = w]
      BY <2>2, <3>1 DEF GotTokens
    <3> QED  BY <3>2, <3>3 DEF Watches, Asking
  <2> QED  BY <1>1, <2>1, <2>2
<1>4. /\ web' \in [WebRequest -> Web] /\ web'[r] = w
      /\ \A q \in WebRequest : q # r => web'[q] = web[q]
  BY <1>3, OneMoves DEF BrowserInv
<1>5. BSTypeOK'
  <2>1. successor' \in [RefreshTokens -> 0..MaxTokens] /\ tokenRows' \subseteq RefreshTokens
    BY <1>1, <1>2 DEF BrowserInv, BSTypeOK
  <2> QED  BY <1>2, <1>4, <2>1 DEF BrowserInv, BSTypeOK, Web
<1>6. ASSUME ~excused PROVE SessionLives'
  <2>1. SessionLives /\ web[r].refresh = minted /\ tokenRows' = {minted'}
    BY <1>1, <1>6 DEF BrowserInv, SessionLives
  <2>2. successor'[minted] = minted + 1
        /\ \A k \in RefreshTokens : k # minted => successor'[k] = successor[k]
    BY <1>1, <2>1 DEF BrowserInv, BSTypeOK
  <2>3. ASSUME NEW t \in 0..MaxTokens, LeadsOn(t) PROVE LeadsOn(t)'
    <3>1. t # 0 /\ t <= minted /\ t \in Nat /\ minted' \in Nat /\ MaxTokens \in Nat
      BY <1>2, <2>3, BrowserAssumption DEF LeadsOn
    <3>2. ASSUME NEW k \in t .. minted' - 1 PROVE successor'[k] = k + 1
      <4>1. CASE k = minted
        BY <2>2, <4>1
      <4>2. CASE k # minted
        <5>1. k \in t .. minted - 1
          BY <1>2, <3>1, <4>2
        <5>2. successor[k] = k + 1
          BY <2>3, <5>1 DEF LeadsOn
        <5>3. k \in RefreshTokens
          BY <1>2, <3>1, <5>1 DEF RefreshTokens
        <5> QED  BY <2>2, <4>2, <5>2, <5>3
      <4> QED  BY <4>1, <4>2
    <3>3. t <= minted'
      BY <1>2, <3>1
    <3> QED  BY <3>1, <3>2, <3>3 DEF LeadsOn
  <2>4. ASSUME NEW t, t = minted' PROVE LeadsOn(t)'
    <3>1. t # 0 /\ t <= minted' /\ t .. minted' - 1 = {}
      BY <1>2, <2>4
    <3> QED  BY <3>1 DEF LeadsOn
  <2>5. LeadsOn(cookies.refresh)'
    <3>1. PICK t \in 0..MaxTokens : t = cookies.refresh
      BY DEF BrowserInv, BSTypeOK
    <3>2. LeadsOn(t)'
      BY <2>1, <2>3, <3>1 DEF SessionLives
    <3> QED  BY <3>1, <3>2 DEF LeadsOn
  <2>6. ASSUME NEW q \in WebRequest PROVE RequestLives(web[q])'
    <3>1. web[q] \in Web /\ web[q].refresh \in 0..MaxTokens /\ web[q].token \in 0..MaxTokens
      BY RequestFacts
    <3>2. CASE q = r
      <4>1. PICK t \in 0..MaxTokens : t = web[r].refresh
        BY <3>1, <3>2
      <4>2. LeadsOn(t)' /\ LeadsOn(w.token)'
        BY <1>1, <1>3, <1>6, <2>3, <2>4, <4>1
      <4>3. RequestLives(w)'
        BY <1>3, <4>1, <4>2 DEF RequestLives, Asking
      <4> QED  BY <1>4, <3>2, <4>3 DEF RequestLives, LeadsOn
    <3>3. CASE q # r
      <4>1. PICK v : v = web[q]
        OBVIOUS
      <4>2. RequestLives(v) /\ v.refresh \in 0..MaxTokens /\ v.token \in 0..MaxTokens
        BY <2>1, <3>1, <4>1 DEF SessionLives
      <4>3. RequestLives(v)'
        BY <2>3, <4>2 DEF RequestLives
      <4> QED  BY <1>4, <3>3, <4>1, <4>3 DEF RequestLives, LeadsOn
    <3> QED  BY <3>2, <3>3
  <2> QED  BY <2>1, <2>5, <2>6 DEF SessionLives
<1>7. ASSUME NEW q \in WebRequest PROVE Watches(web[q])'
  BY <1>3, <1>4 DEF BrowserInv, Watches
<1> QED  BY <1>5, <1>6, <1>7 DEF BrowserInv

\* What rotateTokens does once it has the lock.
LEMMA RotateStep == ASSUME BrowserInv, NEW r \in WebRequest, rotateTokens(r) PROVE BrowserInv'
<1>1. /\ Rotates(r) /\ web[r].at \in {"rotate", "exchange"} /\ web[r].at \in Asking
      /\ web[r].refresh \in 0..MaxTokens /\ (~excused => LeadsOn(web[r].refresh))
      /\ tokenRows \subseteq RefreshTokens /\ excused \in BOOLEAN
      /\ UNCHANGED <<accountActive, cookies, excused>> /\ web[r].refresh # 0
  BY RequestFacts DEF rotateTokens, Rotates, WebAt, Asking
<1>2. CASE web[r].refresh \in tokenRows
  BY <1>1, <1>2, MintStep DEF rotateTokens
<1>3. CASE web[r].refresh \notin tokenRows /\ successor[web[r].refresh] # 0
  <2>1. GotTokens(r, successor[web[r].refresh]) /\ UNCHANGED <<tokenRows, successor, minted>>
    BY <1>3 DEF rotateTokens
  <2>2. successor[web[r].refresh] \in 0..MaxTokens
    BY <1>1, BrowserAssumption DEF BrowserInv, BSTypeOK, RefreshTokens
  <2>3. ~excused => LeadsOn(successor[web[r].refresh])
    BY <1>1, <1>3, GraceHolds
  <2> QED  BY <1>1, <2>1, <2>2, <2>3, TokenStep
<1>4. CASE web[r].refresh \notin tokenRows /\ successor[web[r].refresh] = 0
  <2>1. RotationThrows(r, "clear") /\ UNCHANGED <<tokenRows, successor, minted>>
    BY <1>4 DEF rotateTokens
  <2>2. excused
    BY <1>1, <1>4, GraceHolds
  <2> QED  BY <1>1, <2>1, <2>2, FailStep
<1> QED  BY <1>2, <1>3, <1>4

\* A request starts out with the browser's cookies.
LEMMA SendStep ==
  ASSUME BrowserInv, NEW r \in WebRequest, NEW route \in Route, SendRequest(r, route)
  PROVE  BrowserInv'
<1>1. /\ cookies.access \in AccessAge /\ cookies.refresh \in 0..MaxTokens /\ accountActive \in BOOLEAN
      /\ tokenRows \subseteq RefreshTokens /\ excused \in BOOLEAN
      /\ UNCHANGED <<tokenRows, successor, minted, accountActive, cookies, excused>>
  BY DEF BrowserInv, BSTypeOK, SendRequest
<1>2. PICK w : w = [NoWeb EXCEPT !.at = "guard", !.route = route, !.access = cookies.access,
                                 !.refresh = cookies.refresh, !.sawActive = accountActive]
  OBVIOUS
<1>3. /\ w \in Web /\ w.at = "guard" /\ w.refresh = cookies.refresh /\ ~w.user
      /\ (w.sawActive <=> accountActive)
  <2>1. w = [at |-> "guard", route |-> route, access |-> cookies.access, refresh |-> cookies.refresh,
             token |-> 0, locks |-> FALSE, reply |-> "keep", user |-> FALSE, sawActive |-> accountActive]
    BY <1>2 DEF NoWeb
  <2>2. 0 \in 0..MaxTokens /\ FALSE \in BOOLEAN
    BY BrowserAssumption
  <2> QED  BY <1>1, <2>1, <2>2 DEF Web
<1>4. web' = [web EXCEPT ![r] = w]
  BY <1>2 DEF SendRequest
<1>5. ~excused' => RequestLives(w)
  BY <1>1, <1>3 DEF RequestLives, Asking, BrowserInv, SessionLives
<1>6. Watches(w)
  BY <1>3 DEF Watches
<1> QED  BY <1>1, <1>3, <1>4, <1>5, <1>6, RequestStep

\* A request that ends, by its response or without one, holds nothing.
LEMMA EndStep ==
  ASSUME BrowserInv, NEW r \in WebRequest, web' = [web EXCEPT ![r] = NoWeb],
         UNCHANGED <<tokenRows, successor, minted, accountActive, excused>>,
         cookies' \in [access : AccessAge, refresh : 0..MaxTokens],
         ~excused => LeadsOn(cookies'.refresh)
  PROVE  BrowserInv'
<1>1. /\ web' \in [WebRequest -> Web] /\ web'[r] = NoWeb
      /\ \A q \in WebRequest : q # r => web'[q] = web[q]
  BY NoWebType, OneMoves DEF BrowserInv
<1>2. BSTypeOK'
  BY <1>1 DEF BrowserInv, BSTypeOK, Web
<1>3. ASSUME ~excused PROVE SessionLives'
  <2>1. SessionLives
    BY <1>3 DEF BrowserInv
  <2>2. LeadsOn(cookies.refresh)'
    BY <1>3 DEF LeadsOn
  <2>3. ASSUME NEW q \in WebRequest PROVE RequestLives(web[q])'
    <3>1. RequestLives(NoWeb)
      BY DEF RequestLives, NoWeb, Asking
    <3>2. RequestLives(web'[q])
      BY <1>1, <2>1, <3>1 DEF SessionLives
    <3> QED  BY <3>2 DEF RequestLives, LeadsOn
  <2> QED  BY <2>1, <2>2, <2>3 DEF SessionLives
<1>4. ASSUME NEW q \in WebRequest PROVE Watches(web[q])'
  <2>1. Watches(NoWeb)
    BY DEF Watches, NoWeb
  <2>2. Watches(web'[q])
    BY <1>1, <2>1 DEF BrowserInv
  <2> QED  BY <2>2 DEF Watches
<1> QED  BY <1>2, <1>3, <1>4 DEF BrowserInv

\* The cookies that a response leaves in the browser.
LEMMA RespondStep == ASSUME BrowserInv, NEW r \in WebRequest, Respond(r) PROVE BrowserInv'
<1>1. /\ web[r] \in Web /\ web[r].at = "respond" /\ (~excused => RequestLives(web[r]))
      /\ web[r].token \in 0..MaxTokens /\ web[r].reply \in {"keep", "clear", "set"}
  BY RequestFacts DEF Respond, WebAt, Web
<1>2. /\ cookies \in [access : AccessAge, refresh : 0..MaxTokens]
      /\ (~excused => LeadsOn(cookies.refresh))
  BY DEF BrowserInv, BSTypeOK, SessionLives
<1>3. CASE web[r].reply = "keep"
  BY <1>2, <1>3, EndStep DEF Respond
<1>4. CASE web[r].reply = "clear"
  <2>1. cookies' = [access |-> "none", refresh |-> 0] /\ excused
    BY <1>1, <1>4 DEF Respond, RequestLives
  <2>2. cookies' \in [access : AccessAge, refresh : 0..MaxTokens]
    BY <2>1, BrowserAssumption DEF AccessAge
  <2> QED  BY <2>1, <2>2, EndStep DEF Respond
<1>5. CASE web[r].reply = "set"
  <2>1. cookies' = [access |-> "valid", refresh |-> web[r].token]
    BY <1>5 DEF Respond
  <2>2. ~excused => LeadsOn(web[r].token)
    BY <1>1, <1>5 DEF RequestLives
  <2>3. cookies' \in [access : AccessAge, refresh : 0..MaxTokens] /\ cookies'.refresh = web[r].token
    BY <1>1, <2>1 DEF AccessAge
  <2> QED  BY <2>2, <2>3, EndStep DEF Respond
<1> QED  BY <1>1, <1>3, <1>4, <1>5

\* The access token grows old, which is nothing to the refresh token.
LEMMA AgeStep == ASSUME BrowserInv, AccessAges PROVE BrowserInv'
<1>1. cookies.access \in AccessAge /\ cookies.refresh \in 0..MaxTokens
  BY DEF BrowserInv, BSTypeOK
<1>2. /\ cookies' \in [access : AccessAge, refresh : 0..MaxTokens]
      /\ cookies'.refresh = cookies.refresh
      /\ UNCHANGED <<tokenRows, successor, minted, accountActive, web, excused>>
  BY <1>1 DEF AccessAges, AccessAge, BrowserInv, BSTypeOK
<1>3. BSTypeOK' /\ (~excused' => SessionLives')
  BY <1>2 DEF BrowserInv, BSTypeOK, SessionLives, LeadsOn, RequestLives
<1>4. \A q \in WebRequest : Watches(web[q])'
  BY <1>2 DEF BrowserInv, Watches
<1> QED  BY <1>3, <1>4 DEF BrowserInv

\* A grace key that nobody needs is on no way from a token that somebody holds.
LEMMA LapseStep ==
  ASSUME BrowserInv, NEW t \in RefreshTokens, GraceLapses(t)
  PROVE  BrowserInv'
<1>1. /\ successor' = [successor EXCEPT ![t] = 0] /\ t \in Nat
      /\ UNCHANGED <<tokenRows, minted, accountActive, cookies, web>>
  BY DEF GraceLapses, RefreshTokens
<1>2. BSTypeOK'
  <2>1. 0 \in 0..MaxTokens
    BY BrowserAssumption
  <2>2. successor' \in [RefreshTokens -> 0..MaxTokens]
    BY <1>1, <2>1 DEF BrowserInv, BSTypeOK
  <2>3. excused' \in BOOLEAN
    BY Zenon DEF GraceLapses
  <2> QED  BY <1>1, <2>2, <2>3 DEF BrowserInv, BSTypeOK
<1>3. ASSUME ~excused' PROVE SessionLives'
  <2>1. SessionLives /\ \A h \in Held : ~(0 < h /\ h <= t)
    BY <1>3 DEF GraceLapses, BrowserInv
  <2>2. ASSUME NEW h \in Held, h \in 0..MaxTokens, LeadsOn(h) PROVE LeadsOn(h)'
    <3>1. h \in Nat /\ h > t /\ minted \in Nat /\ minted <= MaxTokens /\ MaxTokens \in Nat
      BY <1>1, <2>1, <2>2, BrowserAssumption DEF LeadsOn, BrowserInv, BSTypeOK, RefreshTokens
    <3>2. ASSUME NEW k \in h .. minted - 1 PROVE successor'[k] = k + 1
      <4>1. k \in RefreshTokens /\ k # t /\ successor[k] = k + 1
        BY <1>1, <2>2, <3>1 DEF LeadsOn, RefreshTokens
      <4> QED  BY <1>1, <4>1 DEF BrowserInv, BSTypeOK
    <3> QED  BY <1>1, <2>2, <3>2 DEF LeadsOn
  <2>3. LeadsOn(cookies.refresh)'
    <3>1. PICK h : h = cookies.refresh
      OBVIOUS
    <3>2. h \in Held /\ h \in 0..MaxTokens /\ LeadsOn(h)
      BY <2>1, <3>1 DEF Held, SessionLives, BrowserInv, BSTypeOK
    <3>3. LeadsOn(h)'
      BY <2>2, <3>2
    <3> QED  BY <1>1, <3>1, <3>3 DEF LeadsOn
  <2>4. ASSUME NEW q \in WebRequest PROVE RequestLives(web[q])'
    <3>1. PICK v : v = web[q]
      OBVIOUS
    <3>2. v.refresh \in 0..MaxTokens /\ v.token \in 0..MaxTokens /\ RequestLives(v)
      BY <2>1, <3>1, RequestFacts DEF SessionLives
    <3>3. v.at # "none" => v.refresh \in Held /\ v.token \in Held
      BY <3>1 DEF Held
    <3>4. RequestLives(v)'
      BY <2>2, <3>2, <3>3 DEF RequestLives, Asking
    <3> QED  BY <1>1, <3>1, <3>4 DEF RequestLives, LeadsOn
  <2> QED  BY <1>1, <2>1, <2>3, <2>4 DEF SessionLives
<1>4. \A q \in WebRequest : Watches(web[q])'
  BY <1>1 DEF BrowserInv, Watches
<1> QED  BY <1>2, <1>3, <1>4 DEF BrowserInv

\* The session is over when its row is revoked.
LEMMA RevokeStep == ASSUME BrowserInv, RowRevoked PROVE BrowserInv'
<1>1. tokenRows' = {} /\ excused' = TRUE /\ UNCHANGED <<successor, minted, accountActive, cookies, web>>
  BY DEF RowRevoked
<1>2. BSTypeOK'
  BY <1>1 DEF BrowserInv, BSTypeOK
<1>3. \A q \in WebRequest : Watches(web[q])'
  BY <1>1 DEF BrowserInv, Watches
<1> QED  BY <1>1, <1>2, <1>3 DEF BrowserInv

\* Every request in flight sees the account become active.
LEMMA AccountStep == ASSUME BrowserInv, AccountChanges PROVE BrowserInv'
<1>1. UNCHANGED <<tokenRows, successor, minted, cookies, excused>>
      /\ accountActive' \in BOOLEAN
  BY Zenon DEF AccountChanges
<1>2. ASSUME NEW q \in WebRequest
      PROVE  /\ web'[q] \in Web
             /\ web'[q].at = web[q].at
             /\ web[q].at # "none" =>
                  /\ web'[q].refresh = web[q].refresh /\ web'[q].token = web[q].token
                  /\ web'[q].reply = web[q].reply
             /\ Watches(web[q])'
  <2>1. CASE web[q].at = "none"
    <3>1. web'[q] = NoWeb
      BY <2>1 DEF AccountChanges
    <3> QED  BY <2>1, <3>1, NoWebType DEF NoWeb, Watches
  <2>2. CASE web[q].at # "none"
    <3>1. PICK v \in Web : v = web[q] /\ Watches(v)
      BY RequestFacts
    <3>3. PICK w : w = [v EXCEPT !.sawActive = v.sawActive \/ accountActive']
      OBVIOUS
    <3>4. web'[q] = w
      BY <2>2, <3>1, <3>3 DEF AccountChanges
    <3>5. w.sawActive <=> v.sawActive \/ accountActive'
      BY <3>3 DEF Web
    <3>6. /\ w \in Web /\ w.at = v.at /\ w.refresh = v.refresh /\ w.token = v.token
          /\ w.reply = v.reply /\ (w.user <=> v.user)
      <4>1. (v.sawActive \/ accountActive') \in BOOLEAN
        BY Zenon
      <4> QED  BY <3>3, <4>1 DEF Web
    <3>7. Watches(w)'
      BY <3>1, <3>5, <3>6 DEF Watches
    <3> QED  BY <3>1, <3>4, <3>6, <3>7 DEF Watches
  <2> QED  BY <2>1, <2>2
<1>3. BSTypeOK'
  <2>1. web' \in [WebRequest -> Web]
    BY <1>2 DEF AccountChanges
  <2> QED  BY <1>1, <2>1 DEF BrowserInv, BSTypeOK, Web
<1>4. ASSUME ~excused' PROVE SessionLives'
  <2>1. SessionLives
    BY <1>1, <1>4 DEF BrowserInv
  <2>2. ASSUME NEW q \in WebRequest PROVE RequestLives(web[q])'
    <3>1. RequestLives(web[q])
      BY <2>1 DEF SessionLives
    <3> QED  BY <1>1, <1>2, <3>1 DEF RequestLives, LeadsOn, Asking
  <2> QED  BY <1>1, <2>1, <2>2 DEF SessionLives, LeadsOn
<1> QED  BY <1>2, <1>3, <1>4 DEF BrowserInv

\* No step breaks the invariant.
LEMMA BrowserStep == BrowserInv /\ [BSNext]_browserVars => BrowserInv'
<1> SUFFICES ASSUME BrowserInv, [BSNext]_browserVars PROVE BrowserInv'
  OBVIOUS
<1>1. ASSUME NEW r \in WebRequest, NEW route \in Route, SendRequest(r, route) PROVE BrowserInv'
  BY <1>1, SendStep
<1>2. ASSUME NEW r \in WebRequest, canActivate(r) PROVE BrowserInv'
  BY <1>2, GuardStep
<1>3. ASSUME NEW r \in WebRequest, NoRefreshToken(r) PROVE BrowserInv'
  <2>1. web[r].at \in Asking /\ web[r].refresh = 0
    BY <1>3 DEF NoRefreshToken, WebAt, Asking
  <2>2. excused /\ excused \in BOOLEAN /\ tokenRows \subseteq RefreshTokens
    BY <2>1, RequestFacts DEF LeadsOn
  <2> QED  BY <1>3, <2>2, AnswerStep DEF NoRefreshToken
<1>4. ASSUME NEW r \in WebRequest, LockToken(r) PROVE BrowserInv'
  BY <1>4, LockStep
<1>5. ASSUME NEW r \in WebRequest, RefreshInProgress(r) PROVE BrowserInv'
  <2>1. web[r].at \in {"rotate", "exchange"} /\ tokenRows \subseteq RefreshTokens
    BY <1>5, RequestFacts DEF RefreshInProgress, Rotates, WebAt
  <2>2. excused' \in BOOLEAN /\ (excused => excused') /\ (web[r].at = "exchange" => excused')
    BY <1>5, Zenon DEF RefreshInProgress, WebAt
  <2> QED  BY <1>5, <2>1, <2>2, FailStep DEF RefreshInProgress
<1>6. ASSUME NEW r \in WebRequest, rotateTokens(r) PROVE BrowserInv'
  BY <1>6, RotateStep
<1>7. ASSUME NEW r \in WebRequest, RotationFails(r) PROVE BrowserInv'
  <2>1. web[r].at \in {"rotate", "exchange"} /\ tokenRows' \subseteq RefreshTokens /\ excused'
    BY <1>7, RequestFacts DEF RotationFails, Rotates, WebAt
  <2> QED  BY <1>7, <2>1, FailStep DEF RotationFails
<1>8. ASSUME NEW r \in WebRequest, finishRefresh(r) PROVE BrowserInv'
  <2>1. /\ web[r].at = "status" /\ web[r].at \in Asking /\ Watches(web[r])
        /\ web[r].user \in BOOLEAN /\ (~excused => LeadsOn(web[r].token))
        /\ tokenRows' \subseteq RefreshTokens
        /\ UNCHANGED <<tokenRows, successor, minted, accountActive, cookies>>
    BY <1>8, RequestFacts DEF finishRefresh, WebAt, Asking, RequestLives
  <2>2. excused' \in BOOLEAN /\ (excused => excused') /\ (~accountActive => excused')
    BY <1>8, Zenon DEF finishRefresh
  <2>3. web[r].user => web[r].sawActive
    BY <2>1 DEF Watches
  <2>4. CASE accountActive
    <3>1. Admit(r, "set", TRUE) /\ web[r].sawActive /\ (~excused' => ~excused)
      BY <1>8, <2>1, <2>2, <2>4 DEF finishRefresh, Watches
    <3> QED  BY <2>1, <2>2, <3>1, AdmitStep
  <2>5. CASE ~accountActive /\ Silent(r)
    <3>1. Admit(r, "clear", web[r].user)
      BY <1>8, <2>5 DEF finishRefresh
    <3> QED  BY <2>1, <2>2, <2>3, <2>5, <3>1, AdmitStep
  <2>6. CASE ~accountActive /\ ~Silent(r)
    <3>1. Answer(r, "clear")
      BY <1>8, <2>6 DEF finishRefresh
    <3> QED  BY <2>1, <2>2, <2>6, <3>1, AnswerStep
  <2> QED  BY <2>4, <2>5, <2>6
<1>9. ASSUME NEW r \in WebRequest, refreshTokens(r) PROVE BrowserInv'
  <2>1. /\ web[r].at = "handler" /\ web[r].at \in Asking /\ tokenRows \subseteq RefreshTokens
        /\ excused \in BOOLEAN /\ (~excused => web[r].refresh # 0)
        /\ UNCHANGED <<tokenRows, successor, minted, accountActive, cookies, excused>>
    BY <1>9, RequestFacts DEF refreshTokens, WebAt, Asking, LeadsOn
  <2>2. CASE web[r].refresh = 0
    <3>1. Answer(r, "clear")
      BY <1>9, <2>2 DEF refreshTokens
    <3> QED  BY <2>1, <2>2, <3>1, AnswerStep
  <2>3. CASE web[r].refresh # 0
    BY <1>9, <2>1, <2>3, GoStep DEF refreshTokens
  <2> QED  BY <2>2, <2>3
<1>10. ASSUME NEW r \in WebRequest, logout(r) PROVE BrowserInv'
  <2>1. tokenRows' \subseteq RefreshTokens /\ excused'
    BY <1>10, RequestFacts DEF logout
  <2> QED  BY <1>10, <2>1, AnswerStep DEF logout
<1>11. ASSUME NEW r \in WebRequest, Respond(r) PROVE BrowserInv'
  BY <1>11, RespondStep
<1>12. ASSUME NEW r \in WebRequest, WebRequestDies(r) PROVE BrowserInv'
  BY <1>12, EndStep DEF WebRequestDies, BrowserInv, BSTypeOK, SessionLives
<1>13. CASE AccessAges
  BY <1>13, AgeStep
<1>14. ASSUME NEW t \in RefreshTokens, GraceLapses(t) PROVE BrowserInv'
  BY <1>14, LapseStep
<1>15. CASE RowRevoked
  BY <1>15, RevokeStep
<1>16. CASE AccountChanges
  BY <1>16, AccountStep
<1>17. CASE UNCHANGED browserVars
  <2>1. BSTypeOK' /\ (~excused' => SessionLives')
    BY <1>17 DEF browserVars, BrowserInv, BSTypeOK, SessionLives, LeadsOn, RequestLives
  <2>2. \A q \in WebRequest : Watches(web[q])'
    BY <1>17 DEF browserVars, BrowserInv, Watches
  <2> QED  BY <2>1, <2>2 DEF BrowserInv
<1> QED  BY <1>1, <1>2, <1>3, <1>4, <1>5, <1>6, <1>7, <1>8, <1>9, <1>10, <1>11, <1>12, <1>13,
            <1>14, <1>15, <1>16, <1>17 DEF BSNext

LEMMA BrowserInvariant == BSSpec => []BrowserInv
<1>1. BSInit => BrowserInv
  BY BrowserInit
<1>2. BrowserInv /\ [BSNext]_browserVars => BrowserInv'
  BY BrowserStep
<1> QED  BY <1>1, <1>2, PTL DEF BSSpec

(***************************************************************************)
(* The types of BrowserSession: the cookies, the rows and the grace keys.  *)
(***************************************************************************)
THEOREM BrowserTypes == BSSpec => []BSTypeOK
<1>1. BrowserInv => BSTypeOK
  BY DEF BrowserInv
<1> QED  BY <1>1, BrowserInvariant, PTL

(***************************************************************************)
(* While the session lives, the token in the browser's cookies is accepted *)
(* by rotateTokens, directly or by the grace keys, however many requests   *)
(* refresh it at once and in whatever order their responses come.          *)
(***************************************************************************)
THEOREM SessionKept == BSSpec => []StaysSignedIn
<1>1. BrowserInv => StaysSignedIn
  BY DEF BrowserInv, SessionLives, StaysSignedIn, Accepted, LeadsOn
<1> QED  BY <1>1, BrowserInvariant, PTL

(***************************************************************************)
(* A request that JwtAuthGuard lets through as the user was in flight at a *)
(* moment at which the account was active.                                 *)
(***************************************************************************)
THEOREM ServedActive == BSSpec => []ServedWhileActive
<1>1. BrowserInv => ServedWhileActive
  BY DEF BrowserInv, Watches, ServedWhileActive
<1> QED  BY <1>1, BrowserInvariant, PTL

(***************************************************************************)
(* The run takes one of the two at a time: what is proved of codes and of  *)
(* the browser holds of the specification that is run.                     *)
(***************************************************************************)
THEOREM SignInComposes == MCSpec => Spec /\ BSSpec
<1>1. MCInit => Init /\ BSInit
  BY DEF MCInit
<1>2. [MCNext]_<<part, vars, browserVars>> => [Next]_vars /\ [BSNext]_browserVars
  BY DEF MCNext
<1> QED
  BY <1>1, <1>2, PTL DEF MCSpec, Spec, BSSpec
=============================================================================
