---------------------------- MODULE OneTimeCodes ----------------------------
(***************************************************************************)
(* One e-mail address: registration, login, Google sign-in, the codes      *)
(* mailed to it and the counters of wrong answers (AuthService and         *)
(* UsersService).  Calls run concurrently; one action per awaited query,   *)
(* Redis command or mail.  An answer that changes nothing (a limiter's,    *)
(* Conflict, an expired code) is not an action.                            *)
(***************************************************************************)
EXTENDS Naturals

CONSTANTS
  Call,         \* calls, each handling one request at a time
  MaxAttempts,  \* BRUTE_MAX_ATTEMPTS
  MaxCodes,     \* bound: codes generated
  NoAccount     \* there is no row in users

Code == 0..MaxCodes     \* 0 is the null of otp_hash
Provider == {"email", "google"}
Account == [provider : Provider, verified : BOOLEAN, otp : Code, expired : BOOLEAN]

ASSUME CodesAssumption ==
  /\ MaxAttempts \in Nat \ {0}
  /\ MaxCodes \in Nat
  /\ NoAccount \notin Account

Counter == {"login", "verify", "verifyReset"}  \* attempts:, verify-otp-attempts:, reset-otp-attempts:
Operation == Counter \cup {"register", "forgot", "resend", "google"}

VARIABLES
  account,    \* the row of users
  codes,      \* number of codes generated
  attempts,   \* the counters in Redis
  locked,     \* whether lock:<email> is set
  signedIn,   \* whether a refresh token has been issued
  operation,  \* what each call handles
  pc,         \* the await it is at
  user,       \* the row it has read
  issued,     \* the code it has stored
  delivery,   \* of the code in the row: to be sent, or settled: sent or given up
  accepted,   \* the codes whose acceptance has been answered
  counted,    \* the calls whose wrong answer is in the counter
  failures    \* wrong answers given since a counter was last reset

keys == <<attempts, locked>>
calls == <<operation, pc, user, issued>>
history == <<delivery, accepted, counted, failures>>
vars == <<account, codes, keys, signedIn, calls, history>>

TypeOK ==
  /\ account \in {NoAccount} \cup Account
  /\ codes \in Code
  /\ attempts \in [Counter -> 0..MaxAttempts]
  /\ locked \in BOOLEAN /\ signedIn \in BOOLEAN
  /\ operation \in [Call -> Operation]
  /\ pc \in [Call -> {"idle", "lookup", "insert", "rewrite", "wrong", "right", "punish",
                      "recount", "clear", "store", "restart", "send", "undo", "session"}]
  /\ user \in [Call -> {NoAccount} \cup Account]
  /\ issued \in [Call -> Code]
  /\ delivery \in {"none", "pending", "settled"}
  /\ accepted \subseteq Code \ {0}
  /\ counted \subseteq Call
  /\ failures \in [Counter -> 0..MaxAttempts]

Init ==
  /\ account = NoAccount
  /\ codes = 0
  /\ attempts = [k \in Counter |-> 0]
  /\ locked = FALSE /\ signedIn = FALSE
  /\ operation = [c \in Call |-> "login"]
  /\ pc = [c \in Call |-> "idle"]
  /\ user = [c \in Call |-> NoAccount]
  /\ issued = [c \in Call |-> 0]
  /\ delivery = "none"
  /\ accepted = {}
  /\ counted = {}
  /\ failures = [k \in Counter |-> 0]

GoTo(c, label) == pc' = [pc EXCEPT ![c] = label] /\ UNCHANGED <<operation, user, issued>>

\* The call is over, and what it knows with it.
End(c) ==
  /\ pc' = [pc EXCEPT ![c] = "idle"]
  /\ operation' = [operation EXCEPT ![c] = "login"]
  /\ user' = [user EXCEPT ![c] = NoAccount]
  /\ issued' = [issued EXCEPT ![c] = 0]

\* What a call looks at later of the row it has read: login, whether it is verified.
Kept(op) ==
  CASE op \in {"verify", "verifyReset"} -> account
    [] op = "login" -> [account EXCEPT !.otp = 0, !.expired = FALSE]
    [] OTHER -> NoAccount

\* A request whose first query reads the row.
Begin(c, op, label) ==
  /\ pc[c] = "idle"
  /\ operation' = [operation EXCEPT ![c] = op]
  /\ user' = [user EXCEPT ![c] = Kept(op)]
  /\ pc' = [pc EXCEPT ![c] = label]
  /\ UNCHANGED <<account, codes, keys, signedIn, issued, history>>

OfCounters(K) == {c \in Call : operation[c] \in K}

\* The wrong answers so far no longer count for the counters K.
Forget(K) ==
  /\ counted' = counted \ OfCounters(K)
  /\ failures' = [k \in Counter |-> IF k \in K THEN 0 ELSE failures[k]]

\* The row gets code otp, which replaces what was there.
PutCode(row, otp) ==
  /\ account' = [row EXCEPT !.otp = otp, !.expired = FALSE]
  /\ delivery' = IF otp = 0 THEN "none" ELSE "pending"
  /\ Forget(Counter \ {"login"})

\* storeOtpHash, clearOtp and clearOtpOnly update the row by its id.
StoreOtpHash(otp) == PutCode(account, otp)
ClearOtpOnly == PutCode(account, 0)
ClearOtp == PutCode([account EXCEPT !.verified = TRUE], 0)

-----------------------------------------------------------------------------
(***************************************************************************)
(* Registration and Google sign-in.                                        *)
(***************************************************************************)
BeginRegister(c) ==
  \/ account = NoAccount /\ Begin(c, "register", "insert")
  \/ account # NoAccount /\ ~account.verified /\ Begin(c, "register", "rewrite")

BeginGoogle(c) ==
  \/ account = NoAccount /\ Begin(c, "google", "insert")
  \/ account # NoAccount /\ Begin(c, "google", IF account.verified THEN "session" ELSE "clear")

NewAccount(provider) ==
  [provider |-> provider, verified |-> provider = "google", otp |-> 0, expired |-> FALSE]

\* Mutant: the provider is not set.
InsertBare(c) ==
  /\ pc[c] = "insert" /\ account = NoAccount
  /\ account' = NewAccount(IF operation[c] = "google" THEN "google" ELSE "none")
  /\ GoTo(c, IF operation[c] = "google" THEN "session" ELSE "store")
  /\ UNCHANGED <<codes, keys, signedIn, history>>

\* The insert; if another call was first, the address is not unique and it fails.
Insert(c) ==
  /\ pc[c] = "insert" /\ account = NoAccount
  /\ account' = NewAccount(IF operation[c] = "google" THEN "google" ELSE "email")
  /\ GoTo(c, IF operation[c] = "google" THEN "session" ELSE "store")
  /\ UNCHANGED <<codes, keys, signedIn, history>>

\* Mutant: the row is saved as it was read, unverified.
RewriteWhole(c) ==
  /\ pc[c] = "rewrite"
  /\ PutCode([account EXCEPT !.verified = FALSE], 0)
  /\ GoTo(c, "store")
  /\ UNCHANGED <<codes, keys, signedIn, accepted>>

\* Registering again: the new password, and no code, whatever the row is by now.
Rewrite(c) ==
  /\ pc[c] = "rewrite"
  /\ ClearOtpOnly
  /\ GoTo(c, "store")
  /\ UNCHANGED <<codes, keys, signedIn, accepted>>

-----------------------------------------------------------------------------
(***************************************************************************)
(* Sending a code: register, login of an unverified account,               *)
(* forgotPassword and resendOtp.                                           *)
(***************************************************************************)
BeginForgot(c) ==
  /\ account # NoAccount /\ account.provider = "email"
  /\ Begin(c, "forgot", "store")

BeginResend(c) ==
  /\ account # NoAccount /\ ~account.verified
  /\ Begin(c, "resend", "store")

Store(c) ==
  /\ pc[c] = "store" /\ codes < MaxCodes
  /\ codes' = codes + 1
  /\ StoreOtpHash(codes')
  /\ issued' = [issued EXCEPT ![c] = codes']
  /\ pc' = [pc EXCEPT ![c] = IF operation[c] = "resend" THEN "restart" ELSE "send"]
  /\ UNCHANGED <<keys, signedIn, operation, user, accepted>>

\* resendOtp deletes the counter of verifyOtp.
RestartCounter(c) ==
  /\ pc[c] = "restart"
  /\ attempts' = [attempts EXCEPT !["verify"] = 0]
  /\ Forget({"verify"})
  /\ GoTo(c, "send")
  /\ UNCHANGED <<account, codes, locked, signedIn, delivery, accepted>>

\* What becomes of the call's code, if it is still in the row.
Deliver(c, fate) ==
  /\ delivery' = IF account.otp = issued[c] THEN fate ELSE delivery
  /\ UNCHANGED <<accepted, counted, failures>>

Send(c) ==
  /\ pc[c] = "send"
  /\ Deliver(c, "settled")
  /\ End(c)
  /\ UNCHANGED <<account, codes, keys, signedIn>>

\* Mutant: nobody takes the code back.
SendFailsSilently(c) ==
  /\ pc[c] = "send"
  /\ End(c)
  /\ Deliver(c, IF operation[c] \in {"register", "login"} THEN "pending" ELSE "settled")
  /\ UNCHANGED <<account, codes, keys, signedIn>>

\* register and login take the code back; forgotPassword ignores the error, and
\* resendOtp throws it, with the code in the row.
SendFails(c) ==
  /\ pc[c] = "send"
  /\ \/ /\ operation[c] \in {"register", "login"}
        /\ GoTo(c, "undo")
        /\ UNCHANGED history
     \/ /\ operation[c] \in {"forgot", "resend"}
        /\ Deliver(c, "settled")
        /\ End(c)
  /\ UNCHANGED <<account, codes, keys, signedIn>>

Undo(c) ==
  /\ pc[c] = "undo"
  /\ ClearOtpOnly
  /\ End(c)
  /\ UNCHANGED <<codes, keys, signedIn, accepted>>

-----------------------------------------------------------------------------
(***************************************************************************)
(* Answers: the password of login, the code of verifyOtp and               *)
(* verifyResetOtp, compared with what the call has read.                   *)
(***************************************************************************)
BeginLogin(c) ==
  /\ account # NoAccount /\ account.provider = "email"
  /\ Begin(c, "login", "lookup")

\* The lock is read, then the password compared.
CheckPassword(c, right) ==
  /\ pc[c] = "lookup" /\ ~locked
  /\ GoTo(c, IF right THEN "right" ELSE "wrong")
  /\ UNCHANGED <<account, codes, keys, signedIn, history>>

RefuseLocked(c) ==
  /\ pc[c] = "lookup" /\ locked
  /\ End(c)
  /\ UNCHANGED <<account, codes, keys, signedIn, history>>

BeginVerify(c, op, right) ==
  /\ account # NoAccount /\ account.otp # 0 /\ ~account.expired
  /\ op = "verify" => ~account.verified
  /\ Begin(c, op, IF right THEN "right" ELSE "wrong")

\* Whether the call's wrong answer is one to what is there now.
Current(c) == operation[c] = "login" \/ account.otp = user[c].otp

\* The counter is compared with MaxAttempts only, so it stops there.
CountUp(k) == IF attempts[k] < MaxAttempts THEN attempts[k] + 1 ELSE MaxAttempts

\* The call answers "wrong"; cs are the calls whose answers count.
AnswerWrong(c, cs) ==
  /\ counted' = cs \ {c}
  /\ failures' = IF c \in cs /\ failures[operation[c]] < MaxAttempts
                   THEN [failures EXCEPT ![operation[c]] = @ + 1] ELSE failures
  /\ UNCHANGED <<delivery, accepted>>

\* INCR, with EXPIRE if it is the first; tooMany is what the code makes of the count.
Count(c, tooMany) ==
  /\ pc[c] = "wrong"
  /\ attempts' = [attempts EXCEPT ![operation[c]] = CountUp(operation[c])]
  /\ LET cs == IF Current(c) THEN counted \cup {c} ELSE counted
     IN  \/ ~tooMany /\ AnswerWrong(c, cs) /\ End(c)
         \/ /\ tooMany
            /\ counted' = cs
            /\ GoTo(c, "punish")
            /\ UNCHANGED <<delivery, accepted, failures>>
  /\ UNCHANGED <<account, codes, locked, signedIn>>

\* Mutant: one wrong answer more.
CountOneMore(c) == Count(c, attempts[operation[c]] = MaxAttempts)

CountWrong(c) == Count(c, CountUp(operation[c]) = MaxAttempts)

\* INCR is done, but not the answer: EXPIRE fails or the process dies.
CountThenFail(c) ==
  /\ pc[c] = "wrong"
  /\ attempts' = [attempts EXCEPT ![operation[c]] = CountUp(operation[c])]
  /\ End(c)
  /\ UNCHANGED <<account, codes, locked, signedIn, history>>

\* Too many: login sets the lock, the others clear the code.
Punish(c) ==
  /\ pc[c] = "punish"
  /\ \/ /\ operation[c] = "login"
        /\ locked' = TRUE
        /\ Forget({"login"})
        /\ UNCHANGED <<account, delivery>>
     \/ /\ operation[c] # "login"
        /\ ClearOtpOnly
        /\ UNCHANGED locked
  /\ GoTo(c, "recount")
  /\ UNCHANGED <<codes, attempts, signedIn, accepted>>

\* The counter is deleted, for a newer code as well, and the call answers "wrong".
Recount(c) ==
  /\ pc[c] = "recount"
  /\ attempts' = [attempts EXCEPT ![operation[c]] = 0]
  /\ \/ Current(c) /\ AnswerWrong(c, counted)
     \/ ~Current(c) /\ Forget({operation[c]}) /\ UNCHANGED <<delivery, accepted>>
  /\ End(c)
  /\ UNCHANGED <<account, codes, locked, signedIn>>

\* The counter is deleted.
Right(c) ==
  /\ pc[c] = "right"
  /\ attempts' = [attempts EXCEPT ![operation[c]] = 0]
  /\ Forget({operation[c]})
  /\ GoTo(c, IF operation[c] # "login" THEN "clear"
             ELSE IF user[c].verified THEN "session" ELSE "store")
  /\ UNCHANGED <<account, codes, locked, signedIn, delivery, accepted>>

Accept(c) == accepted' = accepted \cup {user[c].otp}

\* Mutant: an accepted code stays in the row.
ClearNothing(c) ==
  /\ pc[c] = "clear"
  /\ account' = [account EXCEPT !.verified = TRUE]
  /\ UNCHANGED <<delivery, counted, failures>>
  /\ \/ operation[c] = "verifyReset" /\ Accept(c) /\ End(c)
     \/ operation[c] # "verifyReset" /\ UNCHANGED accepted /\ GoTo(c, "session")
  /\ UNCHANGED <<codes, keys, signedIn>>

\* clearOtp; verifyResetOtp then answers with a token to set the password by.
Clear(c) ==
  /\ pc[c] = "clear"
  /\ ClearOtp
  /\ \/ operation[c] = "verifyReset" /\ Accept(c) /\ End(c)
     \/ operation[c] # "verifyReset" /\ UNCHANGED accepted /\ GoTo(c, "session")
  /\ UNCHANGED <<codes, keys, signedIn>>

\* generateRefreshToken, and the answer.
SignIn(c) ==
  /\ pc[c] = "session"
  /\ signedIn' = TRUE
  /\ IF operation[c] = "verify" THEN Accept(c) ELSE UNCHANGED accepted
  /\ End(c)
  /\ UNCHANGED <<account, codes, keys, delivery, counted, failures>>

-----------------------------------------------------------------------------
\* A query, a command or the process fails before it has changed anything.
Fail(c) ==
  /\ pc[c] # "idle"
  /\ End(c)
  /\ delivery' = IF pc[c] \in {"restart", "send", "undo"} /\ account.otp = issued[c]
                   THEN "settled" ELSE delivery
  /\ counted' = counted \ {c}
  /\ UNCHANGED <<account, codes, keys, signedIn, accepted, failures>>

CodeExpires ==
  /\ account # NoAccount /\ account.otp # 0
  /\ account' = [account EXCEPT !.expired = TRUE]
  /\ UNCHANGED <<codes, keys, signedIn, calls, history>>

CounterExpires(k) ==
  /\ attempts[k] # 0
  /\ attempts' = [attempts EXCEPT ![k] = 0]
  /\ Forget({k})
  /\ UNCHANGED <<account, codes, locked, signedIn, calls, delivery, accepted>>

\* Half an hour later: the call that set it has long ended.
LockExpires ==
  /\ locked /\ \A c \in OfCounters({"login"}) : pc[c] # "recount"
  /\ locked' = FALSE
  /\ Forget({"login"})
  /\ UNCHANGED <<account, codes, attempts, signedIn, calls, delivery, accepted>>

Next ==
  \/ \E c \in Call :
       \/ BeginRegister(c) \/ BeginGoogle(c) \/ Insert(c) \/ Rewrite(c)
       \/ BeginForgot(c) \/ BeginResend(c) \/ Store(c) \/ RestartCounter(c)
       \/ Send(c) \/ SendFails(c) \/ Undo(c)
       \/ BeginLogin(c) \/ RefuseLocked(c)
       \/ \E right \in BOOLEAN : CheckPassword(c, right)
       \/ \E op \in {"verify", "verifyReset"}, right \in BOOLEAN : BeginVerify(c, op, right)
       \/ CountWrong(c) \/ CountThenFail(c) \/ Punish(c) \/ Recount(c)
       \/ Right(c) \/ Clear(c) \/ SignIn(c) \/ Fail(c)
  \/ CodeExpires \/ LockExpires
  \/ \E k \in Counter : CounterExpires(k)

Spec == Init /\ [][Next]_vars

-----------------------------------------------------------------------------
(***************************************************************************)
(* Properties.                                                             *)
(***************************************************************************)

(***************************************************************************)
(* A session is issued only for an account that is verified, although      *)
(* login goes by a row it read long before and anybody may register the    *)
(* address again meanwhile.                                                *)
(***************************************************************************)
SessionsOnlyVerified == signedIn => account # NoAccount /\ account.verified

(***************************************************************************)
(* "brute-force lockout (5 attempts -> 30 min)" (README.md) and            *)
(* "invalidates the code after the fifth wrong attempt"                    *)
(* (auth.service.spec.ts): nobody is told MaxAttempts times "wrong" by an  *)
(* account that is not locked, or about one code, unless the counter was   *)
(* restarted by a right answer, a resend, its expiry or, late, by a call   *)
(* that had cleared an earlier code.                                       *)
(***************************************************************************)
FailuresTakeEffect ==
  \A k \in Counter : failures[k] = MaxAttempts => k = "login" /\ locked

(***************************************************************************)
(* A code whose acceptance has been answered is not in the row again, so   *)
(* no later call accepts it; calls that overlap may.                       *)
(***************************************************************************)
AcceptedStaysSpent == account # NoAccount => account.otp \notin accepted

(***************************************************************************)
(* A code in the row has been sent or is about to be by the call that      *)
(* stored it, unless sending failed in forgotPassword or resendOtp, or the *)
(* call broke off: register and login leave no code that nobody gets.      *)
(***************************************************************************)
CodesGetSent ==
  delivery = "pending" => \E c \in Call : /\ pc[c] \in {"restart", "send", "undo"}
                                         /\ issued[c] = account.otp
=============================================================================
