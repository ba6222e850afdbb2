------------------------------ MODULE Sessions ------------------------------
(***************************************************************************)
(* What refresh-token rotation promises, without saying how: a sign-in     *)
(* opens a session with one credential; a refresh takes the credential     *)
(* away and, if it completes, issues one new credential for the same       *)
(* session; a sign-out takes credentials away for good.  A session is      *)
(* named by its first credential.                                          *)
(***************************************************************************)
CONSTANTS Token,      \* every raw refresh token that may ever be generated
          NoToken     \* "not generated yet"

VARIABLES live,       \* the credentials that would be accepted now
          session,    \* the session each token belongs to, or NoToken
          renewing    \* the sessions whose credential a refresh is replacing

vars == <<live, session, renewing>>

Init ==
  /\ live = {}
  /\ session = [t \in Token |-> NoToken]
  /\ renewing = {}

\* Sign-in opens a session around a token nobody has seen before.
SignIn(t) ==
  /\ session[t] = NoToken
  /\ session' = [session EXCEPT ![t] = t]
  /\ live' = live \cup {t}
  /\ UNCHANGED renewing

\* A refresh takes the credential of its session; nothing accepts it again.
Take(t) ==
  /\ t \in live
  /\ live' = live \ {t}
  /\ renewing' = renewing \cup {session[t]}
  /\ UNCHANGED session

\* The refresh that took a session's credential issues the next one.
Issue(s, n) ==
  /\ s \in renewing
  /\ session[n] = NoToken
  /\ session' = [session EXCEPT ![n] = s]
  /\ live' = live \cup {n}
  /\ renewing' = renewing \ {s}

\* A refresh that took a credential gives up: the session is over.
Abandon(s) ==
  /\ s \in renewing
  /\ renewing' = renewing \ {s}
  /\ UNCHANGED <<live, session>>

\* Sign-out and expiry take credentials away without replacing them.
Revoke(S) ==
  /\ live' = live \ S
  /\ UNCHANGED <<session, renewing>>

Next ==
  \/ \E t \in Token : SignIn(t) \/ Take(t)
  \/ \E s \in Token : Abandon(s)
  \/ \E s, n \in Token : Issue(s, n)
  \/ \E S \in SUBSET Token : Revoke(S)

Spec == Init /\ [][Next]_vars
=============================================================================
