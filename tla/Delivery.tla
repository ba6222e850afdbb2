------------------------------ MODULE Delivery ------------------------------
(***************************************************************************)
(* What an announcement promises to each user, without saying how: after   *)
(* it has been made, a user who is there gets its notice, unread and once; *)
(* the notice is shown after it is there and at most once; only its user   *)
(* marks it; and it goes when the user goes, for users do not come back.   *)
(***************************************************************************)
CONSTANT Member

VARIABLES
  members,   \* the users there are
  strangers, \* who may still become one
  announced,
  ledger,    \* each user's notice: "none", "unread" or "read"
  shown      \* how often it was shown to each user there is

vars == <<members, strangers, announced, ledger, shown>>

Init ==
  /\ members \in SUBSET Member
  /\ strangers = Member \ members
  /\ announced = FALSE
  /\ ledger = [u \in Member |-> "none"]
  /\ shown = [u \in Member |-> 0]

Announce ==
  /\ ~announced /\ announced' = TRUE
  /\ UNCHANGED <<members, strangers, ledger, shown>>

\* Some users get the notice; what others have done with theirs stands.
Store(us) ==
  /\ announced
  /\ \A u \in us : u \in members /\ ledger[u] = "none"
  /\ ledger' = [u \in Member |-> IF u \in us THEN "unread" ELSE ledger[u]]
  /\ UNCHANGED <<members, strangers, announced, shown>>

\* It is shown to some of those who have it.
Show(us) ==
  /\ \A u \in us : u \in members /\ ledger[u] # "none" /\ shown[u] = 0
  /\ shown' = [u \in Member |-> IF u \in us THEN 1 ELSE shown[u]]
  /\ UNCHANGED <<members, strangers, announced, ledger>>

MarkAs(u, mark) ==
  /\ ledger[u] # "none"
  /\ ledger' = [ledger EXCEPT ![u] = mark]
  /\ UNCHANGED <<members, strangers, announced, shown>>

Join(u) ==
  /\ u \in strangers
  /\ members' = members \cup {u} /\ strangers' = strangers \ {u}
  /\ UNCHANGED <<announced, ledger, shown>>

Leave(u) ==
  /\ u \in members
  /\ members' = members \ {u}
  /\ ledger' = [ledger EXCEPT ![u] = "none"]
  /\ shown' = [shown EXCEPT ![u] = 0]
  /\ UNCHANGED <<strangers, announced>>

Next ==
  \/ Announce
  \/ \E us \in SUBSET Member : Store(us) \/ Show(us)
  \/ \E u \in Member :
       Join(u) \/ Leave(u) \/ \E mark \in {"unread", "read"} : MarkAs(u, mark)

Spec == Init /\ [][Next]_vars

(***************************************************************************)
(* Nobody is shown the announcement twice, or without a notice that he can *)
(* still find afterwards.                                                  *)
(***************************************************************************)
ShownIsStored ==
  \A u \in Member : shown[u] # 0 => shown[u] = 1 /\ u \in members /\ ledger[u] # "none"
=============================================================================
