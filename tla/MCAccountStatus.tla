-------------------------- MODULE MCAccountStatus --------------------------
(***************************************************************************)
(* Account statuses and their cache, and the way of a request through the  *)
(* guards: a behaviour is about the one or the other.                      *)
(***************************************************************************)
EXTENDS AccountStatus, Routes, TLC

VARIABLE part

MCInit == part \in {"status", "routes"} /\ Init /\ RTInit

MCNext ==
  /\ UNCHANGED part
  /\ \/ part = "status" /\ Next /\ UNCHANGED request
     \/ part = "routes" /\ RTNext /\ UNCHANGED vars

MCSpec == MCInit /\ [][MCNext]_<<part, vars, request>>

\* The statuses alone.
AuditSpec == part = "status" /\ Init /\ RTInit /\ [][MCNext]_<<part, vars, request>>

Symmetry == Permutations(Change) \cup Permutations(Check)
=============================================================================
