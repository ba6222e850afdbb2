-------------------------- MODULE MCTokenRotation --------------------------
(***************************************************************************)
(* Instances of TokenRotation for TLC.  MaxSignIns leaves a fresh token    *)
(* for every rotation, so that no call is ever stuck for want of a uuid.   *)
(***************************************************************************)
EXTENDS TokenRotation, FiniteSets, TLC

CONSTANT MaxSignIns

SignInsBounded == Cardinality({t \in Token : session[t] = t}) <= MaxSignIns

MCNext == Next /\ SignInsBounded'

MCSpec == Init /\ [][MCNext]_vars

MCFairSpec == MCSpec /\ Fairness

Symmetry == Permutations(Token) \cup Permutations(Request)
=============================================================================
