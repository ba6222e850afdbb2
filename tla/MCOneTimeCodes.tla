--------------------------- MODULE MCOneTimeCodes ---------------------------
(***************************************************************************)
(* Signing in with one-time codes, and the session of a browser that is    *)
(* signed in: a behaviour is about the one or the other.                   *)
(***************************************************************************)
EXTENDS OneTimeCodes, BrowserSession, TLC

VARIABLE part

MCInit == part \in {"codes", "browser"} /\ Init /\ BSInit

MCNext ==
  /\ UNCHANGED part
  /\ \/ part = "codes" /\ Next /\ UNCHANGED browserVars
     \/ part = "browser" /\ BSNext /\ UNCHANGED vars

MCSpec == MCInit /\ [][MCNext]_<<part, vars, browserVars>>

\* A call of the one and a request of the other have the same names.
Symmetry == Permutations(Call)
=============================================================================
