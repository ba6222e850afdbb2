-------------------------- MODULE MCProfileDrafts --------------------------
(***************************************************************************)
(* The drafts of a profile, and the rows of users: a behaviour is about    *)
(* the one or the other.                                                   *)
(***************************************************************************)
EXTENDS ProfileDrafts, Accounts, TLC

VARIABLE part

MCInit == part \in {"drafts", "accounts"} /\ Init /\ ACInit

MCNext ==
  /\ UNCHANGED part
  /\ \/ part = "drafts" /\ Next /\ UNCHANGED accountVars
     \/ part = "accounts" /\ ACNext /\ UNCHANGED vars

MCSpec == MCInit /\ [][MCNext]_<<part, vars, accountVars>>

TypesOK == TypeOK /\ ACTypeOK

Symmetry == Permutations(Session) \cup Permutations(AccountId)
=============================================================================
