----------------------------- MODULE MCAccounts -----------------------------
(***************************************************************************)
(* Accounts with two browsers; the identities' addresses coincide.         *)
(***************************************************************************)
EXTENDS Accounts, TLC

CONSTANTS mine, other

(* Both identities come with one address: whose it is, two accounts may    *)
(* come to disagree about.                                                 *)
MCClaimedEmail == [i \in Identities |-> mine]

Symmetry == Permutations(Browsers) \cup Permutations(Identities)
=============================================================================
