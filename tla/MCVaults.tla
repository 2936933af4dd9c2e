------------------------------- MODULE MCVaults -------------------------------
(* Vaults for TLC: one tenant has a team, the other has none.              *)
EXTENDS Vaults, TLC

CONSTANTS o1, o2, t1
MCOrgOf == [t \in Team |-> o1]

Symmetry == Permutations(Listing) \cup Permutations(User)
===============================================================================
