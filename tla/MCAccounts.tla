------------------------------ MODULE MCAccounts ------------------------------
(* Accounts for TLC: slots and uuids are interchangeable. *)
EXTENDS Accounts, TLC

Symmetry == Permutations(Reqs) \cup Permutations(Ids) \cup Permutations(Projects)
=============================================================================
