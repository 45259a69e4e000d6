------------------------------ MODULE MCAccounts ------------------------------
EXTENDS Accounts, TLC

\* Accounts are told apart by their rows only, requests by what they read.
Symmetry == Permutations(Ids) \cup Permutations(Requests)
=============================================================================
