----------------------------- MODULE MCKeyUnlock -----------------------------
EXTENDS KeyUnlock, TLC

Symmetry == Permutations(Addresses) \cup Permutations(Calls) \cup Permutations(Lockers)
==============================================================================
