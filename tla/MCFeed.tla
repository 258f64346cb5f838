-------------------------------- MODULE MCFeed --------------------------------
EXTENDS Feed, TLC

Symmetry == Permutations(Subs) \cup Permutations(Senders)
==============================================================================
