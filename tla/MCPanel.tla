------------------------------ MODULE MCPanel ------------------------------
EXTENDS Panel, TLC

Symmetry == Permutations(Workers) \cup Permutations(Clients)
=============================================================================
