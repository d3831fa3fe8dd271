----------------------------- MODULE MCPublicApi -----------------------------
EXTENDS PublicApi, TLC

Symmetry == Permutations(Callers) \cup Permutations(Addresses)
=============================================================================
