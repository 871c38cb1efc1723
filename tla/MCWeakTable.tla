----------------------------- MODULE MCWeakTable -----------------------------
EXTENDS WeakTable

CONSTANTS a, b, w, w2

Symmetry == Permutations(Addr)
=============================================================================
