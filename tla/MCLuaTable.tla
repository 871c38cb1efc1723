----------------------------- MODULE MCLuaTable ------------------------------
(* Model-checking instance of LuaTable. *)
EXTENDS LuaTable, TLC

CONSTANTS s1, s2, o1, v1, v2, w1, w2

\* The integer keys of LuaTableStore.  With a maxInt of 7 the sum of 3 and 6 wraps
\* around to -7 and that of 4 and 7 to -5: the search of the hash part looks at -3 and -2.
StoreInts == {-3} \cup 1 .. 4

Symmetry == Permutations(StrKeys) \cup Permutations(Walks) \cup Permutations(Val)
=============================================================================
