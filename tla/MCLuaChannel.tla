----------------------------- MODULE MCLuaChannel -----------------------------
(* LuaChannel for TLC: one unbuffered and one buffered channel.            *)
EXTENDS LuaChannel, TLC

CONSTANTS meet, pipe

MCSize == [c \in Chan |-> IF c = meet THEN 0 ELSE 2]

HostSymmetry == Permutations(Host)
=============================================================================
