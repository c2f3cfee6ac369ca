---------------------------- MODULE MCLuaService ----------------------------
(* LuaService for TLC: coroutines and peers are interchangeable. *)
EXTENDS LuaService, TLC

Symmetry == Permutations(Co) \cup Permutations(Peer)
=============================================================================
