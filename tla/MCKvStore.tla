------------------------------ MODULE MCKvStore ------------------------------
(* KvStore on two keys, two connections, three milliseconds and a            *)
(* uint64 of 16 values; -3 is a px that reaches below 0.                     *)
EXTENDS KvStore, TLC
MCPxs == {-3, 0, 1}
MCSymmetry == Permutations(Conns) \cup Permutations(Strings)
=============================================================================
