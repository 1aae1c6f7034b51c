---------------------------- MODULE MCStreamStore ----------------------------
(* StreamStore on one key and two interchangeable connections.  The clock    *)
(* and the clients share three milliseconds; MaxInt is small so that the     *)
(* wildcard reaches the end of the sequence numbers.                         *)
EXTENDS StreamStore, TLC
MCTimes == {0, 1, 2}
MCSeqs == {0, 1, 2}
MCSymmetry == Permutations(Conns)
=============================================================================
