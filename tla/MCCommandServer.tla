--------------------------- MODULE MCCommandServer ---------------------------
(* CommandServer on two connections.  With MaxInt = 2 an INCR of 2 wraps.    *)
EXTENDS CommandServer, TLC
MCNumbers == {2}
MCSymmetry == Permutations(Conns)
=============================================================================
