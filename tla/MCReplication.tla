---------------------------- MODULE MCReplication ----------------------------
(* Replication with two starts of the follower, one restart of the leader and *)
(* three writes to one key.                                                  *)
EXTENDS Replication
=============================================================================
