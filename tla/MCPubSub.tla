------------------------------ MODULE MCPubSub ------------------------------
(* PubSub on two replicas, either of which may depart, and two writers of two *)
(* events: enough for a departure during a send, and for two at once.        *)
EXTENDS PubSub
=============================================================================
