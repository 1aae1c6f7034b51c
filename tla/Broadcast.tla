------------------------------ MODULE Broadcast ------------------------------
(***************************************************************************)
(* What redis-go's PubSubManager and HandlePSync promise together, stated  *)
(* without goroutines, channels or locks: one log of write commands, and   *)
(* for every subscribed replica a connection that carries a contiguous     *)
(* part of the log, in order, without gap or repetition, from the point    *)
(* where the replica joined.  The log never runs more than Window events   *)
(* ahead of what was written to a member's connection.                     *)
(***************************************************************************)
EXTENDS Naturals, Sequences

CONSTANTS Replicas, Events, Window

VARIABLES
  log,      \* the events fanned out so far
  member,   \* the replicas subscribed now
  joined,   \* the replicas that have ever subscribed
  first,    \* the length of the log when a replica joined
  out       \* what was written to each replica's connection

bvars == <<log, member, joined, first, out>>

Init ==
  /\ log = <<>>
  /\ member = {}
  /\ joined = {}
  /\ first = [r \in Replicas |-> 0]
  /\ out = [r \in Replicas |-> <<>>]

Position(r) == first[r] + Len(out[r])

Publish(e) ==
  /\ \A r \in member : Len(log) - Position(r) < Window
  /\ log' = Append(log, e)
  /\ UNCHANGED <<member, joined, first, out>>

Join(r) ==
  /\ r \notin joined
  /\ joined' = joined \cup {r}
  /\ member' = member \cup {r}
  /\ first' = [first EXCEPT ![r] = Len(log)]
  /\ UNCHANGED <<log, out>>

Deliver(r) ==
  /\ r \in member
  /\ Position(r) < Len(log)
  /\ out' = [out EXCEPT ![r] = Append(@, log[Position(r) + 1])]
  /\ UNCHANGED <<log, member, joined, first>>

Leave(r) ==
  /\ r \in member
  /\ member' = member \ {r}
  /\ UNCHANGED <<log, joined, first, out>>

Next ==
  \/ \E e \in Events : Publish(e)
  \/ \E r \in Replicas : Join(r) \/ Deliver(r) \/ Leave(r)

Spec == Init /\ [][Next]_bvars
=============================================================================
