----------------------------- MODULE Replication ------------------------------
(***************************************************************************)
(* A follower of redis-go and its leader: the follower's start (SendHand-  *)
(* shake, PSync and main), the leader's side of that connection            *)
(* (HandlePing, HandleReplconf, HandlePSync), the listener that replays    *)
(* what comes (startReplicationListener), and the two stores.              *)
(*                                                                         *)
(* The leader's fan-out is Broadcast, which module PubSub implements; that *)
(* it may end in a panic or in the three goroutines waiting for each other *)
(* (PubSub!Wedged) is an action here.  Either process may be killed and    *)
(* started again.                                                          *)
(*                                                                         *)
(* What is sent is the command, and the follower runs it on its own store. *)
(* So a value is described by the commands that made it: the number of the *)
(* SET it stems from (0 if it was absent or loaded from the process's own  *)
(* RDB file), the INCRs run on it since, and what kind of SET that was.    *)
(* Clients write to the leader, one at a time, and without px; a loaded    *)
(* value is an integer, and INCR does not overflow.                        *)
(***************************************************************************)
EXTENDS Naturals, Sequences, FiniteSets

CONSTANTS
  Keys,
  Replicas,     \* the connections of the follower, one for each of its starts
  None,         \* no connection
  Ops,          \* what clients do to a key: some of "set", "text" and "incr"
  MaxWrites,    \* bound: the writes at the leader
  MaxRestarts   \* bound: how often the leader is started again

ASSUME ReplicationConstants ==
  /\ None \notin Replicas
  /\ Ops \subseteq {"set", "text", "incr"}
  /\ MaxWrites \in Nat /\ MaxRestarts \in Nat

VARIABLES
  \* the leader
  leader,       \* "up", "wedged" (its fan-out never goes on) or "down"
  restarts,
  store,        \* its values
  writes,       \* the number of writes so far
  pending,      \* the write whose event is not published yet
  handler,      \* for each connection, where its goroutine is
  log, member, joined, first, out,   \* Broadcast
  \* the connection of the running follower
  conn,         \* None when the follower does not run
  open,         \* the leader's end of it exists
  request,      \* the command on the way to the leader
  replies,      \* what the leader has answered and the follower not read
  \* the follower
  stage,        \* "down", "ask", "await", "rdb" or "serving"
  step,         \* the number of the handshake's request
  replica,      \* its values
  read,         \* how much of out[conn] its listener has read
  rest,         \* what is left of an RDB file that was read in part
  \* history
  swallowed,    \* the first command went with that rest
  torn          \* a command was read in part

feed == <<log, member, joined, first, out>>
leadervars == <<leader, restarts, store, writes, pending>>
link == <<conn, open, request, replies>>
follower == <<stage, step, replica, read, rest, swallowed, torn>>
vars == <<leadervars, handler, feed, link, follower>>

\* A command on a key, with its number: SET to an integer, SET to another
\* text, or INCR.
Writes == Keys \X (1 .. MaxWrites) \X Ops
B == INSTANCE Broadcast WITH Events <- Writes, Window <- 2

NoWrite == <<>>
LoadedValue == [set |-> 0, incrs |-> 0, by |-> "set"]
Loaded == [k \in Keys |-> LoadedValue]

\* HandleSet and HandleIncr on a value; INCR of a text is an error reply.
Run(value, command) ==
  IF command[3] # "incr" THEN [set |-> command[2], incrs |-> 0, by |-> command[3]]
  ELSE IF value.by = "set" THEN [value EXCEPT !.incrs = @ + 1]
  ELSE value

\* What the follower asks, and what it must hear.
Handshake == << <<"ping", "PONG">>, <<"replconf", "OK">>, <<"replconf", "OK">>,
                <<"psync", "FULLRESYNC">> >>

Init ==
  /\ leader = "up" /\ restarts = 0 /\ store = Loaded /\ writes = 0 /\ pending = NoWrite
  /\ handler = [r \in Replicas |-> "none"]
  /\ B!Init
  /\ conn = None /\ open = FALSE /\ request = "none" /\ replies = <<>>
  /\ stage = "down" /\ step = 1 /\ replica = Loaded /\ read = 0 /\ rest = "none"
  /\ swallowed = FALSE /\ torn = FALSE

Connected(r) == conn = r /\ open

-----------------------------------------------------------------------------
(* The leader *)

\* Mutant of Write: the store is not changed before the event goes out.
WriteLater(k, op) ==
  /\ leader # "down" /\ pending = NoWrite /\ writes < MaxWrites
  /\ op = "incr" => store[k].by = "set"
  /\ writes' = writes + 1
  /\ pending' = <<k, writes', op>>
  /\ UNCHANGED <<leader, restarts, store, handler, feed, link, follower>>

\* A SET or INCR of a client changes the store ...
Write(k, op) ==
  /\ leader # "down" /\ pending = NoWrite /\ writes < MaxWrites
  /\ op = "incr" => store[k].by = "set"
  /\ writes' = writes + 1
  /\ pending' = <<k, writes', op>>
  /\ store' = [store EXCEPT ![k] = Run(@, pending')]
  /\ UNCHANGED <<leader, restarts, handler, feed, link, follower>>

\* ... and gets its event to the fan-out.
Publish ==
  /\ leader = "up" /\ pending # NoWrite
  /\ B!Publish(pending)
  /\ pending' = NoWrite
  /\ UNCHANGED <<leader, restarts, store, writes, handler, link, follower>>

\* PING, REPLCONF and the first line of PSYNC are answered.
Answer(r) ==
  /\ leader # "down" /\ handler[r] = "commands" /\ Connected(r)
  /\ \E i \in DOMAIN Handshake :
       /\ Handshake[i][1] = request
       /\ replies' = Append(replies, Handshake[i][2])
  /\ handler' = [handler EXCEPT ![r] = IF request = "psync" THEN "rdb" ELSE @]
  /\ request' = "none"
  /\ UNCHANGED <<leadervars, feed, conn, open, follower>>

\* The RDB file, which is the same empty one for everybody, is written, and
\* whether that succeeds is not looked at.
WriteRdb(r) ==
  /\ leader # "down" /\ handler[r] = "rdb"
  /\ handler' = [handler EXCEPT ![r] = "subscribe"]
  /\ replies' = IF Connected(r) THEN Append(replies, "RDB") ELSE replies
  /\ UNCHANGED <<leadervars, feed, conn, open, request, follower>>

Subscribe(r) ==
  /\ leader = "up" /\ handler[r] = "subscribe"
  /\ B!Join(r)
  /\ handler' = [handler EXCEPT ![r] = "events"]
  /\ UNCHANGED <<leadervars, link, follower>>

\* An event is written to the connection; a write to one whose other end is
\* gone may succeed, or end the handler.
Deliver(r) ==
  /\ leader = "up"
  /\ B!Deliver(r)
  /\ UNCHANGED <<leadervars, handler, link, follower>>

Depart(r) ==
  /\ leader = "up" /\ ~Connected(r)
  /\ B!Leave(r)
  /\ handler' = [handler EXCEPT ![r] = "gone"]
  /\ UNCHANGED <<leadervars, link, follower>>

\* One replica departs while another one's subscription, or its departure, waits
\* for the map.
Wedge(r) ==
  /\ leader = "up" /\ ~Connected(r) /\ r \in member
  /\ \E s \in Replicas \ {r} : handler[s] = "subscribe" \/ (s \in member /\ ~Connected(s))
  /\ leader' = "wedged"
  /\ UNCHANGED <<restarts, store, writes, pending, handler, feed, link, follower>>

\* The leader ends, in a panic or killed.  What the follower has not read of
\* the connection may be lost from any point on.
LeaderEnds ==
  /\ leader # "down" /\ restarts < MaxRestarts
  /\ leader' = "down" /\ pending' = NoWrite /\ member' = {}
  /\ handler' = [r \in Replicas |-> IF handler[r] = "none" THEN "none" ELSE "gone"]
  /\ open' = FALSE /\ request' = "none"
  /\ \E n \in 0 .. Len(replies) : replies' = SubSeq(replies, 1, n)
  /\ IF conn = None THEN UNCHANGED out
     ELSE \E n \in read .. Len(out[conn]) : out' = [out EXCEPT ![conn] = SubSeq(@, 1, n)]
  /\ UNCHANGED <<restarts, store, writes, log, joined, first, conn, follower>>

\* It starts again with the values of its RDB file.
LeaderStarts ==
  /\ leader = "down"
  /\ leader' = "up" /\ restarts' = restarts + 1
  /\ store' = Loaded /\ log' = <<>>
  /\ UNCHANGED <<writes, pending, handler, member, joined, first, out, link, follower>>

-----------------------------------------------------------------------------
(* The follower *)

\* The RDB file is loaded, and Dial succeeds.
Start(r) ==
  /\ stage = "down" /\ leader # "down" /\ handler[r] = "none"
  /\ handler' = [handler EXCEPT ![r] = "commands"]
  /\ conn' = r /\ open' = TRUE
  /\ stage' = "ask"
  /\ UNCHANGED <<leadervars, feed, request, replies, step, replica, read, rest, swallowed, torn>>

\* send: a command is written ...
Ask ==
  /\ stage = "ask"
  /\ request' = IF open THEN Handshake[step][1] ELSE "none"
  /\ stage' = "await"
  /\ UNCHANGED <<leadervars, handler, feed, conn, open, replies, step, replica, read, rest,
                 swallowed, torn>>

\* ... and a line is read.
Hear ==
  /\ stage = "await" /\ replies # <<>> /\ Head(replies) = Handshake[step][2]
  /\ replies' = Tail(replies)
  /\ IF step < Len(Handshake) THEN stage' = "ask" /\ step' = step + 1
     ELSE stage' = "rdb" /\ UNCHANGED step
  /\ UNCHANGED <<leadervars, handler, feed, conn, open, request, replica, read, rest,
                 swallowed, torn>>

\* Mutant of ReadRdb: a bufio.Reader of its own takes what follows the file.
ReadRdbAhead ==
  /\ stage = "rdb" /\ replies # <<>>
  /\ replies' = Tail(replies)
  /\ stage' = "serving"
  /\ read' = Len(out[conn])
  /\ UNCHANGED <<leadervars, handler, feed, conn, open, request, step, replica, rest,
                 swallowed, torn>>

\* DeserializeRdb, whose result is dropped; then the listener is started, and
\* clients are accepted.  If one Read does not get the whole file, its rest
\* stays in front of the commands.  In some rests the parser finds the start of
\* a line ('-'), which ends in the first command.
ReadRdb ==
  /\ stage = "rdb" /\ replies # <<>>
  /\ replies' = Tail(replies)
  /\ stage' = "serving"
  /\ rest' \in {"none", "skipped", "line"}
  /\ UNCHANGED <<leadervars, handler, feed, conn, open, request, step, replica, read,
                 swallowed, torn>>

\* What a process that ends takes with it.
Forget ==
  /\ stage' = "down" /\ conn' = None /\ open' = FALSE /\ request' = "none" /\ replies' = <<>>
  /\ step' = 1 /\ replica' = Loaded /\ read' = 0 /\ rest' = "none"
  /\ swallowed' = FALSE /\ torn' = FALSE

\* Mutant of StartFails: the end of the file is taken for the file.
StartFailsUnheard ==
  /\ stage = "await" /\ ~open /\ replies = <<>>
  /\ Forget
  /\ UNCHANGED <<leadervars, handler, feed>>

\* The connection ends before that: an error or a panic, and the process exits.
StartFails ==
  /\ stage \in {"await", "rdb"} /\ ~open /\ replies = <<>>
  /\ Forget
  /\ UNCHANGED <<leadervars, handler, feed>>

\* Mutant of HasEvent: a command is not looked at before the next one is there.
HasNextEvent == stage = "serving" /\ read + 1 < Len(out[conn])

HasEvent == stage = "serving" /\ read < Len(out[conn])

Event == out[conn][read + 1]

\* The listener runs a command on the follower's store.
Replay ==
  /\ HasEvent /\ rest # "line"
  /\ replica' = [replica EXCEPT ![Event[1]] = Run(@, Event)]
  /\ read' = read + 1 /\ rest' = "none"
  /\ UNCHANGED <<leadervars, handler, feed, link, stage, step, swallowed, torn>>

Swallow ==
  /\ HasEvent /\ rest = "line"
  /\ read' = read + 1 /\ rest' = "none" /\ swallowed' = TRUE
  /\ UNCHANGED <<leadervars, handler, feed, link, stage, step, replica, torn>>

\* Mutant of Tear: the stream is read from its start again.
TearAgain ==
  /\ HasEvent
  /\ read' = 0 /\ torn' = TRUE
  /\ UNCHANGED <<leadervars, handler, feed, link, stage, step, replica, rest, swallowed>>

\* One of the command's strings arrives in two pieces (RespWire!ShortRead): an
\* error is logged, and the command is gone.
Tear ==
  /\ HasEvent /\ rest # "line"
  /\ read' = read + 1 /\ rest' = "none" /\ torn' = TRUE
  /\ UNCHANGED <<leadervars, handler, feed, link, stage, step, replica, swallowed>>

\* The follower ends, in a panic or killed.  A handler that waits for commands notices.
FollowerEnds ==
  /\ stage # "down"
  /\ Forget
  /\ handler' = [handler EXCEPT ![conn] = IF @ = "commands" THEN "gone" ELSE @]
  /\ UNCHANGED <<leadervars, feed>>

-----------------------------------------------------------------------------
HandlerStep(r) == Answer(r) \/ WriteRdb(r) \/ Subscribe(r)
FollowerStep == Ask \/ Hear \/ ReadRdb \/ StartFails
ListenerStep == Replay \/ Swallow \/ Tear

Next ==
  \/ \E k \in Keys, op \in Ops : Write(k, op)
  \/ Publish
  \/ \E r \in Replicas : Answer(r) \/ WriteRdb(r) \/ Subscribe(r) \/ Deliver(r) \/ Depart(r) \/ Wedge(r)
  \/ LeaderEnds \/ LeaderStarts
  \/ \E r \in Replicas : Start(r)
  \/ Ask \/ Hear \/ ReadRdb \/ StartFails
  \/ Replay \/ Swallow \/ Tear
  \/ FollowerEnds

\* Every goroutine that can go on does, and TCP delivers.  Nothing obliges a
\* client to write or a process to start or to end.
Fairness ==
  /\ WF_vars(Publish)
  /\ \A r \in Replicas : WF_vars(HandlerStep(r)) /\ WF_vars(Deliver(r) \/ Depart(r))
  /\ WF_vars(FollowerStep) /\ WF_vars(ListenerStep)

Spec == Init /\ [][Next]_vars /\ Fairness

-----------------------------------------------------------------------------
(* Properties *)

\* What the commands of a log from place i to place j make of a loaded key.
Sets(l, k, i, j) == {p \in i .. j : l[p][1] = k /\ l[p][3] # "incr"}
Incrs(l, k, i, j) == {p \in i .. j : l[p][1] = k /\ l[p][3] = "incr"}
FromSet(l, k, p, j) ==
  [set |-> l[p][2], by |-> l[p][3],
   incrs |-> IF l[p][3] = "set" THEN Cardinality(Incrs(l, k, p, j)) ELSE 0]
Made(l, k, i, j) ==
  IF Sets(l, k, i, j) = {} THEN [LoadedValue EXCEPT !.incrs = Cardinality(Incrs(l, k, i, j))]
  ELSE FromSet(l, k, CHOOSE p \in Sets(l, k, i, j) : \A h \in Sets(l, k, i, j) : h <= p, j)

CaughtUp ==
  /\ stage = "serving" /\ open /\ conn \in member /\ pending = NoWrite
  /\ B!Position(conn) = Len(log) /\ read = Len(out[conn])

\* A follower that has caught up has of every key what the commands since its
\* handler subscribed make of it, and nothing of the commands before, although
\* the RDB file it was sent is meant for that: a write between WriteRdb and
\* Subscribe is missing for good, too, even if clients were being served by then.
\* So it has the leader's value of a key that was SET since, but not of one that
\* was only incremented since: after SET foo 100 before and INCR foo after, the
\* leader has 101 and the follower, which runs the INCR itself, 1.  An RDB file
\* that is read in part costs the first command at most.
AgreesOnWhatFollows ==
  CaughtUp /\ ~torn =>
    LET start == first[conn] + (IF swallowed THEN 2 ELSE 1)
    IN \A k \in Keys :
         /\ replica[k] = Made(log, k, start, Len(log))
         /\ Sets(log, k, start, Len(log)) # {} => replica[k] = store[k]

\* A value stems from an older SET than another, or from the same one with as
\* many INCRs at most.
NotNewer(v, w) == v.set < w.set \/ (v.set = w.set /\ v.incrs <= w.incrs)

\* While the connection to its leader exists, a follower has of no key more than
\* its leader: not a later SET, and of the same one not more INCRs, whatever was
\* torn, skipped or swallowed and however often either was started again.  What it
\* shows may still be a value the leader never had (1, where that had 100 and 101).
NeverAhead ==
  stage = "serving" /\ open => \A k \in Keys : NotNewer(replica[k], store[k])

\* A client that stays with one follower never sees a key go back to an earlier
\* SET, or lose an INCR, the leader's end and restart included.
NeverGoesBack ==
  [][conn # None /\ conn' = conn => \A k \in Keys : NotNewer(replica[k], replica'[k])]_vars

\* A follower that dials gets to serve its clients or exits, also if the leader
\* ends in the middle of the handshake or its fan-out is stuck.
StartEnds == stage = "ask" ~> stage \in {"serving", "down"}

\* A follower that serves gets subscribed, and every write that is fanned out from
\* then on gets to its listener, unless one of the two processes ends or the
\* leader's fan-out is stuck.
CatchesUp ==
  \A r \in Replicas :
    LET Lost == leader # "up" \/ ~Connected(r) IN
    /\ (stage = "serving" /\ Connected(r)) ~> (r \in joined \/ Lost)
    /\ \A n \in 1 .. MaxWrites :
         (stage = "serving" /\ Connected(r) /\ r \in member /\ Len(log) >= first[r] + n)
           ~> (read >= n \/ Lost)

=============================================================================
