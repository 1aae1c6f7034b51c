---------------------------- MODULE CommandServer ----------------------------
(***************************************************************************)
(* The leader's command processing: handleConnection (app/server.go), the  *)
(* dispatch of HandleCommand with its transaction queues (app/cmd/main.go),*)
(* MULTI, EXEC and DISCARD, and the handlers of SET, INCR, GET, TYPE and   *)
(* XADD (app/cmd/*.go).  Every connection is a goroutine; a handler's      *)
(* accesses to the store, to the transaction queues and to the replication *)
(* channel are separate steps, because the code takes a lock for each of   *)
(* them and none for the whole command.                                    *)
(*                                                                         *)
(* A key holds nothing, an integer, another text, or a stream, and it may  *)
(* have a deadline.  The clock is left out: whoever looks at a deadline    *)
(* may find it over or not, on the leader and on a replica each with its   *)
(* own.  The two steps of Store.Get on a deadline that is over are the     *)
(* subject of KvStore, the ids of streams of StreamStore, and what happens *)
(* behind the channel of PubSub.                                           *)
(***************************************************************************)
EXTENDS Integers, Sequences

CONSTANTS
  Conns,       \* client connections
  NilId,       \* the zero uuid.UUID
  NoQueue,     \* an id that is not in TxQueue
  Keys,
  Absent, Text, Strm,   \* a key not in the store, a string that is no integer, a stream
  Ops,         \* the commands clients use: a subset of AllOps
  Numbers,     \* the integers clients write with SET
  MaxInt,      \* the largest value of Go's int
  MaxCmds      \* bound: the commands the connections send together

AllOps == {"multi", "exec", "discard", "set", "incr", "get", "type", "xadd", "unknown"}

ASSUME ServerConstants ==
  /\ NilId \notin Conns
  /\ Ops \subseteq AllOps
  /\ MaxInt \in Nat \ {0} /\ Numbers \subseteq 0 .. MaxInt
  /\ MaxCmds \in Nat
  /\ Absent # Text /\ Absent # Strm /\ Text # Strm
  /\ \A n \in (-MaxInt - 1) .. MaxInt : n \notin {Absent, Text, Strm}

VARIABLES
  txq,        \* h.TxQueue: the queue under an id, or NoQueue
  store,      \* what KvStore holds under a key
  timed,      \* the keys with a deadline
  pc,         \* the point of handleConnection a goroutine is at
  cur,        \* the command it handles
  inExec,     \* whether that is in the loop of HandleExec
  rest,       \* the commands that loop has not reached
  newval,     \* HandleIncr's newval
  crashed,    \* a panic or a map race ended the process
  \* history
  mirror,     \* the store of a replica that applied all published commands
  mtimed,     \* the keys with a deadline there
  overlap,    \* the keys on which two commands of two connections overlapped
  expired,    \* the keys whose deadline was found over, here or there
  count,      \* the commands sent so far
  inMulti,    \* the client's view: MULTI sent, and no EXEC or DISCARD since
  asked,      \* the commands it sent inside the MULTI
  ran,        \* the commands the loop of HandleExec has reached
  nested      \* a client has sent MULTI inside MULTI

history == <<mirror, mtimed, overlap, expired, count, inMulti, asked, ran, nested>>
vars == <<txq, store, timed, pc, cur, inExec, rest, newval, crashed, history>>

NoCmd == [op |-> "none"]
Ints == (-MaxInt - 1) .. MaxInt
Points == {"read", "dispatch", "enqueue", "next", "incrset", "publish", "closed"} \cup AllOps
Commands ==
  [op: Ops \cap {"multi", "exec", "discard", "unknown"}]
    \cup [op: Ops \cap {"incr", "get", "type", "xadd"}, key: Keys]
    \cup [op: Ops \cap {"set"}, key: Keys, val: Numbers \cup {Text}, px: {"none", "ms", "bad"}]

ASSUME QueueConstants == NoQueue \notin Seq(Commands)

\* Mutant of Id: no context has its connection's id.
IdNil(c) == NilId

\* ctx.ConnId: HandleExec leaves it out of the contexts it makes.
Id(c) == IF inExec[c] THEN NilId ELSE c

IsInTransaction(id) == txq[id] # NoQueue

Init ==
  /\ txq = [id \in Conns \cup {NilId} |-> NoQueue]
  /\ store = [k \in Keys |-> Absent]
  /\ timed = {}
  /\ pc = [c \in Conns |-> "read"]
  /\ cur = [c \in Conns |-> NoCmd]
  /\ inExec = [c \in Conns |-> FALSE]
  /\ rest = [c \in Conns |-> <<>>]
  /\ newval = [c \in Conns |-> 0]
  /\ crashed = FALSE
  /\ mirror = [k \in Keys |-> Absent]
  /\ mtimed = {}
  /\ overlap = {}
  /\ expired = {}
  /\ count = 0
  /\ inMulti = [c \in Conns |-> FALSE]
  /\ asked = [c \in Conns |-> <<>>]
  /\ ran = [c \in Conns |-> <<>>]
  /\ nested = FALSE

-----------------------------------------------------------------------------
(* The connection *)

\* The loop of handleConnection parses a command.
Receive(c, cmd) ==
  /\ ~crashed
  /\ pc[c] = "read" /\ count < MaxCmds
  /\ nested' = (nested \/ (cmd.op = "multi" /\ inMulti[c]))
  /\ pc' = [pc EXCEPT ![c] = "dispatch"]
  /\ cur' = [cur EXCEPT ![c] = cmd]
  /\ count' = count + 1
  /\ \/ /\ cmd.op = "multi" /\ ~inMulti[c]
        /\ inMulti' = [inMulti EXCEPT ![c] = TRUE]
        /\ asked' = [asked EXCEPT ![c] = <<>>]
     \/ /\ cmd.op \in {"exec", "discard"}
        /\ inMulti' = [inMulti EXCEPT ![c] = FALSE]
        /\ UNCHANGED asked
     \/ /\ cmd.op \notin {"exec", "discard"} /\ (cmd.op = "multi" => inMulti[c])
        /\ asked' = IF inMulti[c] THEN [asked EXCEPT ![c] = Append(@, cmd)] ELSE asked
        /\ UNCHANGED inMulti
  /\ UNCHANGED <<txq, store, timed, inExec, rest, newval, crashed, mirror, mtimed, overlap,
                 expired, ran>>

\* The client goes away.  Its queue, if it has one, stays.
Eof(c) ==
  /\ ~crashed
  /\ pc[c] = "read"
  /\ pc' = [pc EXCEPT ![c] = "closed"]
  /\ UNCHANGED <<txq, store, timed, cur, inExec, rest, newval, crashed, history>>

\* Where a goroutine goes on after HandleCommand has a reply, and after it has
\* an error: the next command of HandleExec or of the client; the end of the
\* connection, whatever HandleExec had still to do.
Replied(c) == pc' = [pc EXCEPT ![c] = IF inExec[c] THEN "next" ELSE "read"]
Failed(c) == pc' = [pc EXCEPT ![c] = "closed"]

\* The locks of h.mu and of the store are taken for one of these at a time.
Goto(c, where) == pc' = [pc EXCEPT ![c] = where]

\* HandleCommand up to its first shared access after the look at TxQueue.
Dispatch(c) ==
  LET op == cur[c].op
      queued == IsInTransaction(Id(c))
  IN /\ ~crashed
     /\ pc[c] = "dispatch"
     /\ \/ queued /\ op \notin {"exec", "discard"} /\ Goto(c, "enqueue")
        \/ queued /\ op \in {"exec", "discard"} /\ Goto(c, op)
        \/ ~queued /\ op \in {"exec", "discard"} /\ Replied(c)
        \/ ~queued /\ op \notin {"exec", "discard"} /\ Goto(c, op)
     /\ UNCHANGED <<txq, store, timed, cur, inExec, rest, newval, crashed, history>>

-----------------------------------------------------------------------------
(* Transactions *)

Queued(queue, cmd) == Append(queue, cmd)

\* QueueCommand; its error is ignored.
QueueCommand(c) ==
  /\ ~crashed
  /\ pc[c] = "enqueue"
  /\ txq' = IF txq[Id(c)] = NoQueue THEN txq
            ELSE [txq EXCEPT ![Id(c)] = Queued(@, cur[c])]
  /\ Replied(c)
  /\ UNCHANGED <<store, timed, cur, inExec, rest, newval, crashed, history>>

BeginTransaction(c) ==
  /\ ~crashed
  /\ pc[c] = "multi"
  /\ txq' = [txq EXCEPT ![Id(c)] = <<>>]
  /\ Replied(c)
  /\ UNCHANGED <<store, timed, cur, inExec, rest, newval, crashed, history>>

\* ConsumeTransactionQueue as HandleExec calls it; a queue that is not there
\* is nil, and has nothing to run.
ExecConsume(c) ==
  /\ ~crashed
  /\ pc[c] = "exec"
  /\ rest' = [rest EXCEPT ![c] = IF txq[Id(c)] = NoQueue THEN <<>> ELSE txq[Id(c)]]
  /\ txq' = [txq EXCEPT ![Id(c)] = NoQueue]
  /\ inExec' = [inExec EXCEPT ![c] = TRUE]
  /\ ran' = [ran EXCEPT ![c] = <<>>]
  /\ Goto(c, "next")
  /\ UNCHANGED <<store, timed, cur, newval, crashed, mirror, mtimed, overlap, expired, count,
                 inMulti, asked, nested>>

\* The loop of HandleExec takes a command, or ends with the reply.
ExecNext(c) ==
  /\ ~crashed
  /\ pc[c] = "next" /\ rest[c] # <<>>
  /\ cur' = [cur EXCEPT ![c] = Head(rest[c])]
  /\ ran' = [ran EXCEPT ![c] = Append(@, Head(rest[c]))]
  /\ rest' = [rest EXCEPT ![c] = Tail(@)]
  /\ Goto(c, "dispatch")
  /\ UNCHANGED <<txq, store, timed, inExec, newval, crashed, mirror, mtimed, overlap, expired,
                 count, inMulti, asked, nested>>

ExecEnd(c) ==
  /\ ~crashed
  /\ pc[c] = "next" /\ rest[c] = <<>>
  /\ inExec' = [inExec EXCEPT ![c] = FALSE]
  /\ Goto(c, "read")
  /\ UNCHANGED <<txq, store, timed, cur, rest, newval, crashed, history>>

\* Mutant of Discard: the queue is emptied but stays.
DiscardClears(c) ==
  /\ ~crashed
  /\ pc[c] = "discard"
  /\ txq' = [txq EXCEPT ![Id(c)] = <<>>]
  /\ Replied(c)
  /\ UNCHANGED <<store, timed, cur, inExec, rest, newval, crashed, history>>

Discard(c) ==
  /\ ~crashed
  /\ pc[c] = "discard"
  /\ txq' = [txq EXCEPT ![Id(c)] = NoQueue]
  /\ Replied(c)
  /\ UNCHANGED <<store, timed, cur, inExec, rest, newval, crashed, history>>

-----------------------------------------------------------------------------
(* Commands on the store *)

\* A command of another connection is between its first access to the key and
\* the end of its send to EventsChannel.
Busy(c, k) ==
  \E d \in Conns \ {c} : pc[d] \in {"incrset", "publish"} /\ cur[d].key = k

NoteOverlap(c, k) == overlap' = IF Busy(c, k) THEN overlap \cup {k} ELSE overlap

\* The keys with a deadline after a SET: without px an earlier one stays.
Timed(keys, cmd) == IF cmd.px = "ms" THEN keys \cup {cmd.key} ELSE keys

\* HandleSet's call of Store.Set.
Set(c) ==
  LET k == cur[c].key IN
  /\ ~crashed
  /\ pc[c] = "set" /\ cur[c].px # "bad"
  /\ store' = [store EXCEPT ![k] = cur[c].val]
  /\ timed' = Timed(timed, cur[c])
  /\ NoteOverlap(c, k)
  /\ Goto(c, "publish")
  /\ UNCHANGED <<txq, cur, inExec, rest, newval, crashed, mirror, mtimed, expired, count,
                 inMulti, asked, ran, nested>>

\* HandleSet returns an error for a px that is no integer.
SetBadPx(c) ==
  /\ ~crashed
  /\ pc[c] = "set" /\ cur[c].px = "bad"
  /\ Failed(c)
  /\ UNCHANGED <<txq, store, timed, cur, inExec, rest, newval, crashed, history>>

\* Store.Get finds a deadline over: it drops the deadline, keeps the value, and
\* answers that there is none; or it does not, and answers what is there.
FindsOver(k) == k \in timed /\ timed' = timed \ {k} /\ expired' = expired \cup {k}
FindsValue == UNCHANGED <<timed, expired>>

\* Mutant of Succ: no end to the integers.
SuccUnbounded(n) == n + 1

\* Addition in Go's int.
Succ(n) == IF n = MaxInt THEN -MaxInt - 1 ELSE n + 1

\* HandleIncr up to its call of Store.Set: a value that is no integer is an
\* error reply, a stream an error that ends the connection.
IncrGet(c) ==
  LET k == cur[c].key IN
  /\ ~crashed
  /\ pc[c] = "incr"
  /\ NoteOverlap(c, k)
  /\ \/ /\ FindsOver(k) \/ (FindsValue /\ store[k] = Absent)
        /\ newval' = [newval EXCEPT ![c] = 1]
        /\ Goto(c, "incrset")
     \/ /\ FindsValue /\ store[k] \in Ints
        /\ newval' = [newval EXCEPT ![c] = Succ(store[k])]
        /\ Goto(c, "incrset")
     \/ FindsValue /\ store[k] = Text /\ Replied(c) /\ UNCHANGED newval
     \/ FindsValue /\ store[k] = Strm /\ Failed(c) /\ UNCHANGED newval
  /\ UNCHANGED <<txq, store, cur, inExec, rest, crashed, mirror, mtimed, count, inMulti, asked,
                 ran, nested>>

\* Mutant of IncrSet: the command is not published.
IncrSetOnly(c) ==
  LET k == cur[c].key IN
  /\ ~crashed
  /\ pc[c] = "incrset"
  /\ store' = [store EXCEPT ![k] = newval[c]]
  /\ NoteOverlap(c, k)
  /\ Replied(c)
  /\ UNCHANGED <<txq, timed, cur, inExec, rest, newval, crashed, mirror, mtimed, expired,
                 count, inMulti, asked, ran, nested>>

IncrSet(c) ==
  LET k == cur[c].key IN
  /\ ~crashed
  /\ pc[c] = "incrset"
  /\ store' = [store EXCEPT ![k] = newval[c]]
  /\ NoteOverlap(c, k)
  /\ Goto(c, "publish")
  /\ UNCHANGED <<txq, timed, cur, inExec, rest, newval, crashed, mirror, mtimed, expired,
                 count, inMulti, asked, ran, nested>>

\* What a replica's handler of a published command makes of its store, unless it
\* finds the key's deadline over.
Replayed(m, cmd) ==
  LET k == cmd.key IN
  IF cmd.op = "set" THEN [m EXCEPT ![k] = cmd.val]
  ELSE IF m[k] = Absent THEN [m EXCEPT ![k] = 1]
  ELSE IF m[k] \in Ints THEN [m EXCEPT ![k] = Succ(@)]
  ELSE m

\* The send to EventsChannel: it meets the receive of the fan-out, which hands
\* the command to the replicas in this order.  There, too, INCR reads through
\* Store.Get.
Publish(c) ==
  LET k == cur[c].key IN
  /\ ~crashed
  /\ pc[c] = "publish"
  /\ \/ /\ mirror' = Replayed(mirror, cur[c])
        /\ mtimed' = IF cur[c].op = "set" THEN Timed(mtimed, cur[c]) ELSE mtimed
        /\ UNCHANGED expired
     \/ /\ cur[c].op = "incr" /\ k \in mtimed
        /\ mirror' = [mirror EXCEPT ![k] = 1]
        /\ mtimed' = mtimed \ {k}
        /\ expired' = expired \cup {k}
  /\ Replied(c)
  /\ UNCHANGED <<txq, store, timed, cur, inExec, rest, newval, crashed, overlap, count,
                 inMulti, asked, ran, nested>>

\* A client of the replica reads a key whose deadline is over there.
ReplicaGet(k) ==
  /\ k \in mtimed
  /\ mtimed' = mtimed \ {k}
  /\ expired' = expired \cup {k}
  /\ UNCHANGED <<txq, store, timed, pc, cur, inExec, rest, newval, crashed, mirror, overlap,
                 count, inMulti, asked, ran, nested>>

\* HandleGet fails on a stream.
Get(c) ==
  LET k == cur[c].key IN
  /\ ~crashed
  /\ pc[c] = "get"
  /\ \/ FindsOver(k) /\ Replied(c)
     \/ FindsValue /\ store[k] # Strm /\ Replied(c)
     \/ FindsValue /\ store[k] = Strm /\ Failed(c)
  /\ UNCHANGED <<txq, store, cur, inExec, rest, newval, crashed, mirror, mtimed, overlap,
                 count, inMulti, asked, ran, nested>>

\* HandleType answers for every value.
Type(c) ==
  /\ ~crashed
  /\ pc[c] = "type"
  /\ FindsOver(cur[c].key) \/ FindsValue
  /\ Replied(c)
  /\ UNCHANGED <<txq, store, cur, inExec, rest, newval, crashed, mirror, mtimed, overlap,
                 count, inMulti, asked, ran, nested>>

\* HandleXAdd makes a stream of a key that holds nothing, replies with an error
\* for a string, and publishes nothing.
XAdd(c) ==
  LET k == cur[c].key IN
  /\ ~crashed
  /\ pc[c] = "xadd"
  /\ store' = IF store[k] = Absent THEN [store EXCEPT ![k] = Strm] ELSE store
  /\ Replied(c)
  /\ UNCHANGED <<txq, timed, cur, inExec, rest, newval, crashed, history>>

-----------------------------------------------------------------------------
(* The end of the process *)

\* HandleCommand panics on a command it does not know.
Unknown(c) ==
  /\ ~crashed
  /\ pc[c] = "unknown"
  /\ crashed' = TRUE
  /\ UNCHANGED <<txq, store, timed, pc, cur, inExec, rest, newval, history>>

\* IsInTransaction reads TxQueue without h.mu while another goroutine writes it.
TxQueueRace(c, d) ==
  /\ ~crashed
  /\ pc[c] = "dispatch" /\ pc[d] \in {"enqueue", "multi", "exec", "discard"}
  /\ crashed' = TRUE
  /\ UNCHANGED <<txq, store, timed, pc, cur, inExec, rest, newval, history>>

Step(c) ==
  \/ \E cmd \in Commands : Receive(c, cmd)
  \/ Eof(c) \/ Dispatch(c)
  \/ QueueCommand(c) \/ BeginTransaction(c) \/ Discard(c)
  \/ ExecConsume(c) \/ ExecNext(c) \/ ExecEnd(c)
  \/ Set(c) \/ SetBadPx(c) \/ IncrGet(c) \/ IncrSet(c) \/ Publish(c)
  \/ Get(c) \/ Type(c) \/ XAdd(c)
  \/ Unknown(c) \/ \E d \in Conns : TxQueueRace(c, d)

Next == (\E c \in Conns : Step(c)) \/ (\E k \in Keys : ReplicaGet(k))

Spec == Init /\ [][Next]_vars

-----------------------------------------------------------------------------
(* Properties *)

\* Every variable stays in its set; integers stay in Go's int.
TypeOK ==
  /\ txq \in [Conns \cup {NilId} -> {NoQueue} \cup Seq(Commands)]
  /\ store \in [Keys -> Ints \cup {Absent, Text, Strm}]
  /\ timed \subseteq Keys
  /\ pc \in [Conns -> Points]
  /\ cur \in [Conns -> Commands \cup {NoCmd}]
  /\ inExec \in [Conns -> BOOLEAN]
  /\ rest \in [Conns -> Seq(Commands)]
  /\ newval \in [Conns -> Ints]
  /\ crashed \in BOOLEAN
  /\ mirror \in [Keys -> Ints \cup {Absent, Text}]
  /\ mtimed \subseteq Keys
  /\ overlap \subseteq Keys
  /\ expired \subseteq Keys
  /\ count \in 0 .. MaxCmds
  /\ inMulti \in [Conns -> BOOLEAN]
  /\ asked \in [Conns -> Seq(Commands)]
  /\ ran \in [Conns -> Seq(Commands)]
  /\ nested \in BOOLEAN

\* A replica that applies the published commands has the leader's value of
\* every key on which no two connections' commands overlapped and whose deadline
\* nobody found over, or will have it with the command about to be published:
\* whatever transactions, errors and lost connections there are, nothing is
\* applied without being published.  Where a deadline is found over they part
\* for good: Store.Get drops it on the side that reads, GET is not published, and
\* the value survives (after SET k 5 px 100, a GET of k on the leader past the
\* deadline, and INCR k, the leader has 6 and the replica 1).  Streams are left
\* out, as XADD publishes nothing.
ReplayAgreesUnlessOverlap ==
  \A k \in Keys \ (overlap \cup expired) :
    LET pending == {c \in Conns : pc[c] = "publish" /\ cur[c].key = k}
    IN \/ store[k] = Strm
       \/ pending = {} /\ mirror[k] = store[k]
       \/ \E c \in pending : Replayed(mirror, cur[c])[k] = store[k]

\* The queue of a connection is what the client sent since its MULTI, in order
\* and whatever other connections do; an EXEC goes through exactly that; and
\* without a MULTI there is no queue.
TxExact ==
  \A c \in Conns :
    /\ pc[c] = "read" => txq[c] = IF inMulti[c] THEN asked[c] ELSE NoQueue
    /\ inExec[c] /\ pc[c] # "closed" => ran[c] \o rest[c] = asked[c]

\* The commands EXEC goes through are executed, not queued again, until some
\* client sends MULTI inside MULTI: that opens a queue under the zero id, and every
\* later EXEC of every connection puts its commands there (exec.go:18).
ExecRunsQueued == nested \/ \A c \in Conns : inExec[c] => pc[c] # "enqueue"
=============================================================================
