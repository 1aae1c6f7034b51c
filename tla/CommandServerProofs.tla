------------------------- MODULE CommandServerProofs -------------------------
(***************************************************************************)
(* Proofs about CommandServer, for any connections, keys, commands and     *)
(* numbers, any number of commands and every size of Go's int.             *)
(***************************************************************************)
EXTENDS CommandServer, SequenceTheorems, TLAPS

\* The commands a transaction can hold: no EXEC, no DISCARD, and a MULTI only if
\* some client nested it.
Queueable ==
  {cmd \in Commands : cmd.op \notin {"exec", "discard"} /\ (cmd.op = "multi" => nested)}

QueueInv ==
  /\ asked \in [Conns -> Seq(Queueable)]
  /\ rest \in [Conns -> Seq(Queueable)]
  /\ ran \in [Conns -> Seq(Queueable)]
  /\ txq \in [Conns \cup {NilId} -> {NoQueue} \cup Seq(Queueable)]
  /\ nested \/ txq[NilId] = NoQueue

\* A goroutine is in the handler of the command it has.
PcInv ==
  \A c \in Conns :
    /\ pc[c] \notin {"read", "next", "closed"} => cur[c] \in Commands
    /\ pc[c] \in AllOps => cur[c].op = pc[c]
    /\ pc[c] = "incrset" => cur[c].op = "incr"
    /\ pc[c] = "publish" => cur[c].op \in {"set", "incr"}

\* A command read inside a MULTI is the one thing the client has asked for that
\* is not in the queue yet; a command is handled only without a queue.
ClientInv(c) ==
  ~inExec[c] =>
    /\ pc[c] = "read" => txq[c] = IF inMulti[c] THEN asked[c] ELSE NoQueue
    /\ pc[c] = "dispatch" /\ cur[c].op \in {"exec", "discard"} =>
         ~inMulti[c] /\ txq[c] \in {NoQueue, asked[c]}
    /\ pc[c] = "dispatch" /\ cur[c].op \notin {"exec", "discard"} =>
         IF txq[c] = NoQueue
         THEN inMulti[c] = (cur[c].op = "multi") /\ (inMulti[c] => asked[c] = <<>>)
         ELSE inMulti[c] /\ asked[c] = Append(txq[c], cur[c])
    /\ pc[c] = "enqueue" =>
         inMulti[c] /\ txq[c] # NoQueue /\ asked[c] = Append(txq[c], cur[c])
    /\ pc[c] = "multi" => inMulti[c] /\ asked[c] = <<>>
    /\ pc[c] = "exec" => ~inMulti[c] /\ txq[c] = asked[c]
    /\ pc[c] = "discard" => ~inMulti[c]
    /\ pc[c] \in {"set", "incr", "get", "type", "xadd", "incrset", "publish"} =>
         ~inMulti[c] /\ txq[c] = NoQueue
    /\ pc[c] # "next"

\* In the loop of HandleExec there is no queue, and the loop has the rest of
\* what the client asked for.
ExecInv(c) ==
  inExec[c] /\ pc[c] # "closed" =>
    /\ pc[c] \notin {"read", "exec", "discard"}
    /\ ~inMulti[c] /\ txq[c] = NoQueue
    /\ ran[c] \o rest[c] = asked[c]
    /\ pc[c] # "next" => cur[c] \in Queueable
    /\ pc[c] = "enqueue" => nested

TxInv == QueueInv /\ PcInv /\ \A c \in Conns : ClientInv(c) /\ ExecInv(c)

\* On a key without overlapping commands, whose deadline nobody found over, one
\* connection at most has a command to publish; the store is one command ahead of the replicas, the value INCR
\* is about to store is what the replicas will compute, and a stream is where
\* the replicas have nothing.
HotAt(c, k) == pc[c] \in {"incrset", "publish"} /\ cur[c].key = k
AgreeInv(k) ==
  /\ \A c, d \in Conns : HotAt(c, k) /\ HotAt(d, k) => c = d
  /\ \A c \in Conns : pc[c] = "incrset" /\ cur[c].key = k => newval[c] = Replayed(mirror, cur[c])[k]
  /\ \A c \in Conns : pc[c] = "publish" /\ cur[c].key = k => store[k] = Replayed(mirror, cur[c])[k]
  /\ \/ \E c \in Conns : pc[c] = "publish" /\ cur[c].key = k
     \/ mirror[k] = IF store[k] = Strm THEN Absent ELSE store[k]

StoreInv == \A k \in Keys \ (overlap \cup expired) : AgreeInv(k)

IInv == TypeOK /\ TxInv /\ StoreInv

-----------------------------------------------------------------------------
\* What the assumptions say of the values and the names.
LEMMA ConstantTypes ==
  /\ Ints \subseteq Int /\ 0 \in Ints /\ 1 \in Ints
  /\ Numbers \subseteq Ints
  /\ Absent \notin Ints /\ Text \notin Ints /\ Strm \notin Ints
  /\ Absent # Text /\ Absent # Strm /\ Text # Strm
  /\ NilId \notin Conns /\ Ops \subseteq AllOps
BY ServerConstants DEF Ints

\* The fields of a command are where Commands puts them.
LEMMA CommandFields ==
  ASSUME NEW cmd \in Commands
  PROVE  /\ cmd.op \in AllOps
         /\ cmd.op \in {"incr", "get", "type", "xadd", "set"} => cmd.key \in Keys
         /\ cmd.op = "set" => cmd.val \in Numbers \cup {Text}
BY ConstantTypes DEF Commands

\* The successor of an int, which wraps around, is an int.
LEMMA SuccType ==
  ASSUME NEW n \in Ints
  PROVE  Succ(n) \in Ints
BY ServerConstants DEF Succ, Ints

\* What a replica makes of a published command, and what it leaves alone.
LEMMA ReplayedType ==
  ASSUME NEW m \in [Keys -> Ints \cup {Absent, Text}], NEW cmd \in Commands,
         cmd.op \in {"set", "incr"}
  PROVE  /\ Replayed(m, cmd) \in [Keys -> Ints \cup {Absent, Text}]
         /\ Replayed(m, cmd)[cmd.key] \in Ints \cup {Text}
         /\ \A k \in Keys : k # cmd.key => Replayed(m, cmd)[k] = m[k]
<1>1. cmd.key \in Keys /\ (cmd.op = "set" => cmd.val \in Ints \cup {Text})
  BY CommandFields, ConstantTypes
<1>2. m[cmd.key] \in Ints => Succ(m[cmd.key]) \in Ints
  BY SuccType
<1> QED
  BY <1>1, <1>2, ConstantTypes DEF Replayed

\* What it makes of the key depends on what it has there only.
LEMMA ReplayedSame ==
  ASSUME NEW m \in [Keys -> Ints \cup {Absent, Text}], NEW n \in [Keys -> Ints \cup {Absent, Text}],
         NEW cmd \in Commands, cmd.op \in {"set", "incr"}, m[cmd.key] = n[cmd.key]
  PROVE  Replayed(m, cmd)[cmd.key] = Replayed(n, cmd)[cmd.key]
<1>1. cmd.key \in Keys
  BY CommandFields
<1> QED
  BY <1>1 DEF Replayed

\* NoQueue, the absence of a transaction, is not a queue.
LEMMA NotAQueue == NoQueue # <<>> /\ \A s \in Seq(Queueable) : s # NoQueue
<1>1. Queueable \subseteq Commands
  BY DEF Queueable
<1>2. \A s \in Seq(Queueable) : s \in Seq(Commands)
  BY <1>1, SeqMonotonic
<1>3. <<>> \in Seq(Commands)
  BY EmptySeq
<1> QED
  BY <1>2, <1>3, QueueConstants

\* The loop of HandleExec moves a command over.
LEMMA MoveHead ==
  ASSUME NEW S, NEW s \in Seq(S), NEW t \in Seq(S), t # <<>>
  PROVE  /\ Head(t) \in S /\ Tail(t) \in Seq(S) /\ Append(s, Head(t)) \in Seq(S)
         /\ Append(s, Head(t)) \o Tail(t) = s \o t
<1>1. Head(t) \in S /\ Tail(t) \in Seq(S)
  BY HeadTailProperties
<1>2. Append(s, Head(t)) \in Seq(S)
  BY <1>1, AppendProperties
<1>3. Append(s, Head(t)) \o Tail(t) = s \o t
  BY SMTT(30)
<1> QED
  BY <1>1, <1>2, <1>3

-----------------------------------------------------------------------------
\* The inductive invariant holds at the start.
LEMMA InitIInv == Init => IInv
<1> SUFFICES ASSUME Init PROVE IInv
  OBVIOUS
<1>1. <<>> \in Seq(Commands) /\ <<>> \in Seq(Queueable)
  BY EmptySeq
<1>2. TypeOK
  <2>1. count \in 0 .. MaxCmds /\ newval \in [Conns -> Ints]
    BY ServerConstants, ConstantTypes DEF Init
  <2>2. pc \in [Conns -> Points]
    BY DEF Init, Points
  <2> QED
    BY <1>1, <2>1, <2>2 DEF Init, TypeOK
<1>3. TxInv
  BY <1>1, ConstantTypes DEF Init, TxInv, QueueInv, PcInv, ClientInv, ExecInv, AllOps
<1>4. StoreInv
  BY ConstantTypes DEF Init, StoreInv, AgreeInv, HotAt
<1> QED
  BY <1>2, <1>3, <1>4 DEF IInv

\* Whatever a read finds of a deadline, the keys stay keys.
LEMMA FoundType ==
  ASSUME TypeOK, NEW k \in Keys, FindsOver(k) \/ FindsValue
  PROVE  timed' \subseteq Keys /\ expired' \subseteq Keys
BY DEF TypeOK, FindsOver, FindsValue

\* Every step keeps TypeOK.
LEMMA NextType == TypeOK /\ PcInv /\ [Next]_vars => TypeOK'
<1> SUFFICES ASSUME TypeOK, PcInv, [Next]_vars PROVE TypeOK'
  OBVIOUS
<1> USE DEF history, Goto, Replied, Failed
<1>0. AllOps \subseteq Points /\ {"read", "dispatch", "enqueue", "next", "incrset", "publish", "closed"} \subseteq Points
  BY DEF Points
<1>1. ASSUME NEW c \in Conns, NEW cmd \in Commands, Receive(c, cmd)
      PROVE  TypeOK'
  <2>1. count' \in 0 .. MaxCmds
    BY <1>1, ServerConstants DEF Receive, TypeOK
  <2>2. Append(asked[c], cmd) \in Seq(Commands) /\ <<>> \in Seq(Commands)
    BY AppendProperties, EmptySeq DEF TypeOK
  <2>3. asked' \in [Conns -> Seq(Commands)] /\ inMulti' \in [Conns -> BOOLEAN]
    BY <1>1, <2>2, ZenonT(60) DEF Receive, TypeOK
  <2>4. nested' \in BOOLEAN
    BY <1>1 DEF Receive
  <2> QED
    BY <1>0, <1>1, <2>1, <2>3, <2>4 DEF Receive, TypeOK
<1>2. ASSUME NEW c \in Conns, Eof(c) \/ Dispatch(c) \/ SetBadPx(c) \/ ExecEnd(c)
      PROVE  TypeOK'
  <2>1. pc' \in [Conns -> Points]
    BY <1>0, <1>2, CommandFields, ZenonT(60) DEF Eof, Dispatch, SetBadPx, ExecEnd, TypeOK, PcInv
  <2> QED
    BY <1>2, <2>1 DEF Eof, Dispatch, SetBadPx, ExecEnd, TypeOK
<1>3. ASSUME NEW c \in Conns, QueueCommand(c) \/ BeginTransaction(c) \/ Discard(c)
      PROVE  TypeOK'
  <2>1. Id(c) \in Conns \cup {NilId}
    BY DEF Id
  <2>2. pc[c] = "enqueue" /\ txq[Id(c)] # NoQueue => Queued(txq[Id(c)], cur[c]) \in Seq(Commands)
    BY <2>1, AppendProperties DEF Queued, TypeOK, PcInv
  <2>3. <<>> \in Seq(Commands)
    BY EmptySeq
  <2>4. txq' \in [Conns \cup {NilId} -> {NoQueue} \cup Seq(Commands)]
    BY <1>3, <2>2, <2>3 DEF QueueCommand, BeginTransaction, Discard, TypeOK
  <2>5. pc' \in [Conns -> Points]
    BY <1>0, <1>3 DEF QueueCommand, BeginTransaction, Discard, TypeOK
  <2> QED
    BY <1>3, <2>4, <2>5 DEF QueueCommand, BeginTransaction, Discard, TypeOK
<1>4. ASSUME NEW c \in Conns, ExecConsume(c)
      PROVE  TypeOK'
  <2>1. Id(c) \in Conns \cup {NilId} /\ <<>> \in Seq(Commands)
    BY EmptySeq DEF Id
  <2>2. rest' \in [Conns -> Seq(Commands)] /\ ran' \in [Conns -> Seq(Commands)]
    BY <1>4, <2>1 DEF ExecConsume, TypeOK
  <2> QED
    BY <1>0, <1>4, <2>1, <2>2 DEF ExecConsume, TypeOK
<1>5. ASSUME NEW c \in Conns, ExecNext(c)
      PROVE  TypeOK'
  <2>1. /\ Head(rest[c]) \in Commands /\ Tail(rest[c]) \in Seq(Commands)
        /\ Append(ran[c], Head(rest[c])) \in Seq(Commands)
    BY <1>5, MoveHead DEF ExecNext, TypeOK
  <2> QED
    BY <1>0, <1>5, <2>1 DEF ExecNext, TypeOK
<1>6. ASSUME NEW c \in Conns, Set(c) \/ IncrSet(c)
      PROVE  TypeOK'
  <2>1. cur[c].key \in Keys /\ (pc[c] = "set" => cur[c].val \in Numbers \cup {Text})
    BY <1>6, CommandFields DEF Set, IncrSet, PcInv, AllOps
  <2>2. store' \in [Keys -> Ints \cup {Absent, Text, Strm}]
    BY <1>6, <2>1, ConstantTypes DEF Set, IncrSet, TypeOK
  <2>3. overlap' \subseteq Keys /\ timed' \subseteq Keys
    BY <1>6, <2>1 DEF Set, IncrSet, Timed, NoteOverlap, TypeOK
  <2> QED
    BY <1>0, <1>6, <2>2, <2>3 DEF Set, IncrSet, TypeOK
<1>7. ASSUME NEW c \in Conns, IncrGet(c)
      PROVE  TypeOK'
  <2>1. cur[c].key \in Keys
    BY <1>7, CommandFields DEF IncrGet, PcInv, AllOps
  <2>2. newval' \in [Conns -> Ints]
    BY <1>7, SuccType, ConstantTypes, ZenonT(240) DEF IncrGet, TypeOK
  <2>3. overlap' \subseteq Keys /\ timed' \subseteq Keys /\ expired' \subseteq Keys
    BY <1>7, <2>1, FoundType DEF IncrGet, NoteOverlap, TypeOK
  <2>4. pc' \in [Conns -> Points]
    BY <1>0, <1>7, ZenonT(60) DEF IncrGet, TypeOK
  <2> QED
    BY <1>7, <2>2, <2>3, <2>4 DEF IncrGet, TypeOK
<1>8. ASSUME NEW c \in Conns, Publish(c)
      PROVE  TypeOK'
  <2>1. cur[c] \in Commands /\ cur[c].op \in {"set", "incr"} /\ cur[c].key \in Keys
    BY <1>8, CommandFields DEF Publish, PcInv
  <2>2. mirror' \in [Keys -> Ints \cup {Absent, Text}]
    <3>1. \/ mirror' = Replayed(mirror, cur[c])
          \/ mirror' = [mirror EXCEPT ![cur[c].key] = 1]
      BY <1>8 DEF Publish
    <3>2. mirror \in [Keys -> Ints \cup {Absent, Text}]
      BY DEF TypeOK
    <3>3. Replayed(mirror, cur[c]) \in [Keys -> Ints \cup {Absent, Text}]
      BY <2>1, <3>2, ReplayedType
    <3>4. [mirror EXCEPT ![cur[c].key] = 1] \in [Keys -> Ints \cup {Absent, Text}]
      BY <3>2, ConstantTypes
    <3> QED
      BY <3>1, <3>3, <3>4
  <2>3. mtimed' \subseteq Keys /\ expired' \subseteq Keys
    BY <1>8, <2>1 DEF Publish, Timed, TypeOK
  <2> QED
    BY <1>0, <1>8, <2>2, <2>3 DEF Publish, TypeOK
<1>9. ASSUME NEW c \in Conns, XAdd(c)
      PROVE  TypeOK'
  BY <1>0, <1>9 DEF XAdd, TypeOK
<1>10. ASSUME NEW c \in Conns, Unknown(c) \/ \E d \in Conns : TxQueueRace(c, d)
       PROVE  TypeOK'
  BY <1>10 DEF Unknown, TxQueueRace, TypeOK
<1>11. ASSUME NEW c \in Conns, Get(c) \/ Type(c)
       PROVE  TypeOK'
  <2>1. cur[c].key \in Keys
    BY <1>11, CommandFields DEF Get, Type, PcInv, AllOps
  <2>2. timed' \subseteq Keys /\ expired' \subseteq Keys
    BY <1>11, <2>1, FoundType DEF Get, Type
  <2>3. pc' \in [Conns -> Points]
    BY <1>0, <1>11, ZenonT(60) DEF Get, Type, TypeOK
  <2> QED
    BY <1>11, <2>2, <2>3 DEF Get, Type, TypeOK
<1>12. ASSUME NEW k \in Keys, ReplicaGet(k)
       PROVE  TypeOK'
  BY <1>12 DEF ReplicaGet, TypeOK
<1>13. CASE UNCHANGED vars
  BY <1>13 DEF vars, TypeOK
<1> QED
  BY <1>1, <1>2, <1>3, <1>4, <1>5, <1>6, <1>7, <1>8, <1>9, <1>10, <1>11, <1>12, <1>13 DEF Next, Step

-----------------------------------------------------------------------------
\* What no step of a connection is: a step that leaves the goroutines, their
\* clients and the queues as they are.
Elsewhere == (\E k \in Keys : ReplicaGet(k)) \/ UNCHANGED vars

\* Every step is a step of one connection, or is elsewhere.
LEMMA NextIsStep ==
  ASSUME [Next]_vars
  PROVE  (\E c \in Conns : Step(c)) \/ Elsewhere
BY DEF Next, Elsewhere

\* What a step elsewhere leaves alone.
LEMMA ElsewhereKeeps ==
  ASSUME Elsewhere
  PROVE  /\ UNCHANGED <<txq, store, timed, pc, cur, inExec, rest, newval, crashed>>
         /\ UNCHANGED <<mirror, overlap, count, inMulti, asked, ran, nested>>
         /\ expired \subseteq expired'
BY DEF Elsewhere, ReplicaGet, vars, history

\* A step of one connection leaves what belongs to another as it is: its
\* goroutine, its client's view, and the queue under its id.
LEMMA OthersKept ==
  ASSUME TypeOK, NEW e \in Conns, Step(e), NEW c \in Conns \ {e}
  PROVE  /\ pc'[c] = pc[c] /\ cur'[c] = cur[c] /\ inExec'[c] = inExec[c]
         /\ rest'[c] = rest[c] /\ ran'[c] = ran[c] /\ newval'[c] = newval[c]
         /\ inMulti'[c] = inMulti[c] /\ asked'[c] = asked[c]
         /\ txq'[c] = txq[c]
<1> USE DEF history, Goto, Replied, Failed, TypeOK
<1>1. Id(e) # c
  BY ConstantTypes DEF Id
<1>2. ASSUME NEW cmd \in Commands, Receive(e, cmd)
      PROVE  /\ pc'[c] = pc[c] /\ cur'[c] = cur[c] /\ inExec'[c] = inExec[c]
             /\ rest'[c] = rest[c] /\ ran'[c] = ran[c] /\ newval'[c] = newval[c]
             /\ inMulti'[c] = inMulti[c] /\ asked'[c] = asked[c]
             /\ txq'[c] = txq[c]
  BY <1>2 DEF Receive
<1>3. CASE Eof(e) \/ Dispatch(e) \/ ExecNext(e) \/ ExecEnd(e) \/ Get(e) \/ Type(e) \/ Publish(e)
  BY <1>3 DEF Eof, Dispatch, ExecNext, ExecEnd, Get, Type, Publish
<1>4. CASE QueueCommand(e) \/ BeginTransaction(e) \/ Discard(e) \/ ExecConsume(e)
  BY <1>1, <1>4 DEF QueueCommand, BeginTransaction, Discard, ExecConsume
<1>5. CASE Set(e) \/ SetBadPx(e) \/ IncrGet(e) \/ IncrSet(e) \/ XAdd(e)
  BY <1>5 DEF Set, SetBadPx, IncrGet, IncrSet, XAdd
<1>6. CASE Unknown(e) \/ \E d \in Conns : TxQueueRace(e, d)
  BY <1>6 DEF Unknown, TxQueueRace
<1> QED
  BY <1>2, <1>3, <1>4, <1>5, <1>6 DEF Step

\* Every step keeps PcInv.
LEMMA NextPc == TypeOK /\ PcInv /\ [Next]_vars => PcInv'
<1> SUFFICES ASSUME TypeOK, PcInv, NEW e \in Conns, Step(e) PROVE PcInv'
  BY NextIsStep, ElsewhereKeeps DEF PcInv
<1> DEFINE At(c) == /\ pc[c] \notin {"read", "next", "closed"} => cur[c] \in Commands
                    /\ pc[c] \in AllOps => cur[c].op = pc[c]
                    /\ pc[c] = "incrset" => cur[c].op = "incr"
                    /\ pc[c] = "publish" => cur[c].op \in {"set", "incr"}
<1>1. ASSUME NEW c \in Conns \ {e} PROVE At(c)'
  BY OthersKept DEF PcInv
<1>2. At(e)'
  <2> USE DEF history, Goto, Replied, Failed, TypeOK, AllOps
  <2>1. ASSUME NEW cmd \in Commands, Receive(e, cmd) PROVE At(e)'
    BY <2>1 DEF Receive
  <2>2. CASE Eof(e) \/ ExecConsume(e) \/ ExecEnd(e) \/ Get(e) \/ Type(e) \/ SetBadPx(e) \/ XAdd(e) \/ Publish(e)
    BY <2>2 DEF Eof, ExecConsume, ExecEnd, Get, Type, SetBadPx, XAdd, Publish
  <2>3. CASE Dispatch(e)
    <3>1. cur[e] \in Commands /\ cur[e].op \in AllOps /\ cur' = cur
      BY <2>3, CommandFields DEF Dispatch, PcInv
    <3>2. pc'[e] \in {"enqueue", "read", "next", cur[e].op}
      BY <2>3 DEF Dispatch
    <3> QED
      BY <3>1, <3>2
  <2>4. CASE QueueCommand(e) \/ BeginTransaction(e) \/ Discard(e)
    BY <2>4 DEF QueueCommand, BeginTransaction, Discard
  <2>5. CASE ExecNext(e)
    <3>1. Head(rest[e]) \in Commands
      BY <2>5, MoveHead DEF ExecNext
    <3> QED
      BY <2>5, <3>1 DEF ExecNext
  <2>6. CASE Set(e) \/ IncrGet(e) \/ IncrSet(e)
    BY <2>6 DEF Set, IncrGet, IncrSet, PcInv
  <2>7. CASE Unknown(e) \/ \E d \in Conns : TxQueueRace(e, d)
    BY <2>7 DEF Unknown, TxQueueRace, PcInv
  <2> QED
    BY <2>1, <2>2, <2>3, <2>4, <2>5, <2>6, <2>7 DEF Step
<1> QED
  BY <1>1, <1>2 DEF PcInv

\* Only Receive changes what is queueable, and it never shrinks.
LEMMA QueueableGrows ==
  ASSUME NEW e \in Conns, Step(e)
  PROVE  /\ nested => nested'
         /\ Queueable \subseteq Queueable'
         /\ \A s \in Seq(Queueable) : s \in Seq(Queueable')
         /\ (~\E cmd \in Commands : Receive(e, cmd)) => nested' = nested /\ Queueable' = Queueable
<1>1. nested => nested'
  BY DEF Step, history, Receive, Eof, Dispatch, QueueCommand, BeginTransaction, Discard, ExecConsume,
         ExecNext, ExecEnd, Set, SetBadPx, IncrGet, IncrSet, Publish, Get, Type, XAdd, Unknown, TxQueueRace, FindsOver, FindsValue
<1>2. (~\E cmd \in Commands : Receive(e, cmd)) => nested' = nested
  BY DEF Step, history, Eof, Dispatch, QueueCommand, BeginTransaction, Discard, ExecConsume,
         ExecNext, ExecEnd, Set, SetBadPx, IncrGet, IncrSet, Publish, Get, Type, XAdd, Unknown, TxQueueRace, FindsOver, FindsValue
<1>3. Queueable \subseteq Queueable'
  BY <1>1 DEF Queueable
<1>4. \A s \in Seq(Queueable) : s \in Seq(Queueable')
  BY <1>3, SeqMonotonic
<1> QED
  BY <1>1, <1>2, <1>3, <1>4 DEF Queueable

\* Every step keeps QueueInv.
LEMMA NextQueue == TypeOK /\ TxInv /\ [Next]_vars => QueueInv'
<1> SUFFICES ASSUME TypeOK, TxInv, NEW e \in Conns, Step(e) PROVE QueueInv'
  <2>1. ASSUME TxInv, Elsewhere PROVE QueueInv'
    <3>1. Queueable' = Queueable
      BY <2>1, ElsewhereKeeps DEF Queueable
    <3> QED
      BY <2>1, <3>1, ElsewhereKeeps DEF TxInv, QueueInv
  <2> QED
    BY <2>1, NextIsStep
<1> USE DEF history, Goto, Replied, Failed, TxInv
<1>1. ASSUME NEW cmd \in Commands, Receive(e, cmd)
      PROVE  QueueInv'
  <2>1. \A s \in Seq(Queueable) : s \in Seq(Queueable')
    BY QueueableGrows, <1>1 DEF Step
  <2>2. cmd.op \notin {"exec", "discard"} /\ inMulti[e] => cmd \in Queueable'
    BY <1>1 DEF Receive, Queueable
  <2>3. asked[e] \in Seq(Queueable')
    BY <2>1 DEF QueueInv
  <2>4. cmd \in Queueable' => Append(asked[e], cmd) \in Seq(Queueable')
    BY <2>3, AppendProperties
  <2>5. <<>> \in Seq(Queueable')
    BY EmptySeq
  <2>6. asked \in [Conns -> Seq(Queueable')]
    BY <2>1 DEF QueueInv
  <2>7. asked' \in [Conns -> Seq(Queueable')]
    BY <1>1, <2>2, <2>4, <2>5, <2>6 DEF Receive
  <2>8. nested' \/ txq'[NilId] = NoQueue
    BY <1>1 DEF Receive, QueueInv
  <2>9. /\ rest' \in [Conns -> Seq(Queueable')] /\ ran' \in [Conns -> Seq(Queueable')]
        /\ txq' \in [Conns \cup {NilId} -> {NoQueue} \cup Seq(Queueable')]
    BY <1>1, <2>1 DEF Receive, QueueInv
  <2> QED
    BY <2>7, <2>8, <2>9 DEF QueueInv
<1>2. ASSUME ~\E cmd \in Commands : Receive(e, cmd)
      PROVE  QueueInv'
  <2>1. nested' = nested /\ Queueable' = Queueable
    BY <1>2, QueueableGrows
  <2>2. CASE QueueCommand(e)
    <3>1. txq[Id(e)] # NoQueue => Append(txq[Id(e)], cur[e]) \in Seq(Queueable)
      <4>1. CASE inExec[e]
        <5>1. cur[e] \in Queueable
          BY <2>2, <4>1 DEF QueueCommand, ExecInv
        <5>2. txq[Id(e)] # NoQueue => txq[Id(e)] \in Seq(Queueable)
          BY <4>1 DEF QueueInv, Id
        <5> QED
          BY <5>1, <5>2, AppendProperties
      <4>2. CASE ~inExec[e]
        <5>1. Append(txq[e], cur[e]) = asked[e]
          BY <2>2, <4>2 DEF QueueCommand, ClientInv
        <5>2. asked[e] \in Seq(Queueable)
          BY DEF QueueInv
        <5> QED
          BY <4>2, <5>1, <5>2 DEF Id
      <4> QED
        BY <4>1, <4>2
    <3>2. txq' \in [Conns \cup {NilId} -> {NoQueue} \cup Seq(Queueable)]
      BY <2>2, <3>1 DEF QueueCommand, Queued, QueueInv
    <3>3. nested \/ txq'[NilId] = NoQueue
      BY <2>2 DEF QueueCommand, QueueInv
    <3> QED
      BY <2>1, <2>2, <3>2, <3>3 DEF QueueCommand, QueueInv
  <2>3. CASE BeginTransaction(e)
    <3>1. <<>> \in Seq(Queueable)
      BY EmptySeq
    <3>2. inExec[e] => nested
      BY <2>3 DEF BeginTransaction, ExecInv, PcInv, AllOps, Queueable
    <3>3. txq' \in [Conns \cup {NilId} -> {NoQueue} \cup Seq(Queueable)]
      BY <2>3, <3>1 DEF BeginTransaction, QueueInv
    <3>4. nested \/ txq'[NilId] = NoQueue
      BY <2>3, <3>2, ConstantTypes DEF BeginTransaction, QueueInv, Id
    <3> QED
      BY <2>1, <2>3, <3>3, <3>4 DEF BeginTransaction, QueueInv
  <2>4. CASE Discard(e)
    <3>1. txq' \in [Conns \cup {NilId} -> {NoQueue} \cup Seq(Queueable)]
      BY <2>4 DEF Discard, QueueInv
    <3>2. nested \/ txq'[NilId] = NoQueue
      BY <2>4 DEF Discard, QueueInv
    <3> QED
      BY <2>1, <2>4, <3>1, <3>2 DEF Discard, QueueInv
  <2>5. CASE ExecConsume(e)
    <3>1. Id(e) \in Conns \cup {NilId} /\ <<>> \in Seq(Queueable)
      BY EmptySeq DEF Id
    <3>2. rest' \in [Conns -> Seq(Queueable)] /\ ran' \in [Conns -> Seq(Queueable)]
      BY <2>5, <3>1 DEF ExecConsume, QueueInv
    <3>3. txq' \in [Conns \cup {NilId} -> {NoQueue} \cup Seq(Queueable)]
      BY <2>5 DEF ExecConsume, QueueInv
    <3>4. nested \/ txq'[NilId] = NoQueue
      BY <2>5 DEF ExecConsume, QueueInv
    <3> QED
      BY <2>1, <2>5, <3>2, <3>3, <3>4 DEF ExecConsume, QueueInv
  <2>6. CASE ExecNext(e)
    <3>1. Tail(rest[e]) \in Seq(Queueable) /\ Append(ran[e], Head(rest[e])) \in Seq(Queueable)
      BY <2>6, MoveHead DEF ExecNext, QueueInv
    <3> QED
      BY <2>1, <2>6, <3>1 DEF ExecNext, QueueInv
  <2>7. CASE Eof(e) \/ Dispatch(e) \/ ExecEnd(e) \/ Get(e) \/ Type(e) \/ XAdd(e) \/ Publish(e)
    BY <2>1, <2>7 DEF Eof, Dispatch, ExecEnd, Get, Type, XAdd, Publish, QueueInv
  <2>8. CASE Set(e) \/ SetBadPx(e) \/ IncrGet(e) \/ IncrSet(e)
    BY <2>1, <2>8 DEF Set, SetBadPx, IncrGet, IncrSet, QueueInv
  <2>9. CASE Unknown(e) \/ \E d \in Conns : TxQueueRace(e, d)
    BY <2>1, <2>9 DEF Unknown, TxQueueRace, QueueInv
  <2> QED
    BY <1>2, <2>2, <2>3, <2>4, <2>5, <2>6, <2>7, <2>8, <2>9 DEF Step
<1> QED
  BY <1>1, <1>2

\* Every step keeps what the client has seen of its transaction true.
LEMMA NextTx ==
  ASSUME TypeOK, TxInv, NEW e \in Conns, Step(e), NEW c \in Conns
  PROVE  ClientInv(c)' /\ ExecInv(c)'
<1>1. CASE c # e
  <2>1. (nested => nested') /\ (cur[c] \in Queueable => cur[c] \in Queueable')
    BY QueueableGrows
  <2>2. /\ pc'[c] = pc[c] /\ cur'[c] = cur[c] /\ inExec'[c] = inExec[c]
        /\ rest'[c] = rest[c] /\ ran'[c] = ran[c]
        /\ inMulti'[c] = inMulti[c] /\ asked'[c] = asked[c] /\ txq'[c] = txq[c]
    BY <1>1, OthersKept
  <2>3. ClientInv(c) /\ ExecInv(c)
    BY DEF TxInv
  <2>4. ClientInv(c)'
    BY <2>2, <2>3 DEF ClientInv
  <2> QED
    BY <2>1, <2>2, <2>3, <2>4 DEF ExecInv
<1>2. CASE c = e
  <2> USE <1>2 DEF history, Goto, Replied, Failed, TypeOK, AllOps
  <2>1. ASSUME NEW cmd \in Commands, Receive(e, cmd)
        PROVE  ClientInv(c)' /\ ExecInv(c)'
    <3>1. ~inExec[e] /\ txq[e] = IF inMulti[e] THEN asked[e] ELSE NoQueue
      BY <2>1 DEF Receive, TxInv, ClientInv, ExecInv
    <3>2. asked[e] # NoQueue
      BY NotAQueue DEF TxInv, QueueInv
    <3> QED
      BY <2>1, <3>1, <3>2, ZenonT(240) DEF Receive, ClientInv, ExecInv
  <2>2. CASE Eof(e)
    BY <2>2 DEF Eof, TxInv, ClientInv, ExecInv
  <2>3. CASE Dispatch(e)
    <3>1. CASE inExec[e]
      <4>1. ExecInv(e) /\ cur[e].op \notin {"exec", "discard"} /\ cur[e].op \in AllOps
        BY <2>3, <3>1, CommandFields DEF Dispatch, TxInv, ExecInv, Queueable
      <4>2. pc'[e] = cur[e].op \/ (pc'[e] = "enqueue" /\ nested)
        BY <2>3, <3>1, <4>1 DEF Dispatch, IsInTransaction, Id, TxInv, QueueInv
      <4> QED
        BY <2>3, <3>1, <4>1, <4>2 DEF Dispatch, ClientInv, ExecInv, Queueable
    <3>2. CASE ~inExec[e]
      <4>1. /\ cur[e].op \in {"exec", "discard"} => ~inMulti[e] /\ txq[e] \in {NoQueue, asked[e]}
            /\ cur[e].op \notin {"exec", "discard"} =>
                 IF txq[e] = NoQueue
                 THEN inMulti[e] = (cur[e].op = "multi") /\ (inMulti[e] => asked[e] = <<>>)
                 ELSE inMulti[e] /\ asked[e] = Append(txq[e], cur[e])
            /\ cur[e].op \in AllOps
        BY <2>3, <3>2, CommandFields DEF Dispatch, TxInv, PcInv, ClientInv
      <4>2. CASE txq[e] = NoQueue
        <5>1. \/ cur[e].op \in {"exec", "discard"} /\ pc'[e] = "read"
              \/ cur[e].op \notin {"exec", "discard"} /\ pc'[e] = cur[e].op
          BY <2>3, <3>2, <4>2 DEF Dispatch, IsInTransaction, Id
        <5> QED
          BY <2>3, <3>2, <4>1, <4>2, <5>1 DEF Dispatch, ClientInv, ExecInv
      <4>3. CASE txq[e] # NoQueue
        <5>1. \/ cur[e].op \in {"exec", "discard"} /\ pc'[e] = cur[e].op
              \/ cur[e].op \notin {"exec", "discard"} /\ pc'[e] = "enqueue"
          BY <2>3, <3>2, <4>3 DEF Dispatch, IsInTransaction, Id
        <5> QED
          BY <2>3, <3>2, <4>1, <4>3, <5>1 DEF Dispatch, ClientInv, ExecInv
      <4> QED
        BY <4>2, <4>3
    <3> QED
      BY <3>1, <3>2
  <2>4. CASE QueueCommand(e) \/ BeginTransaction(e) \/ Discard(e)
    BY <2>4, ConstantTypes, ZenonT(240) DEF QueueCommand, BeginTransaction, Discard, Queued, Id, TxInv, ClientInv, ExecInv
  <2>5. CASE ExecConsume(e)
    <3>1. ~inExec[e] /\ ~inMulti[e] /\ txq[e] = asked[e] /\ asked[e] \in Seq(Queueable)
      BY <2>5 DEF ExecConsume, TxInv, QueueInv, ClientInv, ExecInv
    <3>2. rest'[e] = asked[e] /\ ran'[e] = <<>> /\ txq'[e] = NoQueue
      BY <2>5, <3>1, NotAQueue DEF ExecConsume, Id
    <3>3. <<>> \o asked[e] = asked[e]
      BY <3>1, ConcatEmptySeq
    <3> QED
      BY <2>5, <3>1, <3>2, <3>3 DEF ExecConsume, ClientInv, ExecInv
  <2>6. CASE ExecNext(e)
    <3>1. rest[e] \in Seq(Queueable) /\ ran[e] \in Seq(Queueable) /\ rest[e] # <<>>
      BY <2>6 DEF ExecNext, TxInv, QueueInv
    <3>2. /\ Head(rest[e]) \in Queueable
          /\ Append(ran[e], Head(rest[e])) \o Tail(rest[e]) = ran[e] \o rest[e]
      BY <3>1, MoveHead
    <3>3. inExec[e] /\ ~inMulti[e] /\ txq[e] = NoQueue /\ ran[e] \o rest[e] = asked[e]
      BY <2>6 DEF ExecNext, TxInv, ClientInv, ExecInv
    <3>4. Queueable' = Queueable
      BY <2>6 DEF ExecNext, Queueable
    <3> QED
      BY <2>6, <3>2, <3>3, <3>4 DEF ExecNext, ClientInv, ExecInv
  <2>7. CASE ExecEnd(e)
    BY <2>7 DEF ExecEnd, TxInv, ClientInv, ExecInv
  <2>8. CASE Set(e) \/ SetBadPx(e) \/ IncrSet(e)
    BY <2>8, ZenonT(240) DEF Set, SetBadPx, IncrSet, TxInv, ClientInv, ExecInv, Queueable
  <2>11. CASE IncrGet(e)
    <3>1. /\ pc[e] = "incr"
          /\ pc'[e] \in {"incrset", "closed"} \/ pc'[e] = IF inExec[e] THEN "next" ELSE "read"
      BY <2>11, ZenonT(60) DEF IncrGet
    <3>2. UNCHANGED <<txq, cur, inExec, rest, inMulti, asked, ran, nested>>
      BY <2>11 DEF IncrGet
    <3>3. Queueable' = Queueable
      BY <3>2 DEF Queueable
    <3> QED
      BY <3>1, <3>2, <3>3 DEF TxInv, ClientInv, ExecInv
  <2>9. CASE Publish(e) \/ Get(e) \/ Type(e) \/ XAdd(e)
    <3>1. /\ pc[e] \in {"publish", "get", "type", "xadd"}
          /\ pc'[e] = "closed" \/ pc'[e] = IF inExec[e] THEN "next" ELSE "read"
      BY <2>9, ZenonT(60) DEF Publish, Get, Type, XAdd
    <3>2. UNCHANGED <<txq, cur, inExec, rest, inMulti, asked, ran, nested>>
      BY <2>9 DEF Publish, Get, Type, XAdd
    <3> QED
      BY <3>1, <3>2 DEF TxInv, ClientInv, ExecInv
  <2>10. CASE Unknown(e) \/ \E d \in Conns : TxQueueRace(e, d)
    BY <2>10, ZenonT(240) DEF Unknown, TxQueueRace, TxInv, ClientInv, ExecInv, Queueable
  <2> QED
    BY <2>1, <2>2, <2>3, <2>4, <2>5, <2>6, <2>7, <2>8, <2>9, <2>10, <2>11 DEF Step
<1> QED
  BY <1>1, <1>2

-----------------------------------------------------------------------------
\* A step that leaves alone a key, its replicas, and the goroutines that are
\* between two accesses to it.
LEMMA QuietStep ==
  ASSUME TypeOK, PcInv, NEW k \in Keys, AgreeInv(k),
         mirror' \in [Keys -> Ints \cup {Absent, Text}],
         store'[k] = store[k], mirror'[k] = mirror[k],
         \A c \in Conns : HotAt(c, k)' <=> HotAt(c, k),
         \A c \in Conns : HotAt(c, k) => pc'[c] = pc[c] /\ cur'[c] = cur[c] /\ newval'[c] = newval[c]
  PROVE  AgreeInv(k)'
<1>1. ASSUME NEW c \in Conns, HotAt(c, k)
      PROVE  Replayed(mirror', cur[c])[k] = Replayed(mirror, cur[c])[k]
  <2>1. cur[c] \in Commands /\ cur[c].op \in {"set", "incr"} /\ cur[c].key = k
    BY <1>1 DEF HotAt, PcInv
  <2> QED
    BY <2>1, ReplayedSame DEF TypeOK
<1>2. \A c, d \in Conns : HotAt(c, k)' /\ HotAt(d, k)' => c = d
  BY DEF AgreeInv
<1>3. ASSUME NEW c \in Conns, pc'[c] = "incrset", cur'[c].key = k
      PROVE  newval'[c] = Replayed(mirror', cur'[c])[k]
  <2>1. HotAt(c, k)
    BY <1>3 DEF HotAt
  <2> QED
    BY <1>1, <1>3, <2>1 DEF AgreeInv
<1>4. ASSUME NEW c \in Conns, pc'[c] = "publish", cur'[c].key = k
      PROVE  store'[k] = Replayed(mirror', cur'[c])[k]
  <2>1. HotAt(c, k)
    BY <1>4 DEF HotAt
  <2> QED
    BY <1>1, <1>4, <2>1 DEF AgreeInv
<1>5. \/ \E c \in Conns : pc'[c] = "publish" /\ cur'[c].key = k
      \/ mirror'[k] = IF store'[k] = Strm THEN Absent ELSE store'[k]
  <2>1. CASE \E c \in Conns : pc[c] = "publish" /\ cur[c].key = k
    BY <2>1 DEF HotAt
  <2>2. CASE mirror[k] = IF store[k] = Strm THEN Absent ELSE store[k]
    BY <2>2
  <2> QED
    BY <2>1, <2>2 DEF AgreeInv
<1> QED
  BY <1>2, <1>3, <1>4, <1>5 DEF AgreeInv

\* Every step keeps the agreement with the replicas on quiet keys.
LEMMA NextStore ==
  ASSUME TypeOK, PcInv, StoreInv, NEW e \in Conns, Step(e), NEW k \in Keys \ (overlap' \cup expired')
  PROVE  AgreeInv(k)'
<1> USE DEF history, Goto, Replied, Failed
<1> DEFINE Others == \A c \in Conns \ {e} :
                       pc'[c] = pc[c] /\ cur'[c] = cur[c] /\ newval'[c] = newval[c]
<1>1. Others
  BY OthersKept
<1>2. TypeOK'
  BY NextType DEF Next
<1>3. mirror' \in [Keys -> Ints \cup {Absent, Text}]
  BY <1>2 DEF TypeOK
<1>4. overlap \subseteq overlap' /\ expired \subseteq expired'
  BY DEF Step, NoteOverlap, Receive, Eof, Dispatch, QueueCommand, BeginTransaction, Discard, ExecConsume,
         ExecNext, ExecEnd, Set, SetBadPx, IncrGet, IncrSet, Publish, Get, Type, XAdd, Unknown, TxQueueRace, FindsOver, FindsValue
<1>5. AgreeInv(k)
  BY <1>4 DEF StoreInv
\* Nobody else is between two accesses to the key e works on.
<1>6. ASSUME cur[e].key = k, NoteOverlap(e, k), NEW c \in Conns \ {e}
      PROVE  ~HotAt(c, k)
  BY <1>6 DEF NoteOverlap, Busy, HotAt
<1>7. CASE Set(e)
  <2>1. pc'[e] = "publish" /\ cur'[e] = cur[e] /\ mirror' = mirror /\ pc[e] = "set"
    BY <1>7 DEF Set, TypeOK
  <2>2. cur[e] \in Commands /\ cur[e].op = "set" /\ cur[e].key \in Keys
    BY <2>1, CommandFields DEF PcInv, AllOps
  <2>3. CASE cur[e].key # k
    <3>1. store'[k] = store[k]
      BY <1>7, <2>3 DEF Set, TypeOK
    <3> QED
      BY <1>1, <1>3, <1>5, <2>1, <2>3, <3>1, QuietStep DEF HotAt
  <2>4. CASE cur[e].key = k
    <3>1. \A c \in Conns : HotAt(c, k)' => c = e
      BY <1>1, <1>6, <1>7, <2>4 DEF Set, HotAt
    <3>2. store'[k] = cur[e].val
      BY <1>7, <2>4 DEF Set, TypeOK
    <3>3. Replayed(mirror, cur[e])[k] = cur[e].val
      BY <2>2, <2>4 DEF Replayed, TypeOK
    <3>4. pc'[e] = "publish" /\ cur'[e].key = k /\ store'[k] = Replayed(mirror', cur'[e])[k]
      BY <2>1, <2>4, <3>2, <3>3
    <3> QED
      BY <3>1, <3>4 DEF AgreeInv, HotAt
  <2> QED
    BY <2>3, <2>4
<1>8. CASE IncrGet(e)
  <2>1. cur'[e] = cur[e] /\ mirror' = mirror /\ store' = store /\ pc[e] = "incr"
    BY <1>8 DEF IncrGet, TypeOK
  <2>2. cur[e] \in Commands /\ cur[e].op = "incr" /\ cur[e].key \in Keys
    BY <2>1, CommandFields DEF PcInv, AllOps
  <2>3. CASE cur[e].key # k \/ pc'[e] # "incrset"
    <3>1. ~HotAt(e, k) /\ ~HotAt(e, k)'
      BY <1>8, <2>1, <2>3 DEF IncrGet, TypeOK, HotAt
    <3> QED
      BY <1>1, <1>3, <1>5, <2>1, <3>1, QuietStep DEF HotAt
  <2>4. CASE cur[e].key = k /\ pc'[e] = "incrset"
    <3>1. \A c \in Conns : ~HotAt(c, k)
      BY <1>6, <1>8, <2>4 DEF IncrGet, HotAt
    <3>2. mirror[k] = IF store[k] = Strm THEN Absent ELSE store[k]
      BY <1>5, <3>1 DEF AgreeInv, HotAt
    <3>3. \/ store[k] = Absent /\ newval'[e] = 1
          \/ store[k] \in Ints /\ newval'[e] = Succ(store[k])
      <4>1. ~FindsOver(cur[e].key)
        BY <2>4 DEF FindsOver
      <4> QED
        BY <1>8, <2>4, <4>1 DEF IncrGet, TypeOK
    <3>4. newval'[e] = Replayed(mirror, cur[e])[k]
      BY <2>2, <2>4, <3>2, <3>3, ConstantTypes DEF Replayed, TypeOK
    <3>5. \A c \in Conns : HotAt(c, k)' => c = e
      BY <1>1, <3>1 DEF HotAt
    <3>6. pc'[e] = "incrset" /\ cur'[e].key = k /\ newval'[e] = Replayed(mirror', cur'[e])[k]
      BY <2>1, <2>4, <3>4
    <3> QED
      BY <2>1, <3>2, <3>5, <3>6 DEF AgreeInv, HotAt
  <2> QED
    BY <2>3, <2>4
<1>9. CASE IncrSet(e)
  <2>1. pc'[e] = "publish" /\ cur'[e] = cur[e] /\ mirror' = mirror /\ pc[e] = "incrset"
    BY <1>9 DEF IncrSet, TypeOK
  <2>2. CASE cur[e].key # k
    <3>1. store'[k] = store[k]
      BY <1>9, <2>2 DEF IncrSet, TypeOK
    <3> QED
      BY <1>1, <1>3, <1>5, <2>1, <2>2, <3>1, QuietStep DEF HotAt
  <2>3. CASE cur[e].key = k
    <3>1. \A c \in Conns : HotAt(c, k)' => c = e
      BY <1>1, <1>5, <2>1, <2>3 DEF AgreeInv, HotAt
    <3>2. store'[k] = newval[e] /\ newval[e] = Replayed(mirror, cur[e])[k]
      BY <1>5, <1>9, <2>1, <2>3 DEF IncrSet, TypeOK, AgreeInv
    <3> QED
      BY <2>1, <2>3, <3>1, <3>2 DEF AgreeInv, HotAt
  <2> QED
    BY <2>2, <2>3
<1>10. CASE Publish(e)
  <2>1. /\ pc[e] = "publish" /\ pc'[e] \in {"next", "read"} /\ store' = store
        /\ \/ mirror' = Replayed(mirror, cur[e])
           \/ mirror' = [mirror EXCEPT ![cur[e].key] = 1] /\ cur[e].key \in expired'
    BY <1>10 DEF Publish, TypeOK
  <2>2. cur[e] \in Commands /\ cur[e].op \in {"set", "incr"}
    BY <2>1 DEF PcInv
  <2>3. CASE cur[e].key # k
    <3>1. mirror'[k] = mirror[k]
      <4>1. mirror \in [Keys -> Ints \cup {Absent, Text}]
        BY DEF TypeOK
      <4>2. Replayed(mirror, cur[e])[k] = mirror[k]
        BY <2>2, <2>3, <4>1, ReplayedType
      <4>3. [mirror EXCEPT ![cur[e].key] = 1][k] = mirror[k]
        BY <2>3, <4>1
      <4> QED
        BY <2>1, <4>2, <4>3
    <3> QED
      BY <1>1, <1>3, <1>5, <2>1, <2>3, <3>1, QuietStep DEF HotAt
  <2>4. CASE cur[e].key = k
    <3>1. \A c \in Conns : ~HotAt(c, k)'
      BY <1>1, <1>5, <2>1, <2>4 DEF AgreeInv, HotAt
    <3>2. mirror'[k] = store'[k]
      <4>1. mirror' = Replayed(mirror, cur[e])
        BY <2>1, <2>4
      <4> QED
        BY <1>5, <2>1, <2>4, <4>1 DEF AgreeInv
    <3>3. mirror'[k] # Strm
      BY <1>3, ConstantTypes
    <3> QED
      BY <3>1, <3>2, <3>3 DEF AgreeInv, HotAt
  <2> QED
    BY <2>3, <2>4
<1>11. CASE XAdd(e)
  <2>1. pc[e] = "xadd" /\ pc'[e] \in {"next", "read"} /\ mirror' = mirror
    BY <1>11 DEF XAdd, TypeOK
  <2>2. ASSUME store'[k] # store[k]
        PROVE  AgreeInv(k)'
    <3>1. store[k] = Absent /\ store'[k] = Strm
      BY <1>11, <2>2 DEF XAdd, TypeOK
    <3>2. ASSUME NEW c \in Conns, pc[c] = "publish", cur[c].key = k
          PROVE  FALSE
      <4>1. cur[c] \in Commands /\ cur[c].op \in {"set", "incr"}
        BY <3>2 DEF PcInv
      <4>2. store[k] \in Ints \cup {Text}
        BY <1>5, <3>2, <4>1, ReplayedType DEF AgreeInv, TypeOK
      <4> QED
        BY <3>1, <4>2, ConstantTypes
    <3>3. mirror[k] = Absent
      BY <1>5, <3>1, <3>2, ConstantTypes DEF AgreeInv
    <3>4. \A c \in Conns : HotAt(c, k)' => HotAt(c, k) /\ pc[c] = "incrset" /\ c # e
      BY <1>1, <2>1, <3>2 DEF HotAt
    <3>5. \A c, d \in Conns : HotAt(c, k)' /\ HotAt(d, k)' => c = d
      BY <1>5, <3>4 DEF AgreeInv
    <3>6. ASSUME NEW c \in Conns, pc'[c] = "incrset", cur'[c].key = k
          PROVE  newval'[c] = Replayed(mirror', cur'[c])[k]
      BY <1>1, <1>5, <2>1, <3>4, <3>6 DEF AgreeInv, HotAt
    <3>7. ASSUME NEW c \in Conns, pc'[c] = "publish", cur'[c].key = k
          PROVE  FALSE
      BY <1>1, <2>1, <3>2, <3>7
    <3> QED
      BY <2>1, <3>1, <3>3, <3>5, <3>6, <3>7 DEF AgreeInv
  <2> QED
    BY <1>1, <1>3, <1>5, <2>1, <2>2, QuietStep DEF HotAt
<1>12. CASE ~(Set(e) \/ IncrGet(e) \/ IncrSet(e) \/ Publish(e) \/ XAdd(e))
  <2>1. mirror' = mirror /\ store' = store
    BY <1>12 DEF Step, Receive, Eof, Dispatch, QueueCommand, BeginTransaction, Discard,
                 ExecConsume, ExecNext, ExecEnd, SetBadPx, Get, Type, Unknown, TxQueueRace
  <2>2. \/ pc'[e] = pc[e] /\ cur'[e] = cur[e] /\ newval'[e] = newval[e]
        \/ ~HotAt(e, k) /\ ~HotAt(e, k)'
    <3>1. CASE Dispatch(e)
      <4>1. pc'[e] \in {"enqueue", "read", "next"} \cup AllOps
        BY <3>1, CommandFields DEF Dispatch, TypeOK, PcInv
      <4> QED
        BY <3>1, <4>1 DEF Dispatch, HotAt, AllOps
    <3>2. CASE ~Dispatch(e)
      BY <1>12, <3>2 DEF Step, Receive, Eof, QueueCommand, BeginTransaction, Discard, HotAt,
                         ExecConsume, ExecNext, ExecEnd, SetBadPx, Get, Type, Unknown, TxQueueRace, TypeOK
    <3> QED
      BY <3>1, <3>2
  <2> QED
    BY <1>1, <1>3, <1>5, <2>1, <2>2, QuietStep DEF HotAt
<1> QED
  BY <1>7, <1>8, <1>9, <1>10, <1>11, <1>12

-----------------------------------------------------------------------------
\* The inductive invariant holds in every state.
LEMMA Invariance == Spec => []IInv
<1>1. Init => IInv
  BY InitIInv
<1>2. IInv /\ [Next]_vars => IInv'
  <2> SUFFICES ASSUME IInv, [Next]_vars PROVE IInv'
    OBVIOUS
  <2>1. TypeOK' /\ QueueInv' /\ PcInv'
    BY NextType, NextQueue, NextPc DEF IInv, TxInv
  <2>2. ASSUME NEW e \in Conns, Step(e)
        PROVE  TxInv' /\ StoreInv'
    <3>1. \A c \in Conns : ClientInv(c)' /\ ExecInv(c)'
      BY <2>2, NextTx DEF IInv
    <3>2. \A k \in Keys \ (overlap' \cup expired') : AgreeInv(k)'
      BY <2>2, NextStore DEF IInv, TxInv
    <3> QED
      BY <2>1, <3>1, <3>2 DEF TxInv, StoreInv
  <2>3. ASSUME Elsewhere
        PROVE  TxInv' /\ StoreInv'
    <3>0. /\ UNCHANGED <<txq, store, timed, pc, cur, inExec, rest, newval, crashed>>
          /\ UNCHANGED <<mirror, overlap, count, inMulti, asked, ran, nested>>
          /\ expired \subseteq expired'
      BY <2>3, ElsewhereKeeps
    <3>1. Queueable' = Queueable
      BY <3>0 DEF Queueable
    <3>2. \A c \in Conns : ClientInv(c)' /\ ExecInv(c)'
      BY <3>0, <3>1, ZenonT(60) DEF IInv, TxInv, ClientInv, ExecInv
    <3>3. StoreInv'
      BY <3>0 DEF IInv, StoreInv, AgreeInv, HotAt
    <3> QED
      BY <2>1, <3>2, <3>3 DEF TxInv
  <2> QED
    BY <2>1, <2>2, <2>3, NextIsStep DEF IInv
<1> QED
  BY <1>1, <1>2, PTL DEF Spec

\* Every variable stays in its set; INCR never leaves Go's int.
THEOREM TypeCorrect == Spec => []TypeOK
BY Invariance, PTL DEF IInv

\* A connection's queue is what its client sent since MULTI, whatever the others
\* do, and EXEC goes through exactly that (TxQueue, QueueCommand, HandleExec).
THEOREM TransactionsExact == Spec => []TxExact
<1>1. IInv => TxExact
  BY DEF IInv, TxInv, ClientInv, ExecInv, TxExact
<1> QED
  BY <1>1, Invariance, PTL

\* EXEC executes its commands instead of queueing them again as long as no
\* client nests MULTI: only then is there a queue under the zero id.
THEOREM ExecExecutes == Spec => []ExecRunsQueued
<1>1. IInv => ExecRunsQueued
  BY DEF IInv, TxInv, ExecInv, ExecRunsQueued
<1> QED
  BY <1>1, Invariance, PTL

\* The store and a replica that applies what is published agree on every key on
\* which commands did not overlap and whose deadline nobody found over, but for
\* the command about to be published (HandleSet, HandleIncr, Store.Get).
THEOREM ReplayAgrees == Spec => []ReplayAgreesUnlessOverlap
<1>1. IInv => ReplayAgreesUnlessOverlap
  <2> SUFFICES ASSUME IInv, NEW k \in Keys \ (overlap \cup expired)
               PROVE  \/ store[k] = Strm
                      \/ /\ {c \in Conns : pc[c] = "publish" /\ cur[c].key = k} = {}
                         /\ mirror[k] = store[k]
                      \/ \E c \in {c \in Conns : pc[c] = "publish" /\ cur[c].key = k} :
                           Replayed(mirror, cur[c])[k] = store[k]
    BY DEF ReplayAgreesUnlessOverlap
  <2>1. AgreeInv(k)
    BY DEF IInv, StoreInv
  <2>2. CASE \E c \in Conns : pc[c] = "publish" /\ cur[c].key = k
    BY <2>1, <2>2 DEF AgreeInv
  <2>3. CASE ~\E c \in Conns : pc[c] = "publish" /\ cur[c].key = k
    BY <2>1, <2>3 DEF AgreeInv
  <2> QED
    BY <2>2, <2>3
<1> QED
  BY <1>1, Invariance, PTL
=============================================================================
