# Verification of code-challenges: redis-go and http-server-go

TLA+ specifications of the two Go servers of this repository, the TLC runs that
check them on small instances, and theorems about them that TLAPS checks for
every value of the constants. `PROJECT.json` lists components, runs, mutants,
hazards and theorems, and for every definition that models code the lines it
models.

The repository holds two programs:

- **redis-go** (`src/redis-go/app`), a Redis server: strings with deadlines,
  streams, transactions, replication from a leader to followers, RDB files.
  One goroutine per client; state shared under locks and over channels.
- **http-server-go** (`src/http-server-go/app`), an HTTP/1.1 server with a router
  with path parameters, a file endpoint and gzip.

## Inventory

| Component | State | Operations | Interacts with | What is hard | What makes it correct |
|---|---|---|---|---|---|
| Streams (`store/kv_store.go`: `SetStream`, `GetStream`, `XReadStream`) | `values[key]`, a slice of entries in order of id | XADD with an explicit, `ms-*` or `*` id; XRANGE; XREAD | the store's RWMutex; the wall clock | the clock is read before the lock; searches that return a default when nothing is found; slices that Go refuses; `int` overflow in the wildcard | ids increase; entries are only appended; ranges are exact; no panic |
| Values and deadlines (`kv_store.go`: `Get`, `Set`) | `values`, `expiries`, RWMutex | SET (px), GET | clock, commands | `Get` deletes from a map under the *read* lock; the clock is read inside, before and after locks; `uint64` conversion of a negative px | answers are those of the last SET; deadlines are dropped only when they are over |
| Command dispatch and transactions (`server.go: handleConnection`, `cmd/main.go`, `cmd/exec.go`, ...) | `TxQueue` (a map by connection id), one goroutine per client | MULTI, EXEC, DISCARD, SET, INCR, GET, TYPE, XADD | store, fan-out | one lock per access and none per command; contexts without a connection id inside EXEC; errors in the middle of EXEC; unlocked map read; reads that drop deadlines and are not published | a transaction runs what its client queued; replicas get what the leader applied |
| Replication fan-out (`replication/pubsub_manager.go`, `cmd/psync.go`) | `subscribers`, RWMutex, two unbuffered channels, one channel per replica | subscribe, unsubscribe, publish, write to a replica | SET and INCR block on it | sends while a lock is held; a channel that is closed while it is in the map; writer preference of `RWMutex` | each replica gets the log without gaps; writers are answered |
| RESP lexer and parser (`resp/*.go`) | `bufio` buffer, position in nested arrays, `ByteCounter` | `NextToken`, `ConsumeBytes`, `ConsumeCrlf`, `Parse`, `AsRespString` | both loops of `server.go` | TCP cuts the stream anywhere and may end anywhere | what is parsed is what was sent |
| Replication client and follower (`replication/repl_client.go`, `server.go: main`, `startReplicationListener`, `cmd/replconf.go`) | connection to the leader, own store, `ProcessedBytes` | handshake, PSYNC, apply, GETACK | leader's `HandlePSync` and fan-out, own store | what is written between the RDB and the subscription; the RDB read in part; either process ends; errors skipped with `continue`; no reconnection; INCR is sent as a command and run again on another store | offset is exact; the follower has what the commands since its subscription make, and never goes back |
| RDB files (`rdb/rdb.go`, `kv_store.go: InitialiseFromRdbFile`) | position in a buffered file; a database in the making | `ReadRdbFromFile`; `DeserializeRdb`, `SerializeB64RdbToString` | start-up, PSYNC | files cut by a crash, short reads at the buffer's end, length encodings, seconds and milliseconds | all of a database is loaded or nothing; a whole file is not refused |
| HTTP router (`lib/http/router.go`) | registered routes | `match`, `getPathSegments` | pipeline | empty parts, trailing and double slashes, capitals | a path matches its pattern only; one handler; nothing of a path is lost |
| HTTP pipeline and handlers (`lib/http/pipeline.go`, `serialization.go`, `server.go`) | files in a directory | GET, POST of files, echo, user agent, gzip | file system, one goroutine per request | one bad request, one length that cannot be allocated, or one 404 to a client that accepts gzip, ends the process; calls that fail half-way; GET and POST of a file at the same time | whole contents, right lengths, every whole request answered |
| Configuration and start-up | flags | parse, log, random id | RDB file, leader | the order: file, handshake, listener, clients | a server that cannot start exits |

How they interact on a leader: `handleConnection` parses a command (RESP),
`HandleCommand` queues it or calls its handler, which takes the store's lock for
each access and, for SET and INCR, then sends the serialised command on
`EventsChannel`. The fan-out goroutine takes it from there, holds `mu` for reading
and sends it to every subscriber's channel, from which `HandlePSync` writes it to
the replica's connection. On a follower, `startReplicationListener` parses that
stream and calls the same `HandleCommand`. Before that, `main` loads the RDB file into
the store and, on a follower, greets the leader and drops the RDB file that it sends.
The HTTP server is a program of its own: `main` accepts connections, and each one's
goroutine (`HttpPipeline.Handle`) reads a request, asks the router for a handler and
runs it; the handlers of files meet in the directory.

## Modules

| Module | What it models | Status |
|---|---|---|
| `StreamStore` | `SetStream`, `GetStream`, `XReadStream`, their searches, and XADD, XRANGE, XREAD over them | done |
| `StreamStoreProofs` | increasing ids, append-only streams, exact reads, when ranges panic, the wildcard | done |
| `KvStore` | `Get` and `Set`, clock, deadlines, RWMutex, map races | done |
| `KvStoreProofs` | what a GET answers, when deadlines go away, what a crash needs | done |
| `CommandServer` | `handleConnection`, dispatch, transaction queues, SET (with px), INCR, GET, TYPE, XADD and what they publish | done |
| `CommandServerProofs` | what a transaction holds and runs, agreement of replicas | done |
| `RespWire` | serialisation, lexer and parser on a stream in pieces, `handleConnection` and `startReplicationListener` around them, `ProcessedBytes` | done |
| `RespWireProofs` | what is parsed is what was sent, the offset, when the process panics | done |
| `Broadcast` | abstract: one log, and a gapless part of it on each member's connection | done |
| `PubSub` | `PubSubManager.Start`, `HandlePSync` and the publishing end of SET and INCR; implements `Broadcast` | done |
| `PubSubProofs` | the window of the panic, every write published once, the refinement of `Broadcast` | done |
| `Replication` | both ends of the connection between a leader and a follower from its start on, both stores, ends and restarts of both; composes `Broadcast` | done |
| `ReplicationProofs` | a follower is never ahead, never goes back, and agrees on what follows its subscription | done |
| `RdbFile` | `ReadRdbFromFile` byte by byte over a file that may be cut, `InitialiseFromRdbFile` | done |
| `RdbFileProofs` | all of a database or nothing, whole files are loaded | done |
| `HttpRouter` | `match` and `getPathSegments` as operators | done |
| `HttpServer` | requests as goroutines, the five handlers, the directory, gzip, the ends of the process | done |
| `HttpServerProofs` | the router: one handler, exact matching, nothing of a path lost, for paths of any length; the server: whole answers and files, announced lengths, what ends the process | done |

`MC<Module>` EXTENDS a module and defines what its cfg files need (sets of
integers, requests, snapshots, symmetry); nothing else. `MCHttpRouter` is a second instance of
`HttpServer`, with every short path as a request.

### StreamStore

`stream[k]` is the slice of ids of a key (`kind[k]` tells a stream from a string
and from nothing); entries' fields are left out, as nothing tells them apart.
`XAddCall` is HandleXAdd up to the lock, where `SetStream` reads the clock;
`XAddLocked` is the rest, under the lock: the rejection messages, the wildcard
(`NewId`, with `Succ` in Go's two's-complement `int`) and the append. XRANGE and
XREAD change nothing but may panic: they are the operators `GetStream` and
`XReadStream`, which keep the searches' defaults, and the action `XRange` for the
panic. `SetString` is a SET on the same key, which drops a stream.

### KvStore

A Get is five steps: `GetRLock`, `GetRead` (clock and deadline), `GetDeleteBegin`
and `GetDeleteEnd` around the map delete, and `GetReturn`. Go's runtime ends the
process when it notices two goroutines in a map one of which writes: `MapRace` is
that outcome, and surviving it is the other. `Set` reads the clock before its
lock. Deadlines are `uint64` (`Deadline`, modulo `Modulus`).

### CommandServer

`pc[c]` is the point of `handleConnection` or of a handler at which connection `c`'s
goroutine is between two lock acquisitions. `Dispatch` is the test of `IsInTransaction`
and the switch of `HandleCommand`; `Id(c)` is the context's connection id, which is the
zero id in the loop of `HandleExec`. `mirror` is history: the store of a replica that
applied everything published so far. `overlap` records keys on which commands of two
connections overlapped: for those the code promises nothing (INCR is two lock
acquisitions, and publishing is not under the lock of the change). `nested` is history
too: some client has sent MULTI inside MULTI, from when on every EXEC queues its
commands under the zero id; `ExecRunsQueued` says that nothing else does that.

`timed` and `mtimed` are the keys with a deadline, here and at the replica. The clock is
left out: a GET, TYPE or INCR that looks at a deadline may find it over or not
(`FindsOver`, `FindsValue`), here and there at different times, which covers every clock.
What it then does is Store.Get's: the deadline goes, the value stays, the caller is told
that there is none, and nothing is published. INCR reads the same way on both
sides, so the leader and a replica part on such a key; `expired` is the history of these
keys, and `ReplicaGet` is a client that reads at the replica (one that writes there is left
out). `SetBadPx` is the px that is no integer, an error that ends the connection or the
EXEC. PING, ECHO, INFO, CONFIG, KEYS and WAIT change nothing and are left out, as are
commands with arguments missing or of another type, on which the handlers' indexing and type
assertions panic.

### RespWire

With RdbFile the only module in which characters matter: the lexer counts and slices
bytes.
`Fill` is a `bufio.Reader` call that asks the connection for more and gets any
non-empty part of what is on the way (which covers segmentation, delays and the
4096 bytes of the buffer); `NeedsMore` says when each of `ReadByte`, `ReadString`,
`Peek` and `Read` does so, and is external code. `ReadLinePanics` has the two panics
a stream can cause: `line[:len(line)-2]` of a line cut short, and `make` with a
negative length. `stack` holds what `parseArray`'s activations still lack.
`sender` chooses who is on the other side and with it the loop that reads:
`handleConnection` returns on an error, `startReplicationListener` goes on at the
next byte. The end of a connection may be an error other than `io.EOF` (`reset`,
`TokenFails`): it is returned by one Read, and the listener goes on to the end behind it.
Lengths have one digit; the content of an inner array, which no handler
reads, is left out, and so is a client that sends the null string itself.

### PubSub and Broadcast

An unbuffered send and its receive are one step of both goroutines: `Publish`
(writer and fan-out), `FanSend` (fan-out and handler), `Subscribe` and `Unsubscribe`
(handler and subscription goroutine). `subPc = "locking"` is a waiting `mu.Lock`, and
`FanRLock` does not pass it, as `sync.RWMutex` lets no reader overtake a waiting
writer. `FanSendClosed` is the panic of a send on a closed channel. A reconnecting
replica has a new subscriber id and is a new element of `Replicas`; `Flaky` are those
whose write may fail. `log`, `joined`, `first` and `out` are history. The mapping to
`Broadcast` takes `subscribers` for the members, and a `Window` of 2: one event in the
fan-out's hands and one in the handler's. A window of 1 fails.

### Replication

One follower, in the module's time one process after another, each with a
connection of its own (`Replicas`, as a new subscriber id is a new member of
`Broadcast`). The leader's fan-out is `Broadcast` itself, not `PubSub` again: `PubSub`
implements it, and the two ways in which that ends, the panic and the wait of three,
are `LeaderEnds` and `Wedge`. The leader's goroutine for the connection goes through
`Answer` (handleConnection with HandlePing, HandleReplconf and the first line of
HandlePSync), `WriteRdb`, `Subscribe` and `Deliver`; the follower's main through `Start`,
`Ask` and `Hear` (`ReplicationClient.send` for each of the four requests), `ReadRdb`; its
listener through `Replay`. What is sent is the command, and the follower runs it on its own
store: `Run` is HandleSet and HandleIncr on a value, on both sides. A value is the number of
the SET that it stems from, the INCRs run on it since and whether that SET was of an
integer, so that older and newer, and a different number of INCRs, can be told apart.
Clients write one command at a time and without px (races of writers, and deadlines, are
CommandServer's); a value loaded from a file is an integer, and INCR does not overflow.

`ReadRdb` has the outcomes of the one `Read` of `DeserializeRdb`: all of the file, or a
part, whose rest is then skipped byte by byte by the lexer, except that a rest in which
it finds the `-` of an error line takes the next command with it (`Swallow`). `Tear` is a
replicated command that arrives in two segments and that RespWire shows to be lost.
What the leader wrote and the follower has not read may be lost when the leader ends.

### RdbFile

The file is a sequence of bytes, cut anywhere. `Saved` is what a Redis server writes
for a snapshot (external code: lengths in one or two bytes, numbers in their own
encoding, both units of deadlines), and each action is one part of the loop of
`ReadRdbFromFile`: a name of metadata, its value, the head of a database, and deadline,
key and value of an entry. `r` is the `bufio.Reader` with the end of its buffered bytes:
`Read` returns what is buffered and no more, which the callers take for all there is
and refuse if it is short. `Goto` ends the process on an error, as
`InitialiseFromRdbFile` does. Keys are one byte long, and no database has a key twice
(`SnapshotsAssumption`), as in any file that Redis writes. `With` is Go's `m[key] = value`.
A snapshot's deadline has its unit and its number; `SavedDeadlines` is what they say in
milliseconds, which the loaded deadlines are not where the unit is seconds.

### HttpRouter and HttpServer

A path is a sequence of pieces, a slash or a run of other characters. `Place(s, n)` is
where iteration n of the scanning loop starts, so that `match` and `getPathSegments` are
quantifiers over iterations and not loops. In `HttpServer` a goroutine goes through
`ReadHead` (with the router's choice), `ReadBody` and the steps of its handler: OpenFile
(os.Open and Stat), `ReadBlock`, `ReadEof` for a GET, `CreateFile` (which truncates),
`WriteFile`, `Created` for a POST. A content is a sequence of blocks that know their
body and their place, so that a mixture shows. Every exit, `log.Fatal` and panic is
`End`: the process is down, and `Restart` finds the directory as it was left. `HeadCut`
and `BodyCut` are requests that do not arrive whole in the way the code expects; `BadLength`
is the panic of `make` on a Content-Length that is negative or too large (`sized` is false).
The operating system may fail a call: `AcceptFails` ends the process, `OpenFails`,
`CreateFails` and `WriteFails` answer 500, the last after the file was emptied and perhaps
written in part, `ReadFails` ends the answer, or with gzip the process, and `StatFails`
leaves the connection without an answer (`pc` is then "silent"). A name in `Directories`
(nothing, a dot or two, a subdirectory) opens a directory.

## Runs

Every passing run explores its whole bounded state space. Deadlock is not checked:
clients may stop sending at any time, and the bounds end every behaviour.

| Run | Question | Bounds, and why they are enough |
|---|---|---|
| `stream_store` | do ids increase with a clock that goes back while XADDs wait for the lock; are ranges and reads exact; when can they panic | one key (keys do not meet), two connections (the race is pairwise), three milliseconds and sequence numbers up to a largest int of 2, so that the wildcard wraps; streams of up to three ids, one more than the searches' special cases (first, last) |
| `xread_exclusive` (violation) | "xread is exclusive" | same |
| `kv_store` | what a GET answers, when deadlines go away, when the process can crash | two keys, two connections, three milliseconds, a px of -3, 0 and 1 and a `uint64` of 16 values, so that a negative px wraps |
| `expired_stays_gone` (violation) | does an expired key stay expired | one key |
| `command_server` | what a transaction runs; whether replicas agree with the leader | two connections, one key, five commands in all: a transaction of one command around other commands, a SET px, a read past its deadline and an INCR, or a nested MULTI and the EXECs after it; all nine commands, px absent, an integer and none; int up to 2, so that INCR overflows; 4.2 million states |
| `pub_sub` | does the fan-out implement `Broadcast`; when does it panic; is each SET published once and in order; is every write answered and every event delivered | two replicas, both with connections that may fail, as many as the wait cycle needs; two writers, two events, enough for a replica to be two behind |
| `resp_wire` | is what is parsed what was sent; is the replica's offset exact; when does the process panic; does a command wait for a later one | two commands of three kinds, every way of cutting the stream into pieces and of losing its end, with and without an error of the last Read, three kinds of sender |
| `replication` | what a follower has of its leader's writes; does it start, subscribe and catch up | two starts of the follower (the second meets what the first left at the leader), one restart of the leader, one key, three commands, each SET or INCR: one before, one between RDB and subscription, one after |
| `rdb_file` | does a server that starts have all of its data; is a whole file loaded | ten snapshots: no database, one with keys of every kind of deadline, two databases, values of 0 to 64 bytes, a number, 64 keys, a string of 64 bytes that ends like a file; each file whole and cut at every byte; a buffer of 64 bytes, so that strings and deadlines lie across its end |
| `rdb_deadlines` (violation) | "the expire timestamp is expressed in seconds" | same |
| `http_router` | does every path go where it is written to | all paths of up to five pieces out of six, a slash and words with and without capitals: one more than the longest pattern's four, for trailing and double slashes |
| `http_server` | are answers and files whole; what ends the process; is every request answered | two connections (overlaps are pairwise), each with one request after another, one file and two names of directories, bodies of one and two blocks, a length that cannot be allocated, every call failing, one restart; 1.1 million states |

What the passing runs show that is not obvious from the code:

- `AppendOnly` with `IdsIncrease`: a reader that resumes after the last id it saw
  misses nothing, although the clock may go back between XADDs.
- `ReadsExactWhenCovered` delimits where the searches are
  right; outside (no entry on the inner side of a bound) they are not, and
  `xread_exclusive` shows one case that contradicts the source's own comment.
- `GetAnswers`, `DropOnlyWhenDue`, `CrashNeedsTwoGets`: between Get's comparison and
  its delete no SET can renew the deadline, as the read lock keeps writers out; the
  price is a crash, which needs two Gets and an expired key. A SET without px keeps an
  earlier SET's deadline: `GetAnswers` speaks of the *last px* for that reason.
- `ReplayAgreesUnlessOverlap`: failures in the middle of EXEC, lost connections
  and errors never leave something applied and not published. Two things make a
  replica differ: overlapping commands on one key, and a deadline that somebody finds over.
  After SET k 5 px 100, a GET of k on the leader past the deadline, and INCR k, the leader has 6
  and the replica 1.
- `OrderedRangePanicsIffEmpty`: a refused XADD under a new key leaves an empty stream, on
  which an XRANGE with an id as its end panics; no other stream does.
- `ExecRunsQueued`: one MULTI inside a MULTI, of any client, makes every later EXEC of
  every client queue its commands under the zero id instead of running them; nothing
  else does.
- `WriteReturnsUnlessWedged`, `DeliveredUnlessWedged`: the panic and one three-way
  wait are the *only* ways in which a failing replica hurts other clients.
- `ParsedAsSent`, `OffsetExact`: a stream may be cut anywhere but inside
  a bulk string. If it is cut there, a client's connection is closed, and a follower
  goes on with a place in the stream that it has lost; its offset is then too small
  and never too large. `ProcessedBytes` makes up for commands that fail. `PanicOnly` has
  the panics: a line cut short, and a string that is empty, which `AsRespString` writes
  as the null string.
- `AgreesOnWhatFollows`: a follower that has caught up has of every key what the commands
  since it subscribed make of it, starting from its own file, and *nothing* of what was written
  before, also not of what was written while it was being sent the RDB. So it agrees with the
  leader on every key that was SET since, and need not on one that was only incremented:
  after SET foo 100 before and INCR foo after, the leader has 101 and the follower 1.
  `NeverAhead`, `NeverGoesBack`: it has no later SET and no more INCRs on the same SET than
  its leader, as long as their connection exists, and its clients never see a key lose either.
  A value it shows may all the same be one that the leader never had, as that 1.
- `StartEnds`, `CatchesUp`: the handshake has no state in which both
  sides wait, and an RDB that is read in part delays nothing.
- `AllOrNothing`: wherever a file is cut, a server that starts has the whole of a
  database or none of it, if the snapshot is `Short`: strings and tables of less than 64,
  and no values saved as numbers. Of several databases the first is loaded if the file ends
  after it. Of a deadline in seconds it says only that there is one: `rdb_deadlines`
  shows that its number is taken for milliseconds.
  Beyond `Short` the code reads the first byte of a longer length as the length and goes on
  from the wrong place. Most such files are then refused, but not all:
  `MisreadSnapshot`, a string of 64 bytes whose last is 0xFF, is accepted whole, with
  the wrong value. The condition came from the search for an invariant.
- `WholeFileLoads` needs a file that fits into the reader's buffer: in a longer one a
  string across the buffer's end is refused, and the server does not start.
- `MatchInvertsJoin`, `NothingLost`, `OneHandler`: the scanning loops are right for every
  way of writing slashes. `NothingLost`: a path that matches is its fixed part and its
  variable with the slashes before, between and after them, the variable holds no
  slash, and it is empty only in a path with a double slash.
- `LengthExact`, `GetsSnapshot`, `FileIsLastPost`: without overlapping requests of a file
  and without failing calls GETs and POSTs are exact, also after the process has ended in
  between; with them nothing is promised. A Write that fails answers 500 and leaves the
  file empty or with a part of the body, until the next POST. `DownOnlyFrom` has all that
  ends the process: a request that does not arrive whole, a length that `make` refuses, an answer
  without a body to a client that accepts gzip, and an error of Accept or of a Read for gzip.

### Disagreements between code and documentation

Each violation run checks one statement of the repository's docs or comments: XREAD from
the newest id returns the whole stream, an expired key comes back at the second GET, and a
deadline of an RDB file that is expressed in seconds is taken for milliseconds.
`PROJECT.json` quotes the lines under "findings". Other weak points are not stated against
a doc but as the exact condition of a property that holds, for example a MULTI
inside a MULTI (`nested` in `ExecRunsQueued`), an empty string on its way to a replica
(`PanicOnly`), a departing replica that panics or blocks the leader (`PanicWindow`,
`Wedged`), a write that falls between RDB and subscription (`AgreesOnWhatFollows`), a 404
to a client that accepts gzip (`DownOnlyFrom`).

### Fairness

Liveness is checked in `pub_sub`, `resp_wire`, `replication` and `http_server`.
Go's scheduler runs every goroutine that can run: weak fairness of the
subscription goroutine and of the reader of a
connection. Go serves the goroutines that wait on a channel or on a mutex in the order
in which they came, so a goroutine whose send or lock is possible again and again goes
on: strong fairness of `Publish`, of the fan-out goroutine (`FanRLock`) and of each handler
(`Subscribe`, `Unsubscribe`). Fairness of a
handler includes that a write to a replica's socket ends or fails: a replica that
neither reads nor closes is not covered, and would block the leader's writers. Nothing
is assumed of clients and replicas: `BeginPublish`, `PSync`, `Send` and `Close` are not
fair, and a write that could fail may also succeed for ever.

`replication` assumes weak fairness of the publishing writer, of each handler up to its
subscription and of what it does after it, and of the follower's main and listener
(TCP delivers what was written to a connection that exists). No process has to
start or end, and no client has to write. Weak fairness is enough for `Publish`,
as a subscription that comes in between does not disable it. `http_server`
assumes weak fairness of a goroutine from its
handler on (`Proceed`): a client may send its request late or never, and nothing obliges a
call to fail, so that the end of an answer never hangs on an error (`CallFails`).

## Theorems

TLAPS (`tlapm`) checks all proofs. Each is for every value of the constants that the
named assumption of its module admits; no set of connections, keys, replicas, values or
requests is bounded, nor the length of a stream, a log, a queue, a path or a file. Every safety
property of the passing runs is proved. Each proof goes the same way: an inductive invariant `IInv` (or `TypeOK` with the property), `Init => IInv`,
`IInv /\ [Next]_vars => IInv'` action by action, and `IInv` implies the property.

**StreamStoreProofs** (`StreamConstants`: times and numbers are naturals of Go's
`int`). `TypeCorrect`: `TypeOK` is inductive once the accepted id is known to be a pair
of naturals, which is lemma `AcceptedId`: the wildcard's wrapped number is negative, so
it is never after the top entry and is rejected. `StreamsIncrease`: `TypeOK /\ IdsIncrease`
is inductive; the id that is appended is after the last one (the rejection test), hence
after all (`AppendIncreasing`). `StreamsAppendOnly` is an action property that needs
only types. `ReadsCorrect` and `RangePanicsOnlyOnEmpty` follow from increasing ids
and from where the three searches stop (`FindlStops`, `FindrStops`,
`XReadFindlStops`): a search that finds nothing returns a default, and the lemmas say for
which bounds that default is right. `WildcardsAccepted` is about `NewId` alone.

**KvStoreProofs** (`KvConstants`: the clock and the px options take at most half of the
range of `uint64`, so that a wrapped deadline is never taken for a due one).
`DeadlineInv`: a deadline in the map is the one the last SET with a px computed.
`DueInv`: what a Get has decided under the read lock stays so until it has deleted,
because no SET gets the lock meanwhile. `AnswersCorrect` needs both, as the comparison and
the answer are different steps; `DropsOnlyWhenDue` and `CrashesOnlyInTwoGets` are about
the step of the delete.

**CommandServerProofs** (`ServerConstants`, `QueueConstants`: no queue is not a
queue). `ClientInv` and `ExecInv` tie what the client has asked for (`asked`) to the
queue in the map and to what the loop of `HandleExec` has run and still has; `QueueInv` says
that the queue of the zero id is empty until somebody has nested a MULTI, without which
`ExecExecutes` is not inductive. `AgreeInv`: on a key without overlap,
whose deadline nobody found over, one connection
at most is between its change and its publishing, and the store is one command ahead
of what the replicas compute. Both conditions only grow, so a step need keep it only for
the keys that are still outside. From them `TransactionsExact`, `ExecExecutes` and
`ReplayAgrees`.

**PubSubProofs** (`PubSubConstants`). `IInv` adds to the types: `FanInv` (under the
read lock the range's remaining keys are in the map, and its event is the log's last),
`MsgInv` and `HandlerInv` (where a handler is tells whether its replica is in the map, or
which message about it is under way), `CountInv` (a subscriber's connection, what its
handler holds and what the range still owes it add up to the log) and `EventInv` (what a
handler holds is the log's next event). None is inductive alone: that a message never
names a replica twice needs `HandlerInv`, which needs `FanInv` for the panic, and
`CountInv` needs that the map does not change under the range. From `IInv`:
`TypeCorrect`; `PanicOnlyInWindow`; `PublishedOnce`, with the filter of the log by writer
that `KeepsAnswered` and `AppendsAnswered` follow step by step; and
`FanOutImplementsBroadcast`, in which `FanRLock` is Broadcast's `Publish`, `SubApply` its
`Join` and `Leave`, `Write` its `Deliver`, and every other step stutters.

**RespWireProofs** (`WireConstants`: commands of 1 to 9 payloads of 0 to 9 bytes, so
that every length has one digit; their number and that of commands are free). The
byte stream is a function of what was sent (`StreamOf`), and `Framing` says where each
command and each payload lies in it, by induction over commands and payloads
(`FlatStep`, `FlatPlaces`). The invariant: `StreamInv`, the buffer and the wire are what the
stream holds from `consumed` on, whatever the cuts; `PlaceInv`, the parser is between
two commands, in a header, after k payloads of the current command, at its end, or
at the end of a stream that lost its end; `CountInv`, what the two counters and the
loop's copy have to do with `consumed` (they count an error and the end of the stream as a byte
each: `Late`, and `ResetInv` has that neither comes before the end); `OffsetInv` and `PrefixInv`. `PlaceInv` is the
heart: with `StreamInv` it tells what the next byte is, hence which branch of the parser is
taken. From it `ParsedIsSent`, `OffsetsExact`, `PanicsOnly` and `TypeCorrect`. It says
nothing after a bulk string was read in part, and then only the counts are known.

**ReplicationProofs** (`ReplicationConstants`). `LogInv`: the numbers of the log increase, and a
write that is not published yet is the highest. `PartInv`: what a connection carries is a
part of the log while its handler is subscribed, and increases afterwards as well.
`StoreInv`: the leader's store is what its log makes of it (`Made`), and the pending command.
`ReplicaInv`: the follower's value of a key stems from a SET it has read, is `Behind` what the
log makes of the key up to where the listener is, and is exactly what the log makes of it
from the subscription on if no command was torn. That running one more command keeps
`Behind`, on both sides or on the leader's alone, is what the lemmas about `Made` are for: a
command that is skipped costs a SET or an INCR and never adds one. `HandlerInv` and
`FollowerInv` say where both ends are. From them `ReplicaNeverAhead`, `ReplicaNeverGoesBack`
(an action property) and `FollowersAgree`. The run has SETs to integers and INCRs; the theorems
also have SETs to other texts, on which INCR is an error.

**RdbFileProofs** (`SnapshotsAssumption`: any number of metadata, databases and entries;
`BufSizeAssumption`: the least buffer of `bufio`). Three layers. *The bytes*: `FlattenSeq` of
any number of pieces puts each where the ones before it end (`Placed`, `PlacedPiece`), so
`SavedIs` gives the `Layout` of a snapshot: where each of the metadata and each entry of the
first database lies, what its bytes are (`MetaIs`, `EntryIs`, `DatabaseIs`), and which
separator follows. *The reader*: one lemma for each call of `bufio.Reader` (`ReadByteIs`,
`DiscardIs`, `ReadFullIs`, ...) says how far it moves, when it fails, and that in a file that
fits the buffer it fails only at the end. *The invariant*: `FileInv`, the file is a prefix
of the layout; `StoreInv`, nothing is in the store before it is served; `PlaceInv`, the
reader is at one of the metadata (`AtMeta`, `InMeta`), at, or in, entry n + 1 with exactly the
first n entries in the maps (`AtEntry`, `AtKey`, `AtValue`), after the last (`AtEnd`), done
(`AtLoad`, `Served`), in a second database and so on its way to the exit (`Many`), or
`Refused`, which only a file may be that is cut, not supported or too long. `PlaceInv` is needed because the properties
speak only of the end: with `FileInv` it tells which byte is read next. TLC checked it on
the files of `rdb_file` before it was proved. From it `ServesAllOrNothing` and
`LoadsWholeFiles`.

**HttpServerProofs** (`HttpConstants`). The handlers' patterns have at most two
parts, so the loops of `match` are unrolled three times (`PlaceSteps`) for a path of any
length. `RoutesToOne`, `MatchingInvertsJoining` and `MatchLosesNothing` are then facts about
sequences, stated for every request that has arrived. The rest builds on
them: a connection past its head has one of the five handlers' calls
(`CallInv`). `OverlapInv`: who has a file open while another writes it knows of it, and
a file that one POST alone has created is empty until it is written. `StreamInv`: a GET
without overlap has read a part of what the file was at its opening. A call that fails
puts its request among the `disturbed` or its file among the `damaged`, or sets `failure`. From them
`GetsAreSnapshots`, `LengthsExact`, `FilesAreLastPosts` and `EndsOnlyFrom`.

Induction. The library's induction theorems take an operator, which the installed
provers cannot instantiate. Where a proof needs induction over the naturals it takes a
least counterexample instead: lemma `Least` gets it from the well-foundedness of `<` on
`Nat`, and `Induct` states it for sets.

**Only model-checked.** Liveness (`EverythingParsed`, `WriteReturnsUnlessWedged`,
`DeliveredUnlessWedged`, `StartEnds`, `CatchesUp`, `Answered`), which is out of the prover's
reach, and the counterexamples of the three violation runs.

## Not modelled

- `resp_helpers.go` beyond the arrays of `AsRespString`: formatting of fixed replies.
- INFO, CONFIG, KEYS, ECHO, PING, WAIT: they change no state.
- Commands with arguments missing or of another type, and the null string from a client
  (`resp` panics on it as on the leader's): the end of the process that `Unknown` has already.
- Flags, logging, random ids: plain input and output.
- A client that writes to the follower: `HandleCommand` allows it, and the two
  stores then differ by design of the code.
- The follower's offset after a split RDB file: `RespWire` starts at a clean stream.
- The queue of a connection that closes inside MULTI stays in `TxQueue` (a leak that no later
  connection meets), a command that is not known panics by intention (`Unknown`), and an
  XREAD of several streams is not a snapshot of them: outcomes of the models without
  a property of their own.
- Headers' characters, the content of gzip and of entries of streams.
- A replica or an HTTP client that stops reading without closing: its goroutine waits for
  as long as that lasts.

## Plan

The modules, in the order in which they were written: `StreamStore`, `KvStore`,
`CommandServer`, `Broadcast` and `PubSub`, `RespWire`, `Replication`, `RdbFile`, `HttpRouter` and
`HttpServer`; then the proofs, from the store outwards. All of them are done. What remains:

1. A string or a number that `readStringValue` misreads (`Short`): if the code learns the
   other encodings of lengths, `readStringValue` and `ReadFull` change, `Short` goes away, and
   `AllOrNothing` holds for every snapshot.
2. `RespWireProofs` and `RdbFileProofs` both hold the lemmas about `FlattenSeq` and the least
   element; they would move to a module that both extend.
3. The number of runs stays small: a new question joins the run of its module.
