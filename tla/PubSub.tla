-------------------------------- MODULE PubSub --------------------------------
(***************************************************************************)
(* The leader's replication fan-out: the two goroutines of                 *)
(* PubSubManager.Start (app/replication/pubsub_manager.go), the loop of    *)
(* HandlePSync that feeds one replica (app/cmd/psync.go), and the write    *)
(* commands that publish (HandleSet and HandleIncr, app/cmd/set.go and     *)
(* incr.go), which meet on unbuffered channels and a sync.RWMutex.         *)
(*                                                                         *)
(* An unbuffered send and its receive are one action of both goroutines.   *)
(* A call of mu.Lock that waits keeps out later calls of mu.RLock, as      *)
(* sync.RWMutex does.                                                      *)
(***************************************************************************)
EXTENDS Integers, Sequences

CONSTANTS
  Replicas,    \* the PSYNCs the leader is sent; a reconnecting replica is a new one
  Flaky,       \* those whose connection may fail
  Writers,     \* the goroutines that execute SET and INCR
  MaxEvents    \* bound: the write commands of one writer

ASSUME PubSubConstants ==
  /\ Flaky \subseteq Replicas
  /\ MaxEvents \in Nat

VARIABLES
  \* the writers
  wPc,           \* "idle", or "publish": at EventsChannel <- event
  sent,          \* the number of write commands a writer has issued
  \* the fan-out goroutine
  fanPc,         \* "recv", "rlock", "range" or "send"
  fanEvent,      \* the event taken from EventsChannel
  fanTodo,       \* the subscribers the range has not served yet
  fanCur,        \* the subscriber the range is at
  \* the subscription goroutine and the map
  subPc,         \* "recv", "got" (before mu.Lock) or "locking" (in mu.Lock)
  subMsg,        \* the SubscriberEvent taken from SubscriptionsChannel
  subscribers,   \* the keys of mgr.subscribers
  \* the PSYNC handlers
  hPc,           \* the point of HandlePSync a replica's handler is at
  hEvent,        \* the event it received
  \* the process, and history
  panicked,      \* a send on a closed channel ended the process
  log,           \* the events fanned out so far
  joined,        \* the replicas that have ever been in the map
  first,         \* the length of the log when a replica entered the map
  out            \* what was written to each replica's connection

wvars == <<wPc, sent>>
fanvars == <<fanPc, fanEvent, fanTodo, fanCur>>
subvars == <<subPc, subMsg, subscribers>>
hvars == <<hPc, hEvent>>
history == <<log, joined, first, out>>
vars == <<wvars, fanvars, subvars, hvars, panicked, history>>

Events == Writers \X (1 .. MaxEvents)
NoEvent == <<>>
NoReplica == "no replica"
NoMsg == [Action |-> "none"]
Messages == [Action: {"subscribe", "unsubscribe"}, SubscriberId: Replicas]

Init ==
  /\ wPc = [w \in Writers |-> "idle"]
  /\ sent = [w \in Writers |-> 0]
  /\ fanPc = "recv" /\ fanEvent = NoEvent /\ fanTodo = {} /\ fanCur = NoReplica
  /\ subPc = "recv" /\ subMsg = NoMsg /\ subscribers = {}
  /\ hPc = [r \in Replicas |-> "psync"]
  /\ hEvent = [r \in Replicas |-> NoEvent]
  /\ panicked = FALSE
  /\ log = <<>> /\ joined = {}
  /\ first = [r \in Replicas |-> 0]
  /\ out = [r \in Replicas |-> <<>>]

-----------------------------------------------------------------------------
(* A SET or INCR *)

\* The handler has changed the store and is about to publish.
BeginPublish(w) ==
  /\ ~panicked
  /\ wPc[w] = "idle" /\ sent[w] < MaxEvents
  /\ wPc' = [wPc EXCEPT ![w] = "publish"]
  /\ sent' = [sent EXCEPT ![w] = @ + 1]
  /\ UNCHANGED <<fanvars, subvars, hvars, panicked, history>>

\* Mutant of Publish: the send does not wait for the fan-out to be ready.
PublishWithoutReceiver(w) ==
  /\ ~panicked
  /\ wPc[w] = "publish" /\ fanPc \in {"recv", "rlock"}
  /\ wPc' = [wPc EXCEPT ![w] = "idle"]
  /\ fanPc' = "rlock" /\ fanEvent' = <<w, sent[w]>>
  /\ UNCHANGED <<sent, fanTodo, fanCur, subvars, hvars, panicked, history>>

\* Mutant of Publish: the event published is the writer's next.
PublishNext(w) ==
  /\ ~panicked
  /\ wPc[w] = "publish" /\ fanPc = "recv"
  /\ wPc' = [wPc EXCEPT ![w] = "idle"]
  /\ fanPc' = "rlock" /\ fanEvent' = <<w, sent[w] + 1>>
  /\ UNCHANGED <<sent, fanTodo, fanCur, subvars, hvars, panicked, history>>

\* EventsChannel <- event meets the fan-out's receive; the handler replies.
Publish(w) ==
  /\ ~panicked
  /\ wPc[w] = "publish" /\ fanPc = "recv"
  /\ wPc' = [wPc EXCEPT ![w] = "idle"]
  /\ fanPc' = "rlock" /\ fanEvent' = <<w, sent[w]>>
  /\ UNCHANGED <<sent, fanTodo, fanCur, subvars, hvars, panicked, history>>

-----------------------------------------------------------------------------
(* The fan-out goroutine *)

\* The fan-out holds mu for reading.
ReadLocked == fanPc \in {"range", "send"}

\* mgr.mu.RLock(): not while the subscription goroutine waits in mu.Lock.
FanRLock ==
  /\ ~panicked
  /\ fanPc = "rlock" /\ subPc # "locking"
  /\ fanPc' = "range" /\ fanTodo' = subscribers
  /\ log' = Append(log, fanEvent)
  /\ UNCHANGED <<wvars, fanEvent, fanCur, subvars, hvars, panicked, joined, first, out>>

\* The range goes to a subscriber it has not served, in no particular order.
FanPick(r) ==
  /\ ~panicked
  /\ fanPc = "range" /\ r \in fanTodo
  /\ fanPc' = "send" /\ fanCur' = r
  /\ UNCHANGED <<wvars, fanEvent, fanTodo, subvars, hvars, panicked, history>>

\* channel <- event meets the range of the PSYNC handler.
FanSend(r) ==
  /\ ~panicked
  /\ fanPc = "send" /\ fanCur = r /\ hPc[r] = "range"
  /\ fanPc' = "range" /\ fanTodo' = fanTodo \ {r} /\ fanCur' = NoReplica
  /\ hPc' = [hPc EXCEPT ![r] = "write"]
  /\ hEvent' = [hEvent EXCEPT ![r] = fanEvent]
  /\ UNCHANGED <<wvars, fanEvent, subvars, panicked, history>>

\* HandlePSync has run close(replicationChannel).
ChannelClosed(r) == hPc[r] = "done"

\* Go panics when a channel is closed under a send, or before it.
FanSendClosed(r) ==
  /\ ~panicked
  /\ fanPc = "send" /\ fanCur = r /\ ChannelClosed(r)
  /\ panicked' = TRUE
  /\ UNCHANGED <<wvars, fanvars, subvars, hvars, history>>

\* Mutant of FanRUnlock: the range gives up subscribers that are not ready.
FanRUnlockEarly ==
  /\ ~panicked
  /\ fanPc = "range"
  /\ fanPc' = "recv" /\ fanEvent' = NoEvent /\ fanTodo' = {}
  /\ UNCHANGED <<wvars, fanCur, subvars, hvars, panicked, history>>

FanRUnlock ==
  /\ ~panicked
  /\ fanPc = "range" /\ fanTodo = {}
  /\ fanPc' = "recv" /\ fanEvent' = NoEvent
  /\ UNCHANGED <<wvars, fanTodo, fanCur, subvars, hvars, panicked, history>>

-----------------------------------------------------------------------------
(* The subscription goroutine *)

\* mgr.mu.Lock() is called; from here on RLock waits.
SubLockCall ==
  /\ ~panicked
  /\ subPc = "got"
  /\ subPc' = "locking"
  /\ UNCHANGED <<wvars, fanvars, subMsg, subscribers, hvars, panicked, history>>

\* Lock returns, the map is changed and the lock is given up.
SubApply ==
  LET r == subMsg.SubscriberId IN
  /\ ~panicked
  /\ subPc = "locking" /\ ~ReadLocked
  /\ subPc' = "recv" /\ subMsg' = NoMsg
  /\ \/ /\ subMsg.Action = "subscribe"
        /\ subscribers' = subscribers \cup {r}
        /\ joined' = joined \cup {r}
        /\ first' = [first EXCEPT ![r] = Len(log)]
     \/ /\ subMsg.Action = "unsubscribe"
        /\ subscribers' = subscribers \ {r}
        /\ UNCHANGED <<joined, first>>
  /\ UNCHANGED <<wvars, fanvars, hvars, panicked, log, out>>

-----------------------------------------------------------------------------
(* HandlePSync *)

\* FULLRESYNC and the RDB file are written; their errors are ignored.
PSync(r) ==
  /\ ~panicked
  /\ hPc[r] = "psync"
  /\ hPc' = [hPc EXCEPT ![r] = "subscribe"]
  /\ UNCHANGED <<wvars, fanvars, subvars, hEvent, panicked, history>>

\* A send on SubscriptionsChannel meets the subscription goroutine's receive.
SubscriptionEvent(r, pc, action, next) ==
  /\ ~panicked
  /\ hPc[r] = pc /\ subPc = "recv"
  /\ hPc' = [hPc EXCEPT ![r] = next]
  /\ subPc' = "got" /\ subMsg' = [Action |-> action, SubscriberId |-> r]
  /\ UNCHANGED <<wvars, fanvars, subscribers, hEvent, panicked, history>>

Subscribe(r) == SubscriptionEvent(r, "subscribe", "subscribe", "range")

\* The deferred function, reached when a write failed: it does not wait for
\* the map to change before it goes on to close the channel.
Unsubscribe(r) == SubscriptionEvent(r, "unsubscribe", "unsubscribe", "close")

\* ctx.Conn.Write of an event that succeeds.
Write(r) ==
  /\ ~panicked
  /\ hPc[r] = "write"
  /\ out' = [out EXCEPT ![r] = Append(@, hEvent[r])]
  /\ hPc' = [hPc EXCEPT ![r] = "range"]
  /\ UNCHANGED <<wvars, fanvars, subvars, hEvent, panicked, log, joined, first>>

\* Mutant of WriteFails: the channel is closed without unsubscribing.
WriteFailsThenClose(r) ==
  /\ ~panicked
  /\ hPc[r] = "write" /\ r \in Flaky
  /\ hPc' = [hPc EXCEPT ![r] = "close"]
  /\ UNCHANGED <<wvars, fanvars, subvars, hEvent, panicked, history>>

\* ctx.Conn.Write of an event that fails: the loop is left.
WriteFails(r) ==
  /\ ~panicked
  /\ hPc[r] = "write" /\ r \in Flaky
  /\ hPc' = [hPc EXCEPT ![r] = "unsubscribe"]
  /\ UNCHANGED <<wvars, fanvars, subvars, hEvent, panicked, history>>

\* Mutant of CloseChannel: the handler returns and the channel stays open.
CloseForgotten(r) ==
  /\ ~panicked
  /\ hPc[r] = "close"
  /\ hPc' = [hPc EXCEPT ![r] = "returned"]
  /\ UNCHANGED <<wvars, fanvars, subvars, hEvent, panicked, history>>

CloseChannel(r) ==
  /\ ~panicked
  /\ hPc[r] = "close"
  /\ hPc' = [hPc EXCEPT ![r] = "done"]
  /\ UNCHANGED <<wvars, fanvars, subvars, hEvent, panicked, history>>

-----------------------------------------------------------------------------
FanStep == FanRLock \/ FanRUnlock \/ \E r \in Replicas : FanPick(r) \/ FanSend(r) \/ FanSendClosed(r)
SubStep == SubLockCall \/ SubApply
HandlerStep(r) == Subscribe(r) \/ Unsubscribe(r) \/ Write(r) \/ WriteFails(r) \/ CloseChannel(r)

Next ==
  \/ \E w \in Writers : BeginPublish(w) \/ Publish(w)
  \/ FanRLock
  \/ \E r \in Replicas : FanPick(r) \/ FanSend(r) \/ FanSendClosed(r)
  \/ FanRUnlock
  \/ SubLockCall
  \/ SubApply
  \/ \E r \in Replicas :
       PSync(r) \/ Subscribe(r) \/ Unsubscribe(r) \/ Write(r) \/ WriteFails(r) \/ CloseChannel(r)

Spec == Init /\ [][Next]_vars

\* The Go scheduler runs every goroutine that can go on, and a channel's and
\* the mutex's waiters are served in the order they came: a goroutine whose send
\* or lock could be granted again and again goes on.  Nothing obliges a
\* client to send a command or a replica to connect.
Fairness ==
  /\ \A w \in Writers : SF_vars(Publish(w))
  /\ SF_vars(FanStep) /\ WF_vars(SubStep)
  /\ \A r \in Replicas : SF_vars(HandlerStep(r))

FairSpec == Spec /\ Fairness

-----------------------------------------------------------------------------
(* Properties *)

\* Every variable stays in its set.
TypeOK ==
  /\ wPc \in [Writers -> {"idle", "publish"}]
  /\ sent \in [Writers -> 0 .. MaxEvents]
  /\ fanPc \in {"recv", "rlock", "range", "send"}
  /\ fanEvent \in Events \cup {NoEvent}
  /\ fanTodo \subseteq Replicas
  /\ fanCur \in Replicas \cup {NoReplica}
  /\ subPc \in {"recv", "got", "locking"}
  /\ subMsg \in Messages \cup {NoMsg}
  /\ subscribers \subseteq Replicas
  /\ hPc \in [Replicas -> {"psync", "subscribe", "range", "write", "unsubscribe", "close", "done"}]
  /\ hEvent \in [Replicas -> Events \cup {NoEvent}]
  /\ panicked \in BOOLEAN
  /\ log \in Seq(Events)
  /\ joined \subseteq Replicas
  /\ first \in [Replicas -> Nat]
  /\ out \in [Replicas -> Seq(Events)]

\* The fan-out, the subscriptions and the PSYNC handlers together implement
\* Broadcast: each replica's connection carries a gapless part of the log from
\* the point it was put in the map, and is never more than two events behind
\* (one in its handler's hands, one in the fan-out's).
B == INSTANCE Broadcast WITH member <- subscribers, Window <- 2
ImplementsBroadcast == B!Spec

\* What has been published: the log, and what the fan-out holds and is about to log.
Published == IF fanPc = "rlock" THEN Append(log, fanEvent) ELSE log
Answered(w) == IF wPc[w] = "publish" THEN sent[w] - 1 ELSE sent[w]

\* A SET or INCR that has been answered was published exactly once and in the
\* order of its connection: it is in the log, or the fan-out holds it and is
\* about to lock.
AnsweredOnce ==
  \A w \in Writers :
    LET mine == {i \in DOMAIN Published : Published[i][1] = w}
    IN /\ {Published[i][2] : i \in mine} = 1 .. Answered(w)
       /\ \A i, j \in mine : i < j => Published[i][2] < Published[j][2]

\* The process panics only on a replica whose connection failed, and only in
\* the window between its handler's unsubscribe message and the change of the
\* map: no panic without a departure, and none once the map has changed.
PanicWindow ==
  panicked => /\ fanCur \in Flaky
              /\ subMsg = [Action |-> "unsubscribe", SubscriberId |-> fanCur]

\* The three goroutines wait for each other: the fan-out, holding mu, for the
\* departing replica's handler; that handler for the subscription goroutine;
\* and that one for mu.
Wedged ==
  fanPc = "send" /\ hPc[fanCur] = "unsubscribe" /\ subPc = "locking"

\* Every SET and INCR is answered, unless a failed connection leads to the panic
\* or the three-way wait: nothing else, in particular no order of locking and
\* sending, stops a writer.
WriteReturnsUnlessWedged ==
  \A w \in Writers : wPc[w] = "publish" ~> (wPc[w] = "idle" \/ panicked \/ Wedged)

\* An event that is fanned out while a replica is subscribed gets to its connection,
\* unless a write to that connection fails, or a replica's failure leads to the panic
\* or the three-way wait.
Departing(r) == hPc[r] \in {"unsubscribe", "close", "done"}
DeliveredUnlessWedged ==
  \A r \in Replicas, n \in 1 .. MaxEvents :
    (r \in subscribers /\ Len(log) >= first[r] + n)
      ~> (Len(out[r]) >= n \/ Departing(r) \/ panicked \/ Wedged)
=============================================================================
