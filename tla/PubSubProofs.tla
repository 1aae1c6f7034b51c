---------------------------- MODULE PubSubProofs -----------------------------
(***************************************************************************)
(* Proofs about PubSub, for any replicas, any writers and any number of    *)
(* events: the panic's window, and the refinement of Broadcast.            *)
(***************************************************************************)
EXTENDS PubSub, TLAPS

\* A writer that publishes has issued the command it publishes.
WriterInv == \A w \in Writers : wPc[w] = "publish" => sent[w] \in 1 .. MaxEvents

\* The range serves keys of the map, and its event is the last of the log.
FanInv ==
  /\ fanPc = "rlock" => fanEvent \in Events
  /\ ~ReadLocked => fanTodo = {}
  /\ fanPc = "send" => fanCur \in fanTodo
  /\ ReadLocked => /\ fanTodo \subseteq subscribers
                   /\ fanEvent \in Events
                   /\ Len(log) > 0 /\ log[Len(log)] = fanEvent

\* A message is in the subscription goroutine's hands exactly when it is not
\* receiving.
MsgInv == IF subPc = "recv" THEN subMsg = NoMsg ELSE subMsg \in Messages

InHand(r, action) ==
  subPc # "recv" /\ subMsg = [Action |-> action, SubscriberId |-> r]

\* Where a handler is, and whether its replica is in the map.
HandlerInv ==
  /\ subscribers \subseteq joined
  /\ \A r \in Replicas :
       /\ InHand(r, "subscribe") => r \notin joined /\ hPc[r] = "range"
       /\ InHand(r, "unsubscribe") => r \in subscribers /\ hPc[r] \in {"close", "done"}
       /\ hPc[r] \in {"psync", "subscribe"} => r \notin joined
       /\ hPc[r] = "range" => r \in subscribers \/ InHand(r, "subscribe")
       /\ hPc[r] \in {"write", "unsubscribe"} => r \in subscribers
       /\ hPc[r] \in {"close", "done"} => r \notin subscribers \/ InHand(r, "unsubscribe")
       /\ hPc[r] \in {"unsubscribe", "close", "done"} => r \in Flaky
       /\ r \notin joined => out[r] = <<>>

\* An event the handler has received and not written, and one it is to get.
Held(r) == IF hPc[r] \in {"write", "unsubscribe", "close", "done"} THEN 1 ELSE 0
Todo(r) == IF r \in fanTodo THEN 1 ELSE 0

\* How far behind the log a subscriber's connection is.
CountInv ==
  \A r \in subscribers : Len(log) = first[r] + Len(out[r]) + Held(r) + Todo(r)

\* The event in a handler's hands is the next one of its connection.
EventInv ==
  \A r \in Replicas :
    hPc[r] = "write" => /\ hEvent[r] \in Events
                        /\ hEvent[r] = log[first[r] + Len(out[r]) + 1]

PanicInv ==
  panicked => /\ fanCur \in Flaky
              /\ InHand(fanCur, "unsubscribe")

IInv == TypeOK /\ WriterInv /\ FanInv /\ MsgInv /\ HandlerInv /\ CountInv /\ EventInv /\ PanicInv

-----------------------------------------------------------------------------
\* The fan-out starts with empty logs and nobody subscribed.
LEMMA InitIInv == Init => IInv
<1> SUFFICES ASSUME Init PROVE IInv
  OBVIOUS
<1> USE DEF Init
<1>1. <<>> \in Seq(Events)
  OBVIOUS
<1>2. log \in Seq(Events) /\ out \in [Replicas -> Seq(Events)]
  BY <1>1
<1>3. sent \in [Writers -> 0 .. MaxEvents] /\ first \in [Replicas -> Nat]
  BY PubSubConstants
<1>4. TypeOK
  BY <1>2, <1>3 DEF TypeOK
<1>5. WriterInv /\ FanInv /\ MsgInv /\ CountInv /\ EventInv /\ PanicInv
  BY DEF WriterInv, FanInv, ReadLocked, MsgInv, CountInv, EventInv, PanicInv
<1>6. HandlerInv
  BY DEF HandlerInv, InHand
<1> QED
  BY <1>4, <1>5, <1>6 DEF IInv

\* A message is an element of Messages, whatever replica it is of.
LEMMA MessageType ==
  ASSUME NEW r \in Replicas, NEW action \in {"subscribe", "unsubscribe"}
  PROVE  [Action |-> action, SubscriberId |-> r] \in Messages
BY DEF Messages

\* Every step keeps the variables in their sets.
LEMMA NextType == IInv /\ [Next]_vars => TypeOK'
<1> SUFFICES ASSUME IInv, [Next]_vars PROVE TypeOK'
  OBVIOUS
<1> USE PubSubConstants DEF IInv, TypeOK
<1>1. ASSUME NEW w \in Writers, BeginPublish(w)
      PROVE  TypeOK'
  <2>1. sent[w] + 1 \in 0 .. MaxEvents
    BY <1>1 DEF BeginPublish
  <2> QED
    BY <1>1, <2>1 DEF BeginPublish, fanvars, subvars, hvars, history
<1>2. ASSUME NEW w \in Writers, Publish(w)
      PROVE  TypeOK'
  <2>1. <<w, sent[w]>> \in Events
    BY <1>2 DEF Publish, WriterInv, Events
  <2> QED
    BY <1>2, <2>1 DEF Publish, subvars, hvars, history
<1>3. CASE FanRLock
  <2>1. Append(log, fanEvent) \in Seq(Events)
    BY <1>3 DEF FanRLock, FanInv
  <2> QED
    BY <1>3, <2>1 DEF FanRLock, wvars, subvars, hvars
<1>4. ASSUME NEW r \in Replicas, FanPick(r)
      PROVE  TypeOK'
  BY <1>4 DEF FanPick, wvars, subvars, hvars, history
<1>5. ASSUME NEW r \in Replicas, FanSend(r)
      PROVE  TypeOK'
  BY <1>5 DEF FanSend, wvars, subvars, hvars, history
<1>6. ASSUME NEW r \in Replicas, FanSendClosed(r)
      PROVE  TypeOK'
  BY <1>6 DEF FanSendClosed, wvars, fanvars, subvars, hvars, history
<1>7. CASE FanRUnlock
  BY <1>7 DEF FanRUnlock, wvars, subvars, hvars, history
<1>8. CASE SubLockCall
  BY <1>8 DEF SubLockCall, wvars, fanvars, hvars, history
<1>9. CASE SubApply
  <2>1. subMsg.SubscriberId \in Replicas
    BY <1>9 DEF SubApply, MsgInv, Messages
  <2>2. subscribers' \subseteq Replicas /\ joined' \subseteq Replicas
    BY <1>9, <2>1 DEF SubApply
  <2>3. Len(log) \in Nat
    OBVIOUS
  <2>4. first' \in [Replicas -> Nat]
    BY <1>9, <2>1, <2>3 DEF SubApply
  <2> QED
    BY <1>9, <2>2, <2>4 DEF SubApply, wvars, fanvars, hvars
<1>10. ASSUME NEW r \in Replicas, PSync(r)
       PROVE  TypeOK'
  BY <1>10 DEF PSync, wvars, fanvars, subvars, history
<1>11. ASSUME NEW r \in Replicas, Subscribe(r) \/ Unsubscribe(r)
       PROVE  TypeOK'
  <2>1. subMsg' \in Messages
    BY <1>11, MessageType DEF Subscribe, Unsubscribe, SubscriptionEvent
  <2> QED
    BY <1>11, <2>1 DEF Subscribe, Unsubscribe, SubscriptionEvent, wvars, fanvars, history
<1>12. ASSUME NEW r \in Replicas, Write(r)
       PROVE  TypeOK'
  <2>1. Append(out[r], hEvent[r]) \in Seq(Events)
    BY <1>12 DEF Write, EventInv
  <2> QED
    BY <1>12, <2>1 DEF Write, wvars, fanvars, subvars
<1>13. ASSUME NEW r \in Replicas, WriteFails(r) \/ CloseChannel(r)
       PROVE  TypeOK'
  BY <1>13 DEF WriteFails, CloseChannel, wvars, fanvars, subvars, history
<1>14. CASE UNCHANGED vars
  BY <1>14 DEF vars, wvars, fanvars, subvars, hvars, history
<1> QED
  BY <1>1, <1>2, <1>3, <1>4, <1>5, <1>6, <1>7, <1>8, <1>9, <1>10, <1>11, <1>12, <1>13, <1>14
  DEF Next

-----------------------------------------------------------------------------
(* A writer's steps change nothing the other parts are about, but that the *)
(* fan-out has an event.                                                   *)
\* The steps of the writers.
LEMMA WriterSteps ==
  ASSUME IInv, TypeOK', NEW w \in Writers, BeginPublish(w) \/ Publish(w)
  PROVE  IInv'
<1> USE DEF IInv, TypeOK, BeginPublish, Publish, fanvars, subvars, hvars, history
<1>1. WriterInv'
  BY DEF WriterInv
<1>2. FanInv'
  <2>1. CASE BeginPublish(w)
    BY <2>1 DEF FanInv, ReadLocked
  <2>2. CASE Publish(w)
    <3>1. fanEvent' \in Events
      BY <2>2 DEF WriterInv, Events
    <3> QED
      BY <2>2, <3>1 DEF FanInv, ReadLocked
  <2> QED
    BY <2>1, <2>2
<1>3. HandlerInv'
  BY DEF HandlerInv, InHand
<1>4. MsgInv' /\ CountInv' /\ EventInv' /\ PanicInv'
  BY SMTT(60) DEF MsgInv, CountInv, Held, Todo, EventInv, PanicInv, InHand
<1> QED
  BY <1>1, <1>2, <1>3, <1>4

\* The steps of the fan-out goroutine.
LEMMA FanSteps ==
  ASSUME IInv, TypeOK',
         \/ FanRLock \/ FanRUnlock
         \/ \E r \in Replicas : FanPick(r) \/ FanSend(r) \/ FanSendClosed(r)
  PROVE  IInv'
<1> USE DEF IInv, TypeOK
<1>1. CASE FanRLock
  <2> USE <1>1 DEF FanRLock, wvars, subvars, hvars
  <2>1. log' = Append(log, fanEvent) /\ fanEvent \in Events
    BY DEF FanInv
  <2>2. Len(log') = Len(log) + 1 /\ log'[Len(log')] = fanEvent
    BY <2>1
  <2>3. FanInv'
    BY <2>1, <2>2 DEF FanInv, ReadLocked
  <2>4. CountInv'
    <3>1. \A r \in subscribers : Todo(r) = 0 /\ Todo(r)' = 1 /\ Held(r)' = Held(r)
      BY DEF FanInv, ReadLocked, Todo, Held
    <3>2. \A r \in subscribers : Len(out[r]) \in Nat /\ Held(r) \in Nat
      BY DEF Held
    <3> QED
      BY <3>1, <3>2, <2>2 DEF CountInv
  <2>5. EventInv'
    <3> SUFFICES ASSUME NEW r \in Replicas, hPc[r] = "write"
                 PROVE  /\ hEvent[r] \in Events
                        /\ hEvent[r] = log'[first[r] + Len(out[r]) + 1]
      BY DEF EventInv
    <3>1. first[r] + Len(out[r]) + 1 \in 1 .. Len(log)
      <4>1. r \in subscribers /\ Held(r) = 1 /\ Todo(r) \in Nat
        BY DEF HandlerInv, Held, Todo
      <4>2. Len(out[r]) \in Nat /\ first[r] \in Nat /\ Len(log) \in Nat
        OBVIOUS
      <4> QED
        BY <4>1, <4>2 DEF CountInv
    <3>2. log'[first[r] + Len(out[r]) + 1] = log[first[r] + Len(out[r]) + 1]
      BY <3>1, <2>1
    <3> QED
      BY <3>2 DEF EventInv
  <2>6. HandlerInv'
    BY DEF HandlerInv, InHand
  <2>7. WriterInv' /\ MsgInv' /\ PanicInv'
    BY DEF WriterInv, MsgInv, PanicInv, InHand
  <2> QED
    BY <2>3, <2>4, <2>5, <2>6, <2>7
<1>2. CASE FanRUnlock
  <2> USE <1>2 DEF FanRUnlock, wvars, subvars, hvars, history
  <2>1. FanInv'
    BY DEF FanInv, ReadLocked
  <2>2. HandlerInv'
    BY DEF HandlerInv, InHand
  <2>3. CountInv' /\ EventInv'
    BY DEF CountInv, Held, Todo, EventInv
  <2>4. WriterInv' /\ MsgInv' /\ PanicInv'
    BY DEF WriterInv, MsgInv, PanicInv, InHand
  <2> QED
    BY <2>1, <2>2, <2>3, <2>4
<1>3. ASSUME NEW r \in Replicas, FanPick(r)
      PROVE  IInv'
  <2> USE <1>3 DEF FanPick, wvars, subvars, hvars, history
  <2>1. FanInv'
    BY DEF FanInv, ReadLocked
  <2>2. HandlerInv'
    BY DEF HandlerInv, InHand
  <2>3. CountInv' /\ EventInv'
    BY DEF CountInv, Held, Todo, EventInv
  <2>4. WriterInv' /\ MsgInv' /\ PanicInv'
    BY DEF WriterInv, MsgInv, PanicInv, InHand
  <2> QED
    BY <2>1, <2>2, <2>3, <2>4
<1>4. ASSUME NEW r \in Replicas, FanSend(r)
      PROVE  IInv'
  <2> USE <1>4 DEF FanSend, wvars, subvars, history
  <2>1. r \in fanTodo /\ r \in subscribers
    BY DEF FanInv, ReadLocked
  <2>2. FanInv'
    BY DEF FanInv, ReadLocked
  <2>3. HandlerInv'
    BY <2>1 DEF HandlerInv, InHand
  <2>4. CountInv'
    <3>1. Held(r) = 0 /\ Held(r)' = 1
      BY DEF Held
    <3>2. Todo(r) = 1 /\ Todo(r)' = 0
      BY <2>1 DEF Todo
    <3>3. \A q \in Replicas \ {r} : Held(q)' = Held(q)
      BY DEF Held
    <3>4. ASSUME NEW q \in Replicas \ {r} PROVE Todo(q)' = Todo(q)
      <4>1. q \in fanTodo' <=> q \in fanTodo
        OBVIOUS
      <4> QED
        BY ONLY <4>1 DEF Todo
    <3>5. \A q \in Replicas : Len(out[q]) \in Nat /\ first[q] \in Nat
      OBVIOUS
    <3>6. SUFFICES ASSUME NEW q \in subscribers
                   PROVE  Len(log) = first[q] + Len(out[q]) + Held(q)' + Todo(q)'
      BY DEF CountInv
    <3>7. Len(log) = first[q] + Len(out[q]) + Held(q) + Todo(q)
      BY DEF CountInv
    <3>8. CASE q = r
      <4>1. Len(out[q]) \in Nat /\ first[q] \in Nat
        BY <3>5
      <4>2. Held(q) = 0 /\ Held(q)' = 1 /\ Todo(q) = 1 /\ Todo(q)' = 0
        BY <3>1, <3>2, <3>8
      <4> QED
        BY <3>7, <4>1, <4>2
    <3>9. CASE q # r
      <4>1. Held(q)' = Held(q) /\ Todo(q)' = Todo(q)
        BY <3>3, <3>4, <3>9
      <4> QED
        BY <3>7, <4>1
    <3> QED
      BY <3>8, <3>9
  <2>5. EventInv'
    <3>1. first[r] + Len(out[r]) + 1 = Len(log)
      <4>1. Held(r) = 0 /\ Todo(r) = 1
        BY <2>1 DEF Held, Todo
      <4>2. Len(log) = first[r] + Len(out[r]) + Held(r) + Todo(r)
        BY <2>1 DEF CountInv
      <4>3. Len(out[r]) \in Nat /\ first[r] \in Nat
        OBVIOUS
      <4> QED
        BY ONLY <4>1, <4>2, <4>3
    <3>2. fanEvent \in Events /\ log[Len(log)] = fanEvent
      BY DEF FanInv, ReadLocked
    <3> QED
      BY <3>1, <3>2 DEF EventInv
  <2>6. WriterInv' /\ MsgInv' /\ PanicInv'
    BY DEF WriterInv, MsgInv, PanicInv, InHand
  <2> QED
    BY <2>2, <2>3, <2>4, <2>5, <2>6
<1>5. ASSUME NEW r \in Replicas, FanSendClosed(r)
      PROVE  IInv'
  <2> USE <1>5 DEF FanSendClosed, wvars, fanvars, subvars, hvars, history
  <2>1. PanicInv'
    <3>1. r \in subscribers /\ hPc[r] = "done"
      BY DEF FanInv, ReadLocked, ChannelClosed
    <3>2. InHand(r, "unsubscribe") /\ r \in Flaky
      BY <3>1 DEF HandlerInv
    <3> QED
      BY <3>2 DEF PanicInv, InHand
  <2>2. HandlerInv'
    BY DEF HandlerInv, InHand
  <2>3. WriterInv' /\ FanInv' /\ MsgInv' /\ CountInv' /\ EventInv'
    BY DEF WriterInv, FanInv, ReadLocked, MsgInv, CountInv, Held, Todo, EventInv
  <2> QED
    BY <2>1, <2>2, <2>3
<1> QED
  BY <1>1, <1>2, <1>3, <1>4, <1>5

\* The steps of the subscription goroutine.
LEMMA SubSteps ==
  ASSUME IInv, TypeOK', SubLockCall \/ SubApply
  PROVE  IInv'
<1> USE DEF IInv, TypeOK
<1>1. CASE SubLockCall
  <2> USE <1>1 DEF SubLockCall, wvars, fanvars, hvars, history
  <2>1. HandlerInv'
    BY DEF HandlerInv, InHand
  <2>2. WriterInv' /\ FanInv' /\ MsgInv' /\ CountInv' /\ EventInv' /\ PanicInv'
    BY DEF WriterInv, FanInv, ReadLocked, MsgInv, CountInv, Held, Todo, EventInv, PanicInv, InHand
  <2> QED
    BY <2>1, <2>2
<1>2. CASE SubApply
  <2> DEFINE r == subMsg.SubscriberId
  <2> USE <1>2 DEF SubApply, wvars, fanvars, hvars
  <2>1. fanTodo = {} /\ ~panicked'
    BY DEF FanInv
  <2>2. r \in Replicas /\ subMsg = [Action |-> subMsg.Action, SubscriberId |-> r]
    BY DEF MsgInv, Messages
  <2>3. FanInv'
    BY <2>1 DEF FanInv, ReadLocked
  <2>4. \A q \in Replicas : ~InHand(q, "subscribe")' /\ ~InHand(q, "unsubscribe")'
    BY DEF InHand
  <2>5. \A q \in Replicas \ {r} : ~InHand(q, "subscribe") /\ ~InHand(q, "unsubscribe")
    BY <2>2 DEF InHand
  <2>6. WriterInv' /\ MsgInv' /\ PanicInv'
    BY <2>1 DEF WriterInv, MsgInv, PanicInv
  <2>7. CASE subMsg.Action = "subscribe"
    <3>1. InHand(r, "subscribe") /\ ~InHand(r, "unsubscribe")
      BY <2>2, <2>7 DEF InHand
    <3>2. r \notin joined /\ r \notin subscribers /\ hPc[r] = "range" /\ out[r] = <<>>
      BY <3>1, <2>2 DEF HandlerInv
    <3>3. /\ subscribers' = subscribers \cup {r} /\ joined' = joined \cup {r}
          /\ first' = [first EXCEPT ![r] = Len(log)]
      BY <2>7
    <3>4. HandlerInv'
      BY <2>2, <2>4, <2>5, <3>2, <3>3 DEF HandlerInv
    <3>5. CountInv'
      <4>1. \A q \in Replicas : Held(q)' = Held(q) /\ Todo(q)' = Todo(q)
        BY DEF Held, Todo
      <4>2. Held(r) = 0 /\ Todo(r) = 0 /\ Len(out[r]) = 0
        BY <2>1, <2>2, <3>2 DEF Held, Todo
      <4> QED
        BY <4>1, <4>2, <2>2, <3>3, <3>2 DEF CountInv
    <3>6. EventInv'
      BY <3>2, <3>3 DEF EventInv
    <3> QED
      BY <2>3, <2>6, <3>4, <3>5, <3>6
  <2>8. CASE subMsg.Action = "unsubscribe"
    <3>1. InHand(r, "unsubscribe") /\ ~InHand(r, "subscribe")
      BY <2>2, <2>8 DEF InHand
    <3>2. r \in subscribers /\ hPc[r] \in {"close", "done"}
      BY <3>1, <2>2 DEF HandlerInv
    <3>3. subscribers' = subscribers \ {r} /\ UNCHANGED <<joined, first>>
      BY <2>8
    <3>4. HandlerInv'
      BY <2>2, <2>4, <2>5, <3>2, <3>3 DEF HandlerInv
    <3>5. CountInv' /\ EventInv'
      BY <3>3 DEF CountInv, EventInv, Held, Todo
    <3> QED
      BY <2>3, <2>6, <3>4, <3>5
  <2> QED
    BY <2>7, <2>8
<1> QED
  BY <1>1, <1>2

\* The steps of the PSYNC handlers.
LEMMA HandlerSteps ==
  ASSUME IInv, TypeOK', NEW r \in Replicas,
         \/ PSync(r) \/ Subscribe(r) \/ Unsubscribe(r)
         \/ Write(r) \/ WriteFails(r) \/ CloseChannel(r)
  PROVE  IInv'
<1> USE DEF IInv, TypeOK
<1>1. CASE PSync(r)
  <2> USE <1>1 DEF PSync, wvars, fanvars, subvars, history
  <2>1. HandlerInv'
    BY DEF HandlerInv, InHand
  <2>2. CountInv' /\ EventInv'
    BY DEF CountInv, Held, Todo, EventInv
  <2>3. WriterInv' /\ FanInv' /\ MsgInv' /\ PanicInv'
    BY DEF WriterInv, FanInv, ReadLocked, MsgInv, PanicInv
  <2> QED
    BY <2>1, <2>2, <2>3
<1>2. CASE Subscribe(r)
  <2> USE <1>2 DEF Subscribe, SubscriptionEvent, wvars, fanvars, history
  <2>1. MsgInv'
    BY MessageType DEF MsgInv
  <2>2. \A q \in Replicas, a \in {"subscribe", "unsubscribe"} :
           /\ ~InHand(q, a)
           /\ InHand(q, a)' <=> q = r /\ a = "subscribe"
    BY DEF InHand
  <2>3. HandlerInv'
    BY <2>2 DEF HandlerInv
  <2>4. CountInv' /\ EventInv'
    BY DEF CountInv, Held, Todo, EventInv
  <2>5. WriterInv' /\ FanInv' /\ PanicInv'
    BY DEF WriterInv, FanInv, ReadLocked, PanicInv
  <2> QED
    BY <2>1, <2>3, <2>4, <2>5
<1>3. CASE Unsubscribe(r)
  <2> USE <1>3 DEF Unsubscribe, SubscriptionEvent, wvars, fanvars, history
  <2>1. MsgInv'
    BY MessageType DEF MsgInv
  <2>2. \A q \in Replicas, a \in {"subscribe", "unsubscribe"} :
           /\ ~InHand(q, a)
           /\ InHand(q, a)' <=> q = r /\ a = "unsubscribe"
    BY DEF InHand
  <2>3. HandlerInv'
    BY <2>2 DEF HandlerInv
  <2>4. CountInv' /\ EventInv'
    BY DEF CountInv, Held, Todo, EventInv
  <2>5. WriterInv' /\ FanInv' /\ PanicInv'
    BY DEF WriterInv, FanInv, ReadLocked, PanicInv
  <2> QED
    BY <2>1, <2>3, <2>4, <2>5
<1>4. CASE Write(r)
  <2> USE <1>4 DEF Write, wvars, fanvars, subvars
  <2>1. Len(out'[r]) = Len(out[r]) + 1
    OBVIOUS
  <2>2. HandlerInv'
    BY DEF HandlerInv, InHand
  <2>3. CountInv'
    <3>1. Held(r) = 1 /\ Held(r)' = 0
      BY DEF Held
    <3>2. \A q \in Replicas : Todo(q)' = Todo(q) /\ Todo(q) \in Nat
      BY DEF Todo
    <3>3. \A q \in Replicas \ {r} : Held(q)' = Held(q)
      BY DEF Held
    <3> SUFFICES ASSUME NEW q \in subscribers
                 PROVE  Len(log) = first[q] + Len(out'[q]) + Held(q)' + Todo(q)'
      BY DEF CountInv
    <3>4. CASE q = r
      BY <2>1, <3>1, <3>2, <3>4, SMTT(60) DEF CountInv
    <3>5. CASE q # r
      BY <3>2, <3>3, <3>5 DEF CountInv
    <3> QED
      BY <3>4, <3>5
  <2>4. EventInv'
    BY DEF EventInv
  <2>5. WriterInv' /\ FanInv' /\ MsgInv' /\ PanicInv'
    BY DEF WriterInv, FanInv, ReadLocked, MsgInv, PanicInv
  <2> QED
    BY <2>2, <2>3, <2>4, <2>5
<1>5. CASE WriteFails(r) \/ CloseChannel(r)
  <2> USE <1>5 DEF WriteFails, CloseChannel, wvars, fanvars, subvars, history
  <2>1. HandlerInv'
    BY DEF HandlerInv, InHand
  <2>2. CountInv' /\ EventInv'
    BY ZenonT(60) DEF CountInv, Held, Todo, EventInv
  <2>3. WriterInv' /\ FanInv' /\ MsgInv' /\ PanicInv'
    BY DEF WriterInv, FanInv, ReadLocked, MsgInv, PanicInv
  <2> QED
    BY <2>1, <2>2, <2>3
<1> QED
  BY <1>1, <1>2, <1>3, <1>4, <1>5

\* Every step keeps the invariant.
LEMMA NextIInv == IInv /\ [Next]_vars => IInv'
<1> SUFFICES ASSUME IInv, [Next]_vars PROVE IInv'
  OBVIOUS
<1>0. TypeOK'
  BY NextType
<1>1. CASE \E w \in Writers : BeginPublish(w) \/ Publish(w)
  BY <1>0, <1>1, WriterSteps
<1>2. CASE \/ FanRLock \/ FanRUnlock
           \/ \E r \in Replicas : FanPick(r) \/ FanSend(r) \/ FanSendClosed(r)
  BY <1>0, <1>2, FanSteps
<1>3. CASE SubLockCall \/ SubApply
  BY <1>0, <1>3, SubSteps
<1>4. CASE \E r \in Replicas :
             PSync(r) \/ Subscribe(r) \/ Unsubscribe(r) \/ Write(r) \/ WriteFails(r) \/ CloseChannel(r)
  BY <1>0, <1>4, HandlerSteps
<1>5. CASE UNCHANGED vars
  <2> USE <1>5 DEF vars, wvars, fanvars, subvars, hvars, history, IInv
  <2>1. HandlerInv'
    BY DEF HandlerInv, InHand
  <2>2. WriterInv' /\ FanInv' /\ MsgInv' /\ CountInv' /\ EventInv' /\ PanicInv'
    BY DEF WriterInv, FanInv, ReadLocked, MsgInv, CountInv, Held, Todo, EventInv, PanicInv, InHand
  <2> QED
    BY <1>0, <2>1, <2>2
<1> QED
  BY <1>1, <1>2, <1>3, <1>4, <1>5 DEF Next

\* The invariant holds in every state that is reached.
LEMMA InvariantHolds == Spec => []IInv
BY InitIInv, NextIInv, PTL DEF Spec

\* Every variable of the fan-out stays in its set, for any replicas and
\* writers: in particular every event logged, held or written is one that a
\* writer published.
THEOREM TypeCorrect == Spec => []TypeOK
<1>1. IInv => TypeOK
  BY DEF IInv
<1> QED
  BY <1>1, InvariantHolds, PTL

\* The leader panics only on a replica whose connection failed, and only
\* between that replica's unsubscribe message and the change of the map.
THEOREM PanicOnlyInWindow == Spec => []PanicWindow
<1>1. IInv => PanicWindow
  BY DEF IInv, PanicInv, InHand, PanicWindow
<1> QED
  BY <1>1, InvariantHolds, PTL

-----------------------------------------------------------------------------
(* Every answered command is published once *)

\* A step that publishes nothing and answers nobody.
LEMMA KeepsAnswered ==
  ASSUME AnsweredOnce, Published' = Published, \A w \in Writers : Answered(w)' = Answered(w)
  PROVE  AnsweredOnce'
BY DEF AnsweredOnce

\* A step that publishes a writer's next event and answers it.
LEMMA AppendsAnswered ==
  ASSUME AnsweredOnce, NEW v \in Writers, NEW n \in Nat, Answered(v) = n, Answered(v)' = n + 1,
         \A w \in Writers \ {v} : Answered(w)' = Answered(w),
         NEW s \in Seq(Events), Published = s, Published' = Append(s, <<v, n + 1>>)
  PROVE  AnsweredOnce'
<1> DEFINE e == <<v, n + 1>>
           t == Append(s, e)
           Of(u, w) == {i \in DOMAIN u : u[i][1] = w}
<1>1. e[1] = v /\ e[2] = n + 1
  OBVIOUS
<1> HIDE DEF e
<1>2. /\ Len(s) \in Nat /\ DOMAIN s = 1 .. Len(s) /\ DOMAIN t = 1 .. Len(s) + 1
      /\ t[Len(s) + 1] = e /\ \A i \in 1 .. Len(s) : t[i] = s[i]
  OBVIOUS
<1> HIDE DEF t
<1>3. ASSUME NEW w \in Writers
      PROVE  /\ {s[i][2] : i \in Of(s, w)} = 1 .. Answered(w)
             /\ \A i, j \in Of(s, w) : i < j => s[i][2] < s[j][2]
  BY DEF AnsweredOnce
<1>4. ASSUME NEW w \in Writers \ {v}
      PROVE  /\ {t[i][2] : i \in Of(t, w)} = 1 .. Answered(w)
             /\ \A i, j \in Of(t, w) : i < j => t[i][2] < t[j][2]
  <2>1. Of(t, w) = Of(s, w)
    BY <1>1, <1>2
  <2>2. \A i \in Of(s, w) : t[i] = s[i]
    BY <1>2
  <2>3. {t[i][2] : i \in Of(t, w)} = {s[i][2] : i \in Of(s, w)}
    BY <2>1, <2>2
  <2> QED
    BY <1>3, <2>1, <2>2, <2>3
<1>5. /\ {t[i][2] : i \in Of(t, v)} = 1 .. n + 1
      /\ \A i, j \in Of(t, v) : i < j => t[i][2] < t[j][2]
  <2>1. Of(t, v) = Of(s, v) \cup {Len(s) + 1} /\ Of(s, v) \subseteq 1 .. Len(s)
    BY <1>1, <1>2
  <2>2. \A i \in Of(s, v) : t[i] = s[i] /\ s[i][2] \in 1 .. n
    BY <1>2, <1>3
  <2>3. \A k \in 1 .. n : \E i \in Of(s, v) : s[i][2] = k
    BY <1>3
  <2>4. t[Len(s) + 1][2] = n + 1
    BY <1>1, <1>2
  <2> HIDE DEF Of
  <2>5. \A k \in 1 .. n + 1 : \E i \in Of(t, v) : t[i][2] = k
    <3> SUFFICES ASSUME NEW k \in 1 .. n + 1 PROVE \E i \in Of(t, v) : t[i][2] = k
      OBVIOUS
    <3>1. CASE k = n + 1
      BY <2>1, <2>4, <3>1
    <3>2. CASE k \in 1 .. n
      BY <2>1, <2>2, <2>3, <3>2
    <3> QED
      BY <3>1, <3>2
  <2>6. \A i \in Of(t, v) : t[i][2] \in 1 .. n + 1
    BY <2>1, <2>2, <2>4, SMTT(60)
  <2>7. {t[i][2] : i \in Of(t, v)} = 1 .. n + 1
    BY <2>5, <2>6
  <2>8. \A i, j \in Of(t, v) : i < j => t[i][2] < t[j][2]
    <3> SUFFICES ASSUME NEW i \in Of(t, v), NEW j \in Of(t, v), i < j PROVE t[i][2] < t[j][2]
      OBVIOUS
    <3>1. i \in Of(s, v)
      BY <1>2, <2>1
    <3>2. CASE j \in Of(s, v)
      BY <1>3, <2>2, <3>1, <3>2
    <3>3. CASE j = Len(s) + 1
      <4>1. t[i][2] \in 1 .. n
        BY <2>2, <3>1
      <4>2. t[j][2] = n + 1
        BY <2>4, <3>3
      <4> QED
        BY <4>1, <4>2
    <3> QED
      BY <2>1, <3>2, <3>3
  <2> QED
    BY <2>7, <2>8
<1>6. ASSUME NEW w \in Writers
      PROVE  /\ {t[i][2] : i \in Of(t, w)} = 1 .. Answered(w)'
             /\ \A i, j \in Of(t, w) : i < j => t[i][2] < t[j][2]
  <2>1. CASE w = v
    BY <1>5, <2>1
  <2>2. CASE w # v
    BY <1>4, <2>2
  <2> QED
    BY <2>1, <2>2
<1>7. Published' = t
  BY DEF t, e
<1>8. ASSUME NEW w \in Writers
      PROVE  LET mine == {i \in DOMAIN Published' : Published'[i][1] = w}
             IN /\ {Published'[i][2] : i \in mine} = 1 .. Answered(w)'
                /\ \A i, j \in mine : i < j => Published'[i][2] < Published'[j][2]
  BY <1>6, <1>7, Zenon
<1> QED
  BY <1>8, Zenon DEF AnsweredOnce

\* Publish appends, FanRLock only moves the event into the log, and the other steps
\* leave both alone.
LEMMA AnsweredStep ==
  ASSUME IInv, AnsweredOnce, [Next]_vars
  PROVE  AnsweredOnce'
<1> USE DEF IInv, TypeOK
<1>1. ASSUME NEW w \in Writers, BeginPublish(w) PROVE AnsweredOnce'
  <2>1. Published' = Published
    BY <1>1 DEF BeginPublish, Published, fanvars, history
  <2>2. \A v \in Writers : Answered(v)' = Answered(v)
    BY <1>1 DEF BeginPublish, Answered
  <2> QED
    BY <2>1, <2>2, KeepsAnswered
<1>2. ASSUME NEW w \in Writers, Publish(w) PROVE AnsweredOnce'
  <2> DEFINE n == sent[w] - 1
  <2>1. n \in Nat /\ n + 1 = sent[w]
    BY <1>2 DEF Publish, WriterInv
  <2>2. Answered(w) = n /\ Answered(w)' = n + 1
    BY <1>2, <2>1 DEF Publish, Answered
  <2>3. \A v \in Writers \ {w} : Answered(v)' = Answered(v)
    BY <1>2 DEF Publish, Answered
  <2>4. Published = log /\ Published' = Append(log, <<w, n + 1>>)
    BY <1>2, <2>1 DEF Publish, Published, history
  <2> HIDE DEF n
  <2> QED
    BY <2>1, <2>2, <2>3, <2>4, AppendsAnswered
<1>3. ASSUME UNCHANGED wvars, Published' = Published PROVE AnsweredOnce'
  BY <1>3, KeepsAnswered DEF Answered, wvars
<1>4. CASE FanRLock
  BY <1>3, <1>4 DEF FanRLock, Published
<1>5. CASE FanRUnlock \/ SubLockCall \/ SubApply \/ UNCHANGED vars
  BY <1>3, <1>5 DEF FanRUnlock, SubLockCall, SubApply, Published, fanvars, history, vars
<1>6. ASSUME NEW r \in Replicas, FanPick(r) \/ FanSend(r) \/ FanSendClosed(r) PROVE AnsweredOnce'
  BY <1>3, <1>6 DEF FanPick, FanSend, FanSendClosed, Published, fanvars, history
<1>7. ASSUME NEW r \in Replicas,
             \/ PSync(r) \/ Subscribe(r) \/ Unsubscribe(r) \/ Write(r) \/ WriteFails(r)
             \/ CloseChannel(r)
      PROVE  AnsweredOnce'
  BY <1>3, <1>7 DEF PSync, Subscribe, Unsubscribe, SubscriptionEvent, Write, WriteFails,
                    CloseChannel, Published, fanvars, history
<1> QED
  BY <1>1, <1>2, <1>4, <1>5, <1>6, <1>7 DEF Next

\* Every SET or INCR that has been answered was published exactly once and in the
\* order of its connection, for any writers and any number of commands.
THEOREM PublishedOnce == Spec => []AnsweredOnce
<1>1. Init => AnsweredOnce
  BY DEF Init, AnsweredOnce, Published, Answered
<1> QED
  BY <1>1, AnsweredStep, InvariantHolds, PTL DEF Spec

-----------------------------------------------------------------------------
(* The refinement of Broadcast *)

\* The log grows by the fan-out's event, and each member was at most one
\* event behind.
LEMMA RLockPublishes ==
  ASSUME IInv, IInv', FanRLock
  PROVE  B!Publish(fanEvent) /\ fanEvent \in Events
<1> USE DEF IInv, TypeOK, FanRLock
<1>1. fanEvent \in Events
  BY DEF FanInv
<1>2. ASSUME NEW r \in subscribers
      PROVE  Len(log) - (first[r] + Len(out[r])) < 2
  <2>1. Todo(r) = 0 /\ Held(r) \in {0, 1}
    BY DEF FanInv, ReadLocked, Todo, Held
  <2>2. Len(log) = first[r] + Len(out[r]) + Held(r) + Todo(r)
    BY DEF CountInv
  <2>3. Len(out[r]) \in Nat /\ first[r] \in Nat
    OBVIOUS
  <2> QED
    BY <2>1, <2>2, <2>3
<1> QED
  BY <1>1, <1>2 DEF B!Publish, B!Position, subvars

\* A change of the map is a replica that joins or leaves.
LEMMA ApplyJoinsOrLeaves ==
  ASSUME IInv, SubApply
  PROVE  \E r \in Replicas : B!Join(r) \/ B!Leave(r)
<1> DEFINE r == subMsg.SubscriberId
<1> USE DEF IInv, TypeOK, SubApply
<1>1. r \in Replicas /\ subMsg = [Action |-> subMsg.Action, SubscriberId |-> r]
  BY DEF MsgInv, Messages
<1>2. CASE subMsg.Action = "subscribe"
  <2>1. r \notin joined
    BY <1>1, <1>2 DEF HandlerInv, InHand
  <2>2. B!Join(r)
    BY <1>2, <2>1 DEF B!Join
  <2> QED
    BY <1>1, <2>2
<1>3. CASE subMsg.Action = "unsubscribe"
  <2>1. r \in subscribers
    BY <1>1, <1>3 DEF HandlerInv, InHand
  <2>2. B!Leave(r)
    BY <1>3, <2>1 DEF B!Leave
  <2> QED
    BY <1>1, <2>2
<1> QED
  BY <1>2, <1>3

\* What a handler writes is the next event of its replica.
LEMMA WriteDelivers ==
  ASSUME IInv, NEW r \in Replicas, Write(r)
  PROVE  B!Deliver(r)
<1> USE DEF IInv, TypeOK, Write
<1>1. r \in subscribers
  BY DEF HandlerInv
<1>2. first[r] + Len(out[r]) < Len(log)
  <2>1. Held(r) = 1 /\ Todo(r) \in {0, 1}
    BY DEF Held, Todo
  <2>2. Len(log) = first[r] + Len(out[r]) + Held(r) + Todo(r)
    BY <1>1 DEF CountInv
  <2>3. Len(out[r]) \in Nat /\ first[r] \in Nat
    OBVIOUS
  <2> QED
    BY <2>1, <2>2, <2>3
<1>3. hEvent[r] = log[first[r] + Len(out[r]) + 1]
  BY DEF EventInv
<1> QED
  BY <1>1, <1>2, <1>3 DEF B!Deliver, B!Position, subvars

\* Every step is one of Broadcast, or changes nothing that it speaks of.
LEMMA StepRefines == IInv /\ IInv' /\ [Next]_vars => [B!Next]_(B!bvars)
<1> SUFFICES ASSUME IInv, IInv', [Next]_vars
             PROVE  B!Next \/ UNCHANGED B!bvars
  OBVIOUS
<1>1. CASE FanRLock
  BY <1>1, RLockPublishes DEF B!Next
<1>2. CASE SubApply
  BY <1>2, ApplyJoinsOrLeaves DEF B!Next
<1>3. ASSUME NEW r \in Replicas, Write(r)
      PROVE  B!Next
  BY <1>3, WriteDelivers DEF B!Next
<1>4. ASSUME NEW w \in Writers, BeginPublish(w) \/ Publish(w)
      PROVE  UNCHANGED B!bvars
  BY <1>4 DEF BeginPublish, Publish, subvars, history, B!bvars
<1>5. CASE FanRUnlock \/ SubLockCall \/ UNCHANGED vars
  BY <1>5 DEF FanRUnlock, SubLockCall, vars, subvars, history, B!bvars
<1>6. ASSUME NEW r \in Replicas, FanPick(r) \/ FanSend(r) \/ FanSendClosed(r)
      PROVE  UNCHANGED B!bvars
  BY <1>6 DEF FanPick, FanSend, FanSendClosed, subvars, history, B!bvars
<1>7. ASSUME NEW r \in Replicas,
             PSync(r) \/ Subscribe(r) \/ Unsubscribe(r) \/ WriteFails(r) \/ CloseChannel(r)
      PROVE  UNCHANGED B!bvars
  BY <1>7 DEF PSync, Subscribe, Unsubscribe, SubscriptionEvent, WriteFails, CloseChannel,
              subvars, history, B!bvars
<1> QED
  BY <1>1, <1>2, <1>3, <1>4, <1>5, <1>6, <1>7 DEF Next

\* The goroutines, channels and lock of the fan-out together implement
\* Broadcast: a subscribed replica's connection carries a gapless part of the
\* log from its subscription on, at most two events behind.
THEOREM FanOutImplementsBroadcast == Spec => ImplementsBroadcast
<1>1. Init => B!Init
  BY DEF Init, B!Init
<1> QED
  BY <1>1, InvariantHolds, StepRefines, PTL DEF Spec, ImplementsBroadcast, B!Spec
=============================================================================
