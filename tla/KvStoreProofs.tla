---------------------------- MODULE KvStoreProofs ----------------------------
(***************************************************************************)
(* Proofs about KvStore, for any keys, connections and strings, any clock  *)
(* and every width of uint64 in which the px options and the clock take at *)
(* most half of the range (KvConstants).                                   *)
(***************************************************************************)
EXTENDS KvStore, TLAPS

\* A deadline in the map is the one the last SET with a px computed.
DeadlineInv ==
  \A k \in Keys : expiries[k] # None =>
    /\ lastPx[k] # None
    /\ expiries[k] = Deadline(lastPx[k].ms, lastPx[k].px)

\* A Get that decided to drop a deadline holds mu, so what it decided on is
\* still so: the px is over, and so is the deadline if no other Get dropped it.
DueInv ==
  \A c \in Conns : pc[c] \in {"due", "deleting"} =>
    LET k == call[c].key IN
    /\ call[c].answer = None
    /\ expiries[k] # None => call[c].ms > expiries[k]
    /\ lastPx[k] # None
    /\ call[c].ms > lastPx[k].ms + lastPx[k].px

IInv == TypeOK /\ DeadlineInv /\ DueInv /\ GetAnswers /\ CrashNeedsTwoGets

-----------------------------------------------------------------------------
\* What the assumptions say of times and px arguments.
LEMMA ConstantTypes ==
  /\ MaxTime \in Nat /\ Modulus \in Nat /\ Modulus > 0
  /\ Clock \subseteq Nat /\ Pxs \subseteq Int
  /\ \A px \in Pxs : -Modulus <= 2 * px /\ 2 * px < Modulus
  /\ \A ms \in Clock : 2 * ms < Modulus
BY KvConstants DEF Clock

\* Deadline's two conversions and its addition in uint64: the deadline may wrap,
\* but only to a later moment than the one the px stands for.
LEMMA DeadlineBound ==
  ASSUME NEW ms \in Clock, NEW px \in Pxs
  PROVE  Deadline(ms, px) \in 0 .. Modulus - 1 /\ Deadline(ms, px) >= ms + px
<1> USE ConstantTypes
<1>1. CASE px >= 0
  <2>1. px % Modulus = px
    BY <1>1
  <2>2. (ms + px) % Modulus = ms + px
    BY <1>1
  <2> QED
    BY <1>1, <2>1, <2>2 DEF Deadline
<1>2. CASE px < 0
  <2>1. px % Modulus = px + Modulus
    BY <1>2
  <2>2. CASE ms + px < 0
    <3>1. (ms + (px + Modulus)) % Modulus = ms + px + Modulus
      BY <1>2, <2>2
    <3> QED
      BY <1>2, <2>1, <2>2, <3>1 DEF Deadline
  <2>3. CASE ms + px >= 0
    <3>1. (ms + (px + Modulus)) % Modulus = ms + px
      BY <1>2, <2>3
    <3> QED
      BY <1>2, <2>1, <2>3, <3>1 DEF Deadline
  <2> QED
    BY <2>2, <2>3
<1> QED
  BY <1>1, <1>2

\* A step of one goroutine that leaves it at a point with a call of that point.
LEMMA CallTypes ==
  ASSUME TypeOK, NEW c \in Conns, NEW p \in Points, NEW args \in CallsAt(p),
         pc' = [pc EXCEPT ![c] = p], call' = [call EXCEPT ![c] = args]
  PROVE  /\ pc' \in [Conns -> Points]
         /\ call' \in [Conns -> {NoCall} \cup GetCalls \cup SetCalls]
         /\ \A d \in Conns : call'[d] \in CallsAt(pc'[d])
<1>1. args \in {NoCall} \cup GetCalls \cup SetCalls
  BY DEF CallsAt
<1>2. /\ pc' \in [Conns -> Points]
      /\ call' \in [Conns -> {NoCall} \cup GetCalls \cup SetCalls]
  BY <1>1 DEF TypeOK
<1>3. \A d \in Conns : call'[d] \in CallsAt(pc'[d])
  BY <1>2 DEF TypeOK
<1> QED
  BY <1>2, <1>3

\* The fields of the call of a goroutine inside Get.
LEMMA ReaderCall ==
  ASSUME TypeOK, NEW c \in Readers
  PROVE  /\ c \in Conns /\ call[c].op = "get" /\ call[c].key \in Keys
         /\ call[c].ms \in Clock /\ call[c].answer \in Strings \cup {Strm, None}
<1>1. c \in Conns /\ pc[c] \in {"locked", "due", "deleting", "return"}
  BY DEF Readers
<1>2. call[c] \in GetCalls
  BY <1>1 DEF TypeOK, CallsAt
<1> QED
  BY <1>1, <1>2 DEF GetCalls

\* The fields of the call of a goroutine that waits for mu in Set.
LEMMA SetterCall ==
  ASSUME TypeOK, NEW c \in Conns, pc[c] = "lock"
  PROVE  /\ call[c].op = "set" /\ call[c].key \in Keys /\ call[c].val \in Strings
         /\ call[c].px \in Pxs /\ call[c].ms \in Clock
<1>1. call[c] \in SetCalls
  BY DEF TypeOK, CallsAt
<1> QED
  BY <1>1 DEF SetCalls

-----------------------------------------------------------------------------
\* The inductive invariant holds at the start.
LEMMA InitIInv == Init => IInv
BY ConstantTypes DEF Init, IInv, TypeOK, Points, CallsAt, DeadlineInv, DueInv, GetAnswers, CrashNeedsTwoGets

\* Every step keeps TypeOK.
LEMMA NextType == TypeOK /\ [Next]_vars => TypeOK'
<1> SUFFICES ASSUME TypeOK, [Next]_vars PROVE TypeOK'
  OBVIOUS
<1> USE DEF history
<1>1. CASE Tick
  BY <1>1 DEF Tick, TypeOK
<1>2. ASSUME NEW c \in Conns, NEW k \in Keys, GetRLock(c, k)
      PROVE  TypeOK'
  <2>1. GetCall(k, 0, None) \in CallsAt("locked")
    BY ConstantTypes, KvConstants DEF GetCall, CallsAt, GetCalls, Clock
  <2>2. "locked" \in Points
    BY DEF Points
  <2> QED
    BY <1>2, <2>1, <2>2, CallTypes DEF GetRLock, TypeOK
<1>3. ASSUME NEW c \in Conns, GetRead(c)
      PROVE  TypeOK'
  <2> DEFINE k == call[c].key
  <2>1. k \in Keys
    BY <1>3, ReaderCall DEF GetRead, Readers
  <2>2. values[k] \in Strings \cup {Strm, None} /\ now \in Clock
    BY <2>1 DEF TypeOK
  <2>3. /\ GetCall(k, now, None) \in CallsAt("due")
        /\ GetCall(k, now, values[k]) \in CallsAt("return")
    BY <2>1, <2>2 DEF GetCall, CallsAt, GetCalls
  <2>4. "due" \in Points /\ "return" \in Points
    BY DEF Points
  <2> QED
    BY <1>3, <2>3, <2>4, CallTypes DEF GetRead, TypeOK
<1>4. ASSUME NEW c \in Conns, GetDeleteBegin(c)
      PROVE  TypeOK'
  BY <1>4 DEF GetDeleteBegin, TypeOK, CallsAt, Points
<1>5. ASSUME NEW c \in Conns, GetDeleteEnd(c)
      PROVE  TypeOK'
  <2>1. call[c].key \in Keys
    BY <1>5, ReaderCall DEF GetDeleteEnd, Readers
  <2>2. expiries' \in [Keys -> 0 .. Modulus - 1 \cup {None}] /\ gone' \subseteq Keys
    BY <1>5, <2>1 DEF GetDeleteEnd, TypeOK
  <2>3. \A d \in Conns : call[d] \in CallsAt(pc'[d])
    BY <1>5 DEF GetDeleteEnd, TypeOK, CallsAt
  <2>4. \A k \in Keys : expiries'[k] # None => expiries[k] # None
    BY <1>5 DEF GetDeleteEnd, TypeOK
  <2> QED
    BY <1>5, <2>2, <2>3, <2>4 DEF GetDeleteEnd, TypeOK, Points
<1>6. ASSUME NEW c \in Conns, GetReturn(c)
      PROVE  TypeOK'
  <2>1. NoCall \in CallsAt("idle") /\ "idle" \in Points
    BY DEF CallsAt, Points
  <2> QED
    BY <1>6, <2>1, CallTypes DEF GetReturn, TypeOK
<1>7. ASSUME NEW c \in Conns, NEW k \in Keys, NEW v \in Strings, NEW px \in Pxs, SetStart(c, k, v, px)
      PROVE  TypeOK'
  <2>1. SetCall(k, v, px, now) \in CallsAt("lock") /\ "lock" \in Points
    BY DEF SetCall, CallsAt, SetCalls, Points, TypeOK
  <2> QED
    BY <1>7, <2>1, CallTypes DEF SetStart, TypeOK
<1>8. ASSUME NEW c \in Conns, SetLocked(c)
      PROVE  TypeOK'
  <2> DEFINE k == call[c].key
             px == call[c].px
             ms == call[c].ms
  <2>1. k \in Keys /\ call[c].val \in Strings /\ px \in Pxs /\ ms \in Clock
    BY <1>8, SetterCall DEF SetLocked
  <2>2. NoCall \in CallsAt("idle") /\ "idle" \in Points
    BY DEF CallsAt, Points
  <2>3. values' \in [Keys -> Strings \cup {Strm, None}] /\ gone' \subseteq Keys
    BY <1>8, <2>1 DEF SetLocked, TypeOK
  <2>4. \A j \in Keys : j # k => values'[j] = values[j] /\ expiries'[j] = expiries[j]
    BY <1>8, <2>1 DEF SetLocked, TypeOK
  <2>5. values'[k] # None
    BY <1>8, <2>1, KvConstants DEF SetLocked, TypeOK
  <2>6. Deadline(ms, px) \in 0 .. Modulus - 1
    BY <2>1, DeadlineBound
  <2>7. expiries' \in [Keys -> 0 .. Modulus - 1 \cup {None}]
    BY <1>8, <2>1, <2>6 DEF SetLocked, TypeOK
  <2>8. lastPx' \in [Keys -> [ms: Clock, px: Pxs \ {0}] \cup {None}]
    BY <1>8, <2>1 DEF SetLocked, TypeOK
  <2>9. \A j \in Keys : expiries'[j] # None => values'[j] # None
    BY <2>4, <2>5 DEF TypeOK
  <2> QED
    BY <1>8, <2>2, <2>3, <2>7, <2>8, <2>9, CallTypes DEF SetLocked, TypeOK
<1>9. ASSUME NEW k \in Keys, XAddCreates(k)
      PROVE  TypeOK'
  <2>1. values' \in [Keys -> Strings \cup {Strm, None}]
    BY <1>9 DEF XAddCreates, TypeOK
  <2>2. \A j \in Keys : values[j] # None => values'[j] # None
    BY <1>9, KvConstants DEF XAddCreates, TypeOK
  <2> QED
    BY <1>9, <2>1, <2>2 DEF XAddCreates, TypeOK
<1>10. ASSUME NEW c \in Conns, MapRace(c)
       PROVE  TypeOK'
  BY <1>10 DEF MapRace, TypeOK
<1>11. CASE UNCHANGED vars
  BY <1>11 DEF vars, TypeOK
<1> QED
  BY <1>1, <1>2, <1>3, <1>4, <1>5, <1>6, <1>7, <1>8, <1>9, <1>10, <1>11 DEF Next

-----------------------------------------------------------------------------
(* The step lemmas: Set and XADD change what a Get relies on only when no    *)
(* goroutine holds mu for reading.                                           *)

\* No goroutine is inside Get when a writer has mu.
LEMMA NoReader ==
  ASSUME LockFree, NEW c \in Conns
  PROVE  pc[c] \notin {"locked", "due", "deleting", "return"}
BY DEF LockFree, Readers

\* The deadlines a Get may rely on are kept by every step but Set's: those of a key
\* in the map are equal, and no key gets one.
LEMMA OnlySetRenews ==
  ASSUME TypeOK, [Next]_vars, ~\E c \in Conns : SetLocked(c)
  PROVE  /\ lastPx' = lastPx
         /\ \A k \in Keys : expiries'[k] \in {expiries[k], None}
<1>1. ASSUME NEW c \in Conns, GetDeleteEnd(c)
      PROVE  lastPx' = lastPx /\ \A k \in Keys : expiries'[k] \in {expiries[k], None}
  BY <1>1 DEF GetDeleteEnd, TypeOK
<1>2. CASE ~\E c \in Conns : GetDeleteEnd(c)
  BY <1>2 DEF Next, vars, history, Tick, GetRLock, GetRead, GetDeleteBegin, GetReturn,
              SetStart, XAddCreates, MapRace
<1> QED
  BY <1>1, <1>2

\* What SetLocked does to the maps.
LEMMA SetLockedEffect ==
  ASSUME TypeOK, NEW c \in Conns, SetLocked(c)
  PROVE  \E k \in Keys, px \in Pxs, ms \in Clock :
           /\ \A j \in Keys : j # k => expiries'[j] = expiries[j] /\ lastPx'[j] = lastPx[j]
           /\ px # 0 => /\ expiries'[k] = Deadline(ms, px)
                        /\ lastPx'[k] = [ms |-> ms, px |-> px]
           /\ px = 0 => expiries'[k] = expiries[k] /\ lastPx'[k] = lastPx[k]
<1>1. /\ call[c].key \in Keys /\ call[c].px \in Pxs /\ call[c].ms \in Clock
  BY SetterCall DEF SetLocked
<1> USE <1>1
<1> WITNESS call[c].key \in Keys, call[c].px \in Pxs, call[c].ms \in Clock
<1> QED
  BY DEF SetLocked, TypeOK

\* Every step keeps the deadlines of the keys that have a value.
LEMMA NextDeadline == TypeOK /\ DeadlineInv /\ [Next]_vars => DeadlineInv'
<1> SUFFICES ASSUME TypeOK, DeadlineInv, [Next]_vars, NEW k \in Keys, expiries'[k] # None
             PROVE  /\ lastPx'[k] # None
                    /\ expiries'[k] = Deadline(lastPx'[k].ms, lastPx'[k].px)
  BY DEF DeadlineInv
<1>1. ASSUME NEW c \in Conns, SetLocked(c)
      PROVE  /\ lastPx'[k] # None
             /\ expiries'[k] = Deadline(lastPx'[k].ms, lastPx'[k].px)
  <2>1. TypeOK'
    BY NextType
  <2>2. PICK j \in Keys, px \in Pxs, ms \in Clock :
           /\ \A i \in Keys : i # j => expiries'[i] = expiries[i] /\ lastPx'[i] = lastPx[i]
           /\ px # 0 => /\ expiries'[j] = Deadline(ms, px)
                        /\ lastPx'[j] = [ms |-> ms, px |-> px]
           /\ px = 0 => expiries'[j] = expiries[j] /\ lastPx'[j] = lastPx[j]
    BY <1>1, SetLockedEffect
  <2>3. CASE k = j /\ px # 0
    <3>1. [ms |-> ms, px |-> px] # None
      BY KvConstants DEF Clock
    <3> QED
      BY <2>2, <2>3, <3>1
  <2>4. CASE ~(k = j /\ px # 0)
    BY <2>2, <2>4 DEF DeadlineInv
  <2> QED
    BY <2>3, <2>4
<1>2. CASE ~\E c \in Conns : SetLocked(c)
  BY <1>2, OnlySetRenews DEF DeadlineInv
<1> QED
  BY <1>1, <1>2

\* A deadline in the map is no earlier than the moment the px ends.
LEMMA PxOver ==
  ASSUME TypeOK, DeadlineInv, NEW k \in Keys, expiries[k] # None, NEW ms \in Clock,
         ms > expiries[k]
  PROVE  lastPx[k] # None /\ ms > lastPx[k].ms + lastPx[k].px
<1>1. lastPx[k] # None /\ expiries[k] = Deadline(lastPx[k].ms, lastPx[k].px)
  BY DEF DeadlineInv
<1>2. lastPx[k].ms \in Clock /\ lastPx[k].px \in Pxs
  BY <1>1 DEF TypeOK
<1>3. expiries[k] >= lastPx[k].ms + lastPx[k].px /\ expiries[k] \in Int
  BY <1>1, <1>2, DeadlineBound
<1>4. lastPx[k].ms \in Int /\ lastPx[k].px \in Int /\ ms \in Int
  <2>1. Clock \subseteq Int /\ Pxs \subseteq Int
    BY ConstantTypes
  <2> QED
    BY <1>2, <2>1
<1>5. ms > lastPx[k].ms + lastPx[k].px
  BY <1>3, <1>4
<1> QED
  BY <1>1, <1>5

\* Every step keeps what a Get has compared true.
LEMMA NextDue == TypeOK /\ DeadlineInv /\ DueInv /\ [Next]_vars => DueInv'
<1> SUFFICES ASSUME TypeOK, DeadlineInv, DueInv, [Next]_vars,
                    NEW c \in Conns, pc'[c] \in {"due", "deleting"}
             PROVE  /\ call'[c].answer = None
                    /\ expiries'[call'[c].key] # None => call'[c].ms > expiries'[call'[c].key]
                    /\ lastPx'[call'[c].key] # None
                    /\ call'[c].ms > lastPx'[call'[c].key].ms + lastPx'[call'[c].key].px
  BY DEF DueInv
<1> DEFINE Goal == /\ call'[c].answer = None
                   /\ expiries'[call'[c].key] # None => call'[c].ms > expiries'[call'[c].key]
                   /\ lastPx'[call'[c].key] # None
                   /\ call'[c].ms > lastPx'[call'[c].key].ms + lastPx'[call'[c].key].px
\* c was in Get before the step with the same arguments: no Set took it.
<1>1. CASE pc[c] \in {"due", "deleting"} /\ call'[c] = call[c]
  <2>1. c \in Readers
    BY <1>1 DEF Readers
  <2>2. ~\E d \in Conns : SetLocked(d)
    BY <2>1 DEF SetLocked, LockFree
  <2>3. call[c].key \in Keys
    BY <2>1, ReaderCall
  <2> QED
    BY <1>1, <2>2, <2>3, OnlySetRenews DEF DueInv
<1>2. ASSUME GetRead(c)
      PROVE  Goal
  <2> DEFINE k == call[c].key
  <2>1. k \in Keys
    BY <1>2, ReaderCall DEF GetRead, Readers
  <2>2. pc'[c] = "due"
    BY <1>2 DEF GetRead, TypeOK
  <2>3. expiries[k] # None /\ now > expiries[k]
    BY <1>2, <2>2 DEF GetRead, Due, TypeOK
  <2>4. call'[c] = GetCall(k, now, None) /\ expiries' = expiries /\ lastPx' = lastPx
    BY <1>2, <2>2 DEF GetRead, TypeOK, history
  <2>5. now \in Clock
    BY DEF TypeOK
  <2>6. lastPx[k] # None /\ now > lastPx[k].ms + lastPx[k].px
    BY <2>1, <2>3, <2>5, PxOver
  <2> QED
    BY <2>3, <2>4, <2>6 DEF GetCall
<1>3. ASSUME ~GetRead(c)
      PROVE  pc[c] \in {"due", "deleting"} /\ call'[c] = call[c]
  <2> USE <1>3 DEF TypeOK
  <2>1. ASSUME NEW d \in Conns, GetRead(d)
        PROVE  pc[c] \in {"due", "deleting"} /\ call'[c] = call[c]
    BY <2>1 DEF GetRead
  <2>2. ASSUME NEW d \in Conns, \/ \E k \in Keys : GetRLock(d, k)
                               \/ \E k \in Keys, v \in Strings, px \in Pxs : SetStart(d, k, v, px)
        PROVE  pc[c] \in {"due", "deleting"} /\ call'[c] = call[c]
    BY <2>2 DEF GetRLock, SetStart
  <2>3. ASSUME NEW d \in Conns, GetDeleteBegin(d) \/ GetDeleteEnd(d) \/ MapRace(d)
        PROVE  pc[c] \in {"due", "deleting"} /\ call'[c] = call[c]
    BY <2>3 DEF GetDeleteBegin, GetDeleteEnd, MapRace
  <2>4. ASSUME NEW d \in Conns, GetReturn(d) \/ SetLocked(d)
        PROVE  pc[c] \in {"due", "deleting"} /\ call'[c] = call[c]
    BY <2>4 DEF GetReturn, SetLocked
  <2>5. CASE Tick \/ (\E k \in Keys : XAddCreates(k)) \/ UNCHANGED vars
    BY <2>5 DEF Tick, XAddCreates, vars
  <2> QED
    BY <2>1, <2>2, <2>3, <2>4, <2>5 DEF Next
<1> QED
  BY <1>1, <1>2, <1>3

\* Get's answer stays the value of its key, or stays too late for the px, while
\* the Get holds mu.
LEMMA NextAnswers == TypeOK /\ DeadlineInv /\ DueInv /\ GetAnswers /\ [Next]_vars => GetAnswers'
<1> SUFFICES ASSUME TypeOK, DeadlineInv, DueInv, GetAnswers, [Next]_vars,
                    NEW c \in Conns, pc'[c] = "return"
             PROVE  \/ call'[c].answer = values'[call'[c].key]
                    \/ /\ call'[c].answer = None /\ lastPx'[call'[c].key] # None
                       /\ call'[c].ms > lastPx'[call'[c].key].ms + lastPx'[call'[c].key].px
  BY DEF GetAnswers
<1> DEFINE Goal == \/ call'[c].answer = values'[call'[c].key]
                   \/ /\ call'[c].answer = None /\ lastPx'[call'[c].key] # None
                      /\ call'[c].ms > lastPx'[call'[c].key].ms + lastPx'[call'[c].key].px
<1>1. CASE c \in Readers /\ pc[c] = "return" /\ call'[c] = call[c]
  <2>1. values' = values /\ lastPx' = lastPx
    BY <1>1 DEF Next, vars, history, Tick, GetRLock, GetRead, GetDeleteBegin, GetDeleteEnd,
                GetReturn, SetStart, SetLocked, XAddCreates, MapRace, LockFree
  <2> QED
    BY <1>1, <2>1 DEF GetAnswers
<1>2. ASSUME GetRead(c)
      PROVE  Goal
  <2>1. call'[c] = GetCall(call[c].key, now, values[call[c].key]) /\ values' = values
    BY <1>2 DEF GetRead, TypeOK
  <2> QED
    BY <2>1 DEF GetCall
<1>3. ASSUME GetDeleteEnd(c)
      PROVE  Goal
  <2>1. call'[c] = call[c] /\ lastPx' = lastPx /\ pc[c] = "deleting"
    BY <1>3 DEF GetDeleteEnd
  <2> QED
    BY <2>1 DEF DueInv
<1>4. ASSUME ~GetRead(c), ~GetDeleteEnd(c)
      PROVE  pc[c] = "return" /\ call'[c] = call[c]
  <2>1. ASSUME NEW d \in Conns \ {c}, GetRead(d) \/ GetDeleteEnd(d)
        PROVE  pc'[c] = pc[c] /\ call'[c] = call[c]
    BY <2>1 DEF GetRead, GetDeleteEnd, TypeOK
  <2>2. ASSUME ~\E d \in Conns : GetRead(d) \/ GetDeleteEnd(d)
        PROVE  pc[c] = "return" /\ call'[c] = call[c]
    BY <2>2, ZenonT(60) DEF Next, vars, Tick, GetRLock, GetDeleteBegin, GetReturn,
                SetStart, SetLocked, XAddCreates, MapRace, TypeOK
  <2> QED
    BY <1>4, <2>1, <2>2
<1>5. pc[c] = "return" => c \in Readers
  BY DEF Readers
<1> QED
  BY <1>1, <1>2, <1>3, <1>4, <1>5

\* The process ends in a step of MapRace and takes no step after it.
LEMMA NextCrash ==
  TypeOK /\ DueInv /\ CrashNeedsTwoGets /\ [Next]_vars => CrashNeedsTwoGets'
<1> SUFFICES ASSUME TypeOK, DueInv, CrashNeedsTwoGets, [Next]_vars, crashed'
             PROVE  CrashNeedsTwoGets'
  BY DEF CrashNeedsTwoGets
<1>1. ASSUME NEW d \in Conns, MapRace(d)
      PROVE  CrashNeedsTwoGets'
  <2>1. PICK c \in Conns \ {d} : pc[c] = "deleting"
    BY <1>1 DEF MapRace, Racing
  <2>2. c \in Readers
    BY <2>1 DEF Readers
  <2>3. d \in Readers
    BY <1>1, <2>2 DEF MapRace, LockFree, Readers
  <2>4. lastPx[call[c].key] # None
        /\ call[c].ms > lastPx[call[c].key].ms + lastPx[call[c].key].px
    BY <2>1 DEF DueInv
  <2>5. pc' = pc /\ call' = call /\ lastPx' = lastPx
    BY <1>1 DEF MapRace, history
  <2>6. Readers' = Readers
    BY <2>5 DEF Readers
  <2> QED
    BY <2>1, <2>2, <2>3, <2>4, <2>5, <2>6 DEF CrashNeedsTwoGets
<1>2. CASE UNCHANGED vars
  BY <1>2 DEF CrashNeedsTwoGets, Readers, vars
<1>3. (\E d \in Conns : MapRace(d)) \/ UNCHANGED vars
  BY DEF Next, Tick, GetRLock, GetRead, GetDeleteBegin, GetDeleteEnd, GetReturn,
         SetStart, SetLocked, XAddCreates
<1> QED
  BY <1>1, <1>2, <1>3

-----------------------------------------------------------------------------
\* The inductive invariant holds in every state.
LEMMA Invariance == Spec => []IInv
<1>1. Init => IInv
  BY InitIInv
<1>2. IInv /\ [Next]_vars => IInv'
  BY NextType, NextDeadline, NextDue, NextAnswers, NextCrash DEF IInv
<1> QED
  BY <1>1, <1>2, PTL DEF Spec

\* Every variable of the store stays in its set, a deadline in uint64 and on a
\* key that holds a value (KvStore.values and expiries, Get and Set).
THEOREM TypeCorrect == Spec => []TypeOK
BY Invariance, PTL DEF IInv

\* What Get answers is the value its key holds when it returns, or nothing for
\* a key whose px was over: Get keeps mu for reading up to its return.
THEOREM AnswersCorrect == Spec => []GetAnswers
BY Invariance, PTL DEF IInv

\* A concurrent access to the map of deadlines takes two overlapping Gets, one
\* of a key whose px was over: Set's and SetStream's write lock keeps them out.
THEOREM CrashesOnlyInTwoGets == Spec => []CrashNeedsTwoGets
BY Invariance, PTL DEF IInv

\* A step that drops a key is the delete of a Get, for which the key was due.
LEMMA StepDrops ==
  ASSUME IInv, [Next]_vars, NEW k \in Keys, expiries[k] # None, expiries'[k] = None
  PROVE  \E c \in Conns : call[c].op = "get" /\ call[c].key = k /\ call[c].ms > expiries[k]
<1>1. ASSUME NEW c \in Conns, GetDeleteEnd(c)
      PROVE  call[c].op = "get" /\ call[c].key = k /\ call[c].ms > expiries[k]
  <2>1. c \in Readers /\ pc[c] = "deleting"
    BY <1>1 DEF GetDeleteEnd, Readers
  <2>2. call[c].op = "get"
    BY <2>1, ReaderCall DEF IInv
  <2>3. call[c].key = k
    BY <1>1 DEF GetDeleteEnd, IInv, TypeOK
  <2> QED
    BY <2>1, <2>2, <2>3 DEF IInv, DueInv
<1>2. ASSUME NEW c \in Conns, SetLocked(c)
      PROVE  FALSE
  <2>1. PICK j \in Keys, px \in Pxs, ms \in Clock :
           /\ \A i \in Keys : i # j => expiries'[i] = expiries[i] /\ lastPx'[i] = lastPx[i]
           /\ px # 0 => /\ expiries'[j] = Deadline(ms, px)
                        /\ lastPx'[j] = [ms |-> ms, px |-> px]
           /\ px = 0 => expiries'[j] = expiries[j] /\ lastPx'[j] = lastPx[j]
    BY <1>2, SetLockedEffect DEF IInv
  <2>2. Deadline(ms, px) # None
    BY DeadlineBound, KvConstants
  <2> QED
    BY <2>1, <2>2
<1>3. \E c \in Conns : GetDeleteEnd(c) \/ SetLocked(c)
  BY DEF Next, vars, history, Tick, GetRLock, GetRead, GetDeleteBegin, GetReturn,
         SetStart, XAddCreates, MapRace
<1> QED
  BY <1>1, <1>2, <1>3

\* A deadline is dropped only when the Get that drops it compared it with a
\* later clock: no Set renews it between the comparison and the delete.
THEOREM DropsOnlyWhenDue == Spec => DropOnlyWhenDue
<1>1. IInv /\ [Next]_vars =>
        [\A k \in Keys : expiries[k] # None /\ expiries'[k] = None =>
           \E c \in Conns : call[c].op = "get" /\ call[c].key = k /\ call[c].ms > expiries[k]]_vars
  BY StepDrops
<1> QED
  BY <1>1, Invariance, PTL DEF Spec, DropOnlyWhenDue
=============================================================================
