------------------------------- MODULE KvStore -------------------------------
(***************************************************************************)
(* redis-go's KvStore without its streams: Get and Set with their deadlines*)
(* (app/store/kv_store.go), as GET, TYPE, INCR and SET call them           *)
(* (app/cmd/get.go, type.go, incr.go, set.go).                             *)
(*                                                                         *)
(* A goroutine per connection calls in; mu is a sync.RWMutex.  Get deletes *)
(* from the map of deadlines although it holds mu only for reading, so the *)
(* delete is two steps here, and what the Go runtime may do when another   *)
(* goroutine touches the map between them is one of the outcomes.          *)
(***************************************************************************)
EXTENDS Integers

CONSTANTS
  Keys,
  Conns,      \* the connections, one goroutine each
  Strings,    \* the values SET can store
  Strm,       \* a Stream, stored by XADD
  None,       \* a key that is not in a map; also the answer ("", false) of Get
  MaxTime,    \* bound: the last millisecond of the clock
  Pxs,        \* the values of the px option as a Go int; 0 also stands for no px
  Modulus     \* the number of values of uint64 (2^64 in the program)

ASSUME KvConstants ==
  /\ MaxTime \in Nat /\ Modulus \in Nat
  /\ Pxs \subseteq Int /\ 0 \in Pxs
  /\ \A px \in Pxs : -Modulus <= 2 * px /\ 2 * px < Modulus
  /\ 2 * MaxTime < Modulus
  /\ None \notin Strings \cup {Strm} /\ Strm \notin Strings
  /\ None \notin 0 .. Modulus - 1 /\ None \notin [ms: 0 .. MaxTime, px: Pxs]

VARIABLES
  values,     \* k.values
  expiries,   \* k.expiries
  now,        \* currentMillis()
  pc,         \* the point of Get or Set a goroutine is at, "idle" outside
  call,       \* its arguments, the clock it read and the answer it has
  crashed,    \* the runtime ended the process: concurrent access to a map
  \* history
  lastPx,     \* per key, clock and px of the last SET with a px other than 0
  gone        \* the keys a Get found expired, with no SET since

vars == <<values, expiries, now, pc, call, crashed, lastPx, gone>>
history == <<lastPx, gone>>

Clock == 0 .. MaxTime
Points == {"idle", "locked", "due", "deleting", "return", "lock"}

NoCall == [op |-> "none"]
GetCall(k, ms, answer) == [op |-> "get", key |-> k, ms |-> ms, answer |-> answer]
SetCall(k, v, px, ms) == [op |-> "set", key |-> k, val |-> v, px |-> px, ms |-> ms]

\* The calls there are, and those of a goroutine at a point.
GetCalls == [op: {"get"}, key: Keys, ms: Clock, answer: Strings \cup {Strm, None}]
SetCalls == [op: {"set"}, key: Keys, val: Strings, px: Pxs, ms: Clock]
CallsAt(point) ==
  CASE point = "idle" -> {NoCall}
    [] point = "lock" -> SetCalls
    [] OTHER -> GetCalls

Init ==
  /\ values = [k \in Keys |-> None]
  /\ expiries = [k \in Keys |-> None]
  /\ now \in Clock
  /\ pc = [c \in Conns |-> "idle"]
  /\ call = [c \in Conns |-> NoCall]
  /\ crashed = FALSE
  /\ lastPx = [k \in Keys |-> None]
  /\ gone = {}

\* The wall clock moves, and may be set back.
Tick ==
  /\ ~crashed
  /\ now' \in Clock
  /\ UNCHANGED <<values, expiries, pc, call, crashed, history>>

-----------------------------------------------------------------------------
(* Get *)

\* The goroutines that hold mu for reading.
Readers == {c \in Conns : pc[c] \in {"locked", "due", "deleting", "return"}}

\* Another goroutine is in the middle of delete(k.expiries, ...).
Racing(c) == \E d \in Conns \ {c} : pc[d] = "deleting"

\* Mutant of LockFree: writers do not wait for readers.
LockIgnored == TRUE

LockFree == Readers = {}

GetRLock(c, k) ==
  /\ ~crashed
  /\ pc[c] = "idle"
  /\ pc' = [pc EXCEPT ![c] = "locked"]
  /\ call' = [call EXCEPT ![c] = GetCall(k, 0, None)]
  /\ UNCHANGED <<values, expiries, now, crashed, history>>

\* Mutant of Due: the deadline itself is already too late.
DueAtDeadline(deadline, ms) == deadline # None /\ ms >= deadline

Due(deadline, ms) == deadline # None /\ ms > deadline

\* The clock is read and the deadline looked up.
GetRead(c) ==
  LET k == call[c].key IN
  /\ ~crashed
  /\ pc[c] = "locked"
  /\ \/ /\ Due(expiries[k], now)
        /\ pc' = [pc EXCEPT ![c] = "due"]
        /\ call' = [call EXCEPT ![c] = GetCall(k, now, None)]
     \/ /\ ~Due(expiries[k], now)
        /\ pc' = [pc EXCEPT ![c] = "return"]
        /\ call' = [call EXCEPT ![c] = GetCall(k, now, values[k])]
  /\ UNCHANGED <<values, expiries, now, crashed, history>>

GetDeleteBegin(c) ==
  /\ ~crashed
  /\ pc[c] = "due"
  /\ pc' = [pc EXCEPT ![c] = "deleting"]
  /\ UNCHANGED <<values, expiries, now, call, crashed, history>>

GetDeleteEnd(c) ==
  LET k == call[c].key IN
  /\ ~crashed
  /\ pc[c] = "deleting"
  /\ expiries' = [expiries EXCEPT ![k] = None]
  /\ gone' = gone \cup {k}
  /\ pc' = [pc EXCEPT ![c] = "return"]
  /\ UNCHANGED <<values, now, call, crashed, lastPx>>

\* The deferred RUnlock, and the answer.
GetReturn(c) ==
  /\ ~crashed
  /\ pc[c] = "return"
  /\ pc' = [pc EXCEPT ![c] = "idle"]
  /\ call' = [call EXCEPT ![c] = NoCall]
  /\ UNCHANGED <<values, expiries, now, crashed, history>>

-----------------------------------------------------------------------------
(* Set *)

\* HandleSet converts the px option, Set reads the clock, and asks for mu.
SetStart(c, k, v, px) ==
  /\ ~crashed
  /\ pc[c] = "idle"
  /\ pc' = [pc EXCEPT ![c] = "lock"]
  /\ call' = [call EXCEPT ![c] = SetCall(k, v, px, now)]
  /\ UNCHANGED <<values, expiries, now, crashed, history>>

\* Mutant of Deadline: the addition is done in Go's int.
DeadlineSigned(ms, px) == ms + px

\* uint64(px) and ms + options.Expiry, both in uint64.
Deadline(ms, px) == (ms + (px % Modulus)) % Modulus

\* The locked part of Set.  Without a px the deadline is left as it is.
SetLocked(c) ==
  LET k == call[c].key
      px == call[c].px
      ms == call[c].ms
  IN /\ ~crashed
     /\ pc[c] = "lock" /\ LockFree
     /\ values' = [values EXCEPT ![k] = call[c].val]
     /\ \/ /\ px # 0
           /\ expiries' = [expiries EXCEPT ![k] = Deadline(ms, px)]
           /\ lastPx' = [lastPx EXCEPT ![k] = [ms |-> ms, px |-> px]]
        \/ /\ px = 0
           /\ UNCHANGED <<expiries, lastPx>>
     /\ gone' = gone \ {k}
     /\ pc' = [pc EXCEPT ![c] = "idle"]
     /\ call' = [call EXCEPT ![c] = NoCall]
     /\ UNCHANGED <<now, crashed>>

\* SetStream on a key that is not in k.values.
XAddCreates(k) ==
  /\ ~crashed
  /\ values[k] = None /\ LockFree
  /\ values' = [values EXCEPT ![k] = Strm]
  /\ UNCHANGED <<expiries, now, pc, call, crashed, history>>

\* A goroutine touches the map of deadlines (a lookup, a second delete, a Set)
\* while another one's delete is in progress, and the runtime notices.
MapRace(c) ==
  /\ ~crashed
  /\ pc[c] \in {"locked", "due"} \/ (pc[c] = "lock" /\ LockFree)
  /\ Racing(c)
  /\ crashed' = TRUE
  /\ UNCHANGED <<values, expiries, now, pc, call, history>>

-----------------------------------------------------------------------------
Next ==
  \/ Tick
  \/ \E c \in Conns :
       \/ \E k \in Keys : GetRLock(c, k)
       \/ GetRead(c) \/ GetDeleteBegin(c) \/ GetDeleteEnd(c) \/ MapRace(c) \/ GetReturn(c)
       \/ \E k \in Keys, v \in Strings, px \in Pxs : SetStart(c, k, v, px)
       \/ SetLocked(c)
  \/ \E k \in Keys : XAddCreates(k)

Spec == Init /\ [][Next]_vars

-----------------------------------------------------------------------------
(* Properties *)

\* Every variable stays in its set; a deadline is a uint64 and belongs to a
\* key that holds a value.
TypeOK ==
  /\ values \in [Keys -> Strings \cup {Strm, None}]
  /\ expiries \in [Keys -> 0 .. Modulus - 1 \cup {None}]
  /\ \A k \in Keys : expiries[k] # None => values[k] # None
  /\ now \in Clock
  /\ pc \in [Conns -> Points]
  /\ call \in [Conns -> {NoCall} \cup GetCalls \cup SetCalls]
  /\ \A c \in Conns : call[c] \in CallsAt(pc[c])
  /\ crashed \in BOOLEAN
  /\ lastPx \in [Keys -> [ms: Clock, px: Pxs \ {0}] \cup {None}]
  /\ gone \subseteq Keys

\* What Get answers, at the moment it returns: the value of the last Set (never
\* an older one), or nothing, and the latter for a key that was set only when
\* the millisecond up to which its last px made it valid is over.
GetAnswers ==
  \A c \in Conns : pc[c] = "return" =>
    LET k == call[c].key IN
    \/ call[c].answer = values[k]
    \/ /\ call[c].answer = None /\ lastPx[k] # None
       /\ call[c].ms > lastPx[k].ms + lastPx[k].px

\* A deadline is dropped only by a Get for which it is over: no Set renews it
\* between Get's comparison and its delete.
DropOnlyWhenDue ==
  [][\A k \in Keys : expiries[k] # None /\ expiries'[k] = None =>
       \E c \in Conns : call[c].op = "get" /\ call[c].key = k /\ call[c].ms > expiries[k]]_vars

\* The runtime ends the process only when two Gets overlap, one of which is
\* dropping the deadline of a px that is over: Set, XADD and Gets of keys that are not
\* due never race, whatever the keys.
CrashNeedsTwoGets ==
  crashed => \E c, d \in Readers :
    LET px == lastPx[call[c].key] IN
    /\ c # d /\ pc[c] = "deleting"
    /\ px # None /\ call[c].ms > px.ms + px.px

\* "px is in milliseconds" (stages.md, "Set with expiry"): a key that a Get
\* found expired answers nothing until it is set again.
ExpiredStaysGone ==
  \A c \in Conns :
    pc[c] = "return" /\ call[c].key \in gone => call[c].answer = None
=============================================================================
