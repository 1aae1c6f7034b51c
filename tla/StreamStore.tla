----------------------------- MODULE StreamStore -----------------------------
(***************************************************************************)
(* The stream half of redis-go's KvStore (app/store/kv_store.go: SetStream,*)
(* GetStream, XReadStream and the searches they use) with the handlers     *)
(* XADD, XRANGE and XREAD (app/cmd/xadd.go, xrange.go, xread.go).          *)
(*                                                                         *)
(* An entry is its id, the pair <<milliseconds, sequence number>> that the *)
(* code stores as the string "ms-seq".  Field names and values of entries  *)
(* are left out: no branch of the code reads them.                         *)
(***************************************************************************)
EXTENDS Integers, Sequences, FiniteSetsExt

CONSTANTS
  Keys,       \* the keys clients use
  Conns,      \* client connections, one goroutine each
  Times,      \* the milliseconds the wall clock can show or a client can write
  Seqs,       \* the sequence numbers a client can write
  MaxInt,     \* the largest value of Go's int (2^63 - 1 in the program)
  MaxLen,     \* bound: no XADD starts on a stream with this many entries
  Minus,      \* the argument "-" of XRANGE
  Plus        \* the argument "+" of XRANGE

ASSUME StreamConstants ==
  /\ MaxInt \in Nat
  /\ Times \subseteq 0 .. MaxInt
  /\ Seqs \subseteq 0 .. MaxInt
  /\ MaxLen \in Nat
  /\ Minus \notin Times \X Seqs /\ Plus \notin Times \X Seqs

VARIABLES
  kind,      \* what k.values holds under a key: nothing, a string or a Stream
  stream,    \* the entries under a key that holds a Stream
  clock,     \* currentMillis()
  call,      \* per connection: no call, or an XADD that read its clock
  panicked   \* an index out of range ended the process

vars == <<kind, stream, clock, call, panicked>>

Ids == Nat \X Nat

(***************************************************************************)
(* What strings.Split and strconv.Atoi make of the id argument of XADD.    *)
(* auto: there is no "-" in it ("*").  wild: Atoi rejects the part after   *)
(* the "-", and seq is what Atoi returned then: 0 for text such as "*",    *)
(* MaxInt for digits out of range.                                         *)
(***************************************************************************)
Requests ==
  {r \in [auto: BOOLEAN, wild: BOOLEAN, time: Times \cup {0}, seq: Seqs \cup {0, MaxInt}] :
     /\ r.auto => ~r.wild /\ r.time = 0 /\ r.seq = 0
     /\ ~r.auto => r.time \in Times /\ r.seq \in IF r.wild THEN {0, MaxInt} ELSE Seqs}

NoCall == [pending |-> FALSE]
Calls == [pending: {TRUE}, key: Keys, req: Requests, ms: Times \ {0}]

-----------------------------------------------------------------------------
(* Comparing and searching *)

\* left - right in the code's convention: -1 when the left id is the bigger.
compare(left, right) ==
  IF left = right THEN 0
  ELSE IF left[1] > right[1] \/ (left[1] = right[1] /\ left[2] >= right[2])
       THEN -1 ELSE 1

\* The Go index of the first entry at or after start, 0 when there is none.
findl(start, s) ==
  LET hits == {i \in DOMAIN s : compare(s[i], start) <= 0}
  IN IF start = Minus \/ hits = {} THEN 0 ELSE Min(hits) - 1

\* Mutant of findr: the entry found is left out of the half-open interval.
findrExclusive(end, s) ==
  LET hits == {i \in DOMAIN s : compare(s[i], end) >= 0}
  IN IF end = Plus THEN Len(s)
     ELSE IF hits = {} THEN Len(s) - 1 ELSE Max(hits) - 1

\* Mutant of findr: "nothing found" starts below the stream.
findrFromMinusOne(end, s) ==
  LET hits == {i \in DOMAIN s : compare(s[i], end) >= 0}
  IN IF end = Plus THEN Len(s)
     ELSE IF hits = {} THEN 0 - 1 ELSE Max(hits)

\* The Go index after the last entry at or before end; when there is none
\* the loop leaves r at its initial len(stream) - 1.
findr(end, s) ==
  LET hits == {i \in DOMAIN s : compare(s[i], end) >= 0}
  IN IF end = Plus THEN Len(s)
     ELSE IF hits = {} THEN Len(s) - 1 ELSE Max(hits)

\* The Go index of the first entry after start, 0 when there is none.
xreadfindl(start, s) ==
  LET hits == {i \in DOMAIN s : compare(s[i], start) < 0}
  IN IF hits = {} THEN 0 ELSE Min(hits) - 1

\* The Go slice s[l:r], and when Go refuses to take it.
Slice(s, l, r) == SubSeq(s, l + 1, r)
SliceOutOfRange(l, r) == r < 0 \/ l > r

GetStream(s, start, end) == Slice(s, findl(start, s), findr(end, s))
GetStreamPanics(s, start, end) == SliceOutOfRange(findl(start, s), findr(end, s))
XReadStream(s, start) == Slice(s, xreadfindl(start, s), Len(s))

-----------------------------------------------------------------------------
(* Choosing the id of a new entry *)

\* Addition in Go's int.
Succ(n) == IF n = MaxInt THEN -MaxInt - 1 ELSE n + 1

\* The sequence number before the stream is looked at.
FirstSeq(req) ==
  IF req.wild /\ req.time = 0 THEN 1 ELSE req.seq

\* Mutant of NewId: the wildcard takes the top entry's number itself.
NewIdNotIncremented(req, ms, s) ==
  LET t == IF req.auto THEN ms ELSE req.time
      top == s[Len(s)]
  IN IF s # <<>> /\ req.wild /\ t = top[1] THEN <<t, top[2]>> ELSE <<t, FirstSeq(req)>>

\* The id XADD ends up with: the clock for "*", and the number after the top
\* entry's for a wildcard in the same millisecond.
NewId(req, ms, s) ==
  LET t == IF req.auto THEN ms ELSE req.time
      top == s[Len(s)]
  IN IF s # <<>> /\ req.wild /\ t = top[1] THEN <<t, Succ(top[2])>>
     ELSE <<t, FirstSeq(req)>>

\* Mutant of NotAfterTop: the top entry's own id is let through.
NotAfterTopStrict(id, s) ==
  /\ s # <<>>
  /\ LET top == s[Len(s)]
     IN top[1] > id[1] \/ (top[1] = id[1] /\ top[2] > id[2])

\* Mutant of NotAfterTop: only the milliseconds are compared.
NotAfterTopByTime(id, s) == s # <<>> /\ s[Len(s)][1] > id[1]

\* SetStream's refusal of an id that is "equal or smaller than the target
\* stream top item".
NotAfterTop(id, s) ==
  /\ s # <<>>
  /\ LET top == s[Len(s)]
     IN top[1] > id[1] \/ (top[1] = id[1] /\ top[2] >= id[2])

\* The two errors of SetStream about ids.
Rejected(req, ms, s) ==
  \/ (IF req.auto THEN ms ELSE req.time) <= 0 /\ FirstSeq(req) <= 0
  \/ NotAfterTop(NewId(req, ms, s), s)

-----------------------------------------------------------------------------
Init ==
  /\ kind = [k \in Keys |-> "none"]
  /\ stream = [k \in Keys |-> <<>>]
  /\ clock \in Times \ {0}
  /\ call = [c \in Conns |-> NoCall]
  /\ panicked = FALSE

\* The wall clock moves; an adjustment may set it back.
Tick ==
  /\ ~panicked
  /\ clock' \in Times \ {0}
  /\ UNCHANGED <<kind, stream, call, panicked>>

\* SetStream reads the clock before it asks for the lock.
XAddCall(c, k, req) ==
  /\ ~panicked
  /\ call[c] = NoCall
  /\ Len(stream[k]) < MaxLen
  /\ call' = [call EXCEPT ![c] = [pending |-> TRUE, key |-> k, req |-> req, ms |-> clock]]
  /\ UNCHANGED <<kind, stream, clock, panicked>>

\* Mutant of Extended: a fresh stream replaces the one under the key.
ExtendedAfresh(s, id) == <<id>>

Extended(s, id) == Append(s, id)

\* The rest of SetStream, under k.mu.Lock.  A key that holds nothing gets an
\* empty Stream before the id is checked, and keeps it when the id is refused.
XAddLocked(c) ==
  LET k == call[c].key
      req == call[c].req
      ms == call[c].ms
  IN /\ ~panicked
     /\ call[c] # NoCall
     /\ call' = [call EXCEPT ![c] = NoCall]
     /\ \/ /\ kind[k] = "string"
           /\ UNCHANGED <<kind, stream>>
        \/ /\ kind[k] # "string"
           /\ kind' = [kind EXCEPT ![k] = "stream"]
           /\ stream' = IF Rejected(req, ms, stream[k]) THEN stream
                        ELSE [stream EXCEPT ![k] = Extended(@, NewId(req, ms, @))]
     /\ UNCHANGED <<clock, panicked>>

\* KvStore.Set puts a string under the key, whatever was there.
SetString(k) ==
  /\ ~panicked
  /\ kind' = [kind EXCEPT ![k] = "string"]
  /\ stream' = [stream EXCEPT ![k] = <<>>]
  /\ UNCHANGED <<clock, call, panicked>>

\* HandleXRange on a key that holds a stream.  SplitSeqKey reads an argument
\* without a "-seq" part as the id with sequence number 0, so every argument
\* other than "-" and "+" is a pair.
XRange(k, start, end) ==
  /\ ~panicked
  /\ kind[k] = "stream"
  /\ panicked' = GetStreamPanics(stream[k], start, end)
  /\ UNCHANGED <<kind, stream, clock, call>>

Bounds == Times \X Seqs

Next ==
  \/ Tick
  \/ \E c \in Conns, k \in Keys, req \in Requests : XAddCall(c, k, req)
  \/ \E c \in Conns : XAddLocked(c)
  \/ \E k \in Keys : SetString(k)
  \/ \E k \in Keys, start \in Bounds \cup {Minus}, end \in Bounds \cup {Plus} :
       XRange(k, start, end)

Spec == Init /\ [][Next]_vars

-----------------------------------------------------------------------------
(* Properties *)

\* Every variable stays in its set; stored ids are pairs of naturals even
\* though the wildcard's addition can wrap around.
TypeOK ==
  /\ kind \in [Keys -> {"none", "string", "stream"}]
  /\ stream \in [Keys -> Seq(Ids)]
  /\ clock \in Times \ {0}
  /\ call \in [Conns -> {NoCall} \cup Calls]
  /\ panicked \in BOOLEAN

Before(a, b) == a[1] < b[1] \/ (a[1] = b[1] /\ a[2] < b[2])

Increasing(s) == \A i, j \in DOMAIN s : i < j => Before(s[i], s[j])

\* The ids of a stream are strictly increasing, and above 0-0, whatever the
\* clock does and however connections interleave between reading the clock
\* and taking the lock.
IdsIncrease ==
  \A k \in Keys :
    /\ Increasing(stream[k])
    /\ \A i \in DOMAIN stream[k] : Before(<<0, 0>>, stream[k][i])

\* While a key keeps holding a stream its entries are never changed, removed
\* or reordered, and at most one is added at a time: a reader that stopped at
\* an id misses nothing by asking for what comes after it.
AppendOnly ==
  [][\A k \in Keys :
       kind[k] = "stream" /\ kind'[k] = "stream" =>
         /\ Len(stream'[k]) \in {Len(stream[k]), Len(stream[k]) + 1}
         /\ SubSeq(stream'[k], 1, Len(stream[k])) = stream[k]]_vars

InRange(id, start, end) == ~Before(id, start) /\ ~Before(end, id)

\* out has the ids of a set, each once and in the order of the stream.
Entries(s) == {s[i] : i \in DOMAIN s}
Lists(out, ids) == Increasing(out) /\ Entries(out) = ids

\* XRANGE returns exactly the entries between its bounds whenever they are in
\* order and the stream has an entry on the inner side of each; XREAD returns
\* exactly the entries after its argument whenever there are any (the defaults of
\* findl, findr and xreadfindl, and the half-open slices).
ReadsExactWhenCovered ==
  \A k \in Keys, start \in Bounds :
    LET s == stream[k] IN
    /\ \A end \in Bounds :
         /\ ~Before(end, start)
         /\ \E i \in DOMAIN s : ~Before(s[i], start)
         /\ \E i \in DOMAIN s : ~Before(end, s[i])
         => Lists(GetStream(s, start, end), {id \in Entries(s) : InRange(id, start, end)})
    /\ (\E i \in DOMAIN s : Before(start, s[i]))
         => Lists(XReadStream(s, start), {id \in Entries(s) : Before(start, id)})

\* XRANGE with its bounds in order ends the process in one case only: the stream
\* is empty, as a refused XADD leaves it (SetStream stores it before the id is
\* looked at), and the end is an id.  Otherwise findl and findr never cross, and
\* never leave the stream.
OrderedRangePanicsIffEmpty ==
  \A k \in Keys, start \in Bounds \cup {Minus}, end \in Bounds \cup {Plus} :
    kind[k] = "stream" /\ (start = Minus \/ end = Plus \/ ~Before(end, start))
      => (GetStreamPanics(stream[k], start, end) <=> stream[k] = <<>> /\ end # Plus)

\* XADD with "ms-*" is not refused if its millisecond is after the top entry's, or is
\* the top entry's while a number is left in it: the code finds a free one.  (Where the
\* top number is the largest int the addition wraps, and the command is refused.)
WildcardAccepted ==
  \A k \in Keys, t \in Times :
    LET s == stream[k]
        top == s[Len(s)]
        req == [auto |-> FALSE, wild |-> TRUE, time |-> t, seq |-> 0]
    IN (s = <<>> \/ top[1] < t \/ (top[1] = t /\ top[2] < MaxInt)) => ~Rejected(req, clock, s)

\* "xread is exclusive - start needs to be bigger" (kv_store.go:307): XREAD
\* returns only entries after its argument.
XReadExclusive ==
  \A k \in Keys, start \in Bounds :
    LET out == XReadStream(stream[k], start)
    IN \A i \in DOMAIN out : Before(start, out[i])
=============================================================================
