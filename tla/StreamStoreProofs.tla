-------------------------- MODULE StreamStoreProofs --------------------------
(***************************************************************************)
(* Proofs about StreamStore, for every set of keys and connections, every  *)
(* clock and every size of Go's int.                                       *)
(***************************************************************************)
EXTENDS StreamStore, WellFoundedInduction, TLAPS

\* The fields of a request are where Calls puts them.
LEMMA RequestFields ==
  ASSUME NEW req \in Requests
  PROVE  /\ req.auto \in BOOLEAN
         /\ req.wild \in BOOLEAN
         /\ req.time \in Nat
         /\ req.seq \in Nat
<1>1. req \in [auto: BOOLEAN, wild: BOOLEAN, time: Times \cup {0}, seq: Seqs \cup {0, MaxInt}]
  BY DEF Requests
<1>2. Times \cup {0} \subseteq Nat /\ Seqs \cup {0, MaxInt} \subseteq Nat
  BY StreamConstants
<1> QED
  BY <1>1, <1>2

\* An id that passes SetStream's checks is a pair of naturals (the addition of
\* the wildcard did not wrap), above 0-0 and above the top entry's.
LEMMA AcceptedId ==
  ASSUME NEW req \in Requests, NEW ms \in Times \ {0}, NEW s \in Seq(Ids),
         ~Rejected(req, ms, s)
  PROVE  /\ NewId(req, ms, s) \in Ids
         /\ Before(<<0, 0>>, NewId(req, ms, s))
         /\ s # <<>> => Before(s[Len(s)], NewId(req, ms, s))
<1> DEFINE t == IF req.auto THEN ms ELSE req.time
           top == s[Len(s)]
           id == NewId(req, ms, s)
<1>1. /\ req.auto \in BOOLEAN /\ req.wild \in BOOLEAN
      /\ req.time \in Nat /\ req.seq \in Nat
  BY RequestFields
<1>2. ms \in Nat /\ ms > 0
  BY StreamConstants
<1>3. t \in Nat /\ FirstSeq(req) \in Nat
  BY <1>1, <1>2 DEF FirstSeq
<1>4. t > 0 \/ FirstSeq(req) > 0
  BY <1>3 DEF Rejected
<1>5. CASE s # <<>> /\ req.wild /\ t = top[1]
  <2>1. top \in Ids
    BY <1>5
  <2>2. top[1] \in Nat /\ top[2] \in Nat
    BY <2>1 DEF Ids
  <2>3. id = <<t, Succ(top[2])>>
    BY <1>5 DEF NewId
  <2>4. ~NotAfterTop(id, s)
    BY DEF Rejected
  <2>5. ~(top[2] >= Succ(top[2]))
    BY <1>5, <2>3, <2>4 DEF NotAfterTop
  <2>6. Succ(top[2]) = top[2] + 1
    BY <2>2, <2>5, StreamConstants DEF Succ
  <2> QED
    BY <1>3, <1>5, <2>2, <2>3, <2>6 DEF Ids, Before
<1>6. CASE ~(s # <<>> /\ req.wild /\ t = top[1])
  <2>1. id = <<t, FirstSeq(req)>>
    BY <1>6 DEF NewId
  <2>2. id \in Ids /\ Before(<<0, 0>>, id)
    BY <1>3, <1>4, <2>1 DEF Ids, Before
  <2>3. ASSUME s # <<>> PROVE Before(top, id)
    <3>1. top \in Ids
      BY <2>3
    <3>2. top[1] \in Nat /\ top[2] \in Nat
      BY <3>1 DEF Ids
    <3>3. ~(top[1] > t \/ (top[1] = t /\ top[2] >= FirstSeq(req)))
      BY <2>1, <2>3 DEF Rejected, NotAfterTop
    <3> QED
      BY <1>3, <2>1, <3>2, <3>3 DEF Before
  <2> QED
    BY <2>2, <2>3
<1> QED
  BY <1>5, <1>6

-----------------------------------------------------------------------------
\* TypeOK holds at the start.
LEMMA InitType == Init => TypeOK
<1> SUFFICES ASSUME Init PROVE TypeOK
  OBVIOUS
<1>1. stream \in [Keys -> Seq(Ids)]
  <2>1. <<>> \in Seq(Ids)
    OBVIOUS
  <2> QED
    BY <2>1 DEF Init
<1>2. call \in [Conns -> {NoCall} \cup Calls]
  BY DEF Init
<1> QED
  BY <1>1, <1>2 DEF Init, TypeOK

\* Every step keeps TypeOK.
LEMMA NextType == TypeOK /\ [Next]_vars => TypeOK'
<1> SUFFICES ASSUME TypeOK, [Next]_vars PROVE TypeOK'
  OBVIOUS
<1> USE DEF TypeOK
<1>1. CASE Tick
  BY <1>1 DEF Tick
<1>2. ASSUME NEW c \in Conns, NEW k \in Keys, NEW req \in Requests, XAddCall(c, k, req)
      PROVE  TypeOK'
  BY <1>2 DEF XAddCall, Calls
<1>3. ASSUME NEW c \in Conns, XAddLocked(c)
      PROVE  TypeOK'
  <2>1. call[c] \in Calls
    BY <1>3 DEF XAddLocked
  <2>2. /\ call[c].key \in Keys /\ call[c].req \in Requests
        /\ call[c].ms \in Times \ {0}
    BY <2>1 DEF Calls
  <2> DEFINE k == call[c].key
             id == NewId(call[c].req, call[c].ms, stream[k])
  <2>3. CASE UNCHANGED <<kind, stream>>
    BY <1>3, <2>3 DEF XAddLocked
  <2>4. CASE /\ kind' = [kind EXCEPT ![k] = "stream"]
             /\ stream' = IF Rejected(call[c].req, call[c].ms, stream[k]) THEN stream
                          ELSE [stream EXCEPT ![k] = Extended(@, NewId(call[c].req, call[c].ms, @))]
    <3>1. CASE Rejected(call[c].req, call[c].ms, stream[k])
      BY <1>3, <2>2, <2>4, <3>1 DEF XAddLocked
    <3>2. CASE ~Rejected(call[c].req, call[c].ms, stream[k])
      <4>1. id \in Ids
        BY <2>2, <3>2, AcceptedId
      <4>2. Append(stream[k], id) \in Seq(Ids)
        BY <2>2, <4>1
      <4>3. stream' = [stream EXCEPT ![k] = Append(stream[k], id)]
        BY <2>2, <2>4, <3>2 DEF Extended
      <4> QED
        BY <1>3, <2>2, <2>4, <4>2, <4>3 DEF XAddLocked
    <3> QED
      BY <3>1, <3>2
  <2> QED
    BY <1>3, <2>3, <2>4 DEF XAddLocked
<1>4. ASSUME NEW k \in Keys, SetString(k)
      PROVE  TypeOK'
  BY <1>4 DEF SetString
<1>5. ASSUME NEW k \in Keys, NEW start, NEW end, XRange(k, start, end)
      PROVE  TypeOK'
  BY <1>5 DEF XRange, GetStreamPanics, SliceOutOfRange
<1>6. CASE UNCHANGED vars
  BY <1>6 DEF vars
<1> QED
  BY <1>1, <1>2, <1>3, <1>4, <1>5, <1>6 DEF Next

\* Whatever the clock does and whoever calls, the variables keep their types;
\* for XADD this says that the wildcard's addition never wraps into the store.
THEOREM TypeCorrect == Spec => []TypeOK
BY InitType, NextType, PTL DEF Spec

-----------------------------------------------------------------------------
\* Appending an id above the top entry's keeps a stream increasing.
LEMMA AppendIncreasing ==
  ASSUME NEW s \in Seq(Ids), NEW id \in Ids, Increasing(s),
         s # <<>> => Before(s[Len(s)], id)
  PROVE  Increasing(Append(s, id))
<1> SUFFICES ASSUME NEW i \in DOMAIN Append(s, id), NEW j \in DOMAIN Append(s, id), i < j
             PROVE  Before(Append(s, id)[i], Append(s, id)[j])
  BY DEF Increasing
<1>1. Len(s) \in Nat /\ i \in 1 .. Len(s) /\ j \in 1 .. Len(s) + 1
  OBVIOUS
<1>2. Append(s, id)[i] = s[i] /\ s[i] \in Ids
  BY <1>1
<1>3. CASE j <= Len(s)
  BY <1>1, <1>2, <1>3 DEF Increasing
<1>4. CASE j = Len(s) + 1
  <2>1. Append(s, id)[j] = id
    BY <1>4
  <2>2. Before(s[Len(s)], id) /\ s[Len(s)] \in Ids
    BY <1>1
  <2>3. i = Len(s) \/ Before(s[i], s[Len(s)])
    BY <1>1 DEF Increasing
  <2> QED
    BY <1>2, <2>1, <2>2, <2>3, SMTT(60) DEF Before, Ids
<1> QED
  BY <1>1, <1>3, <1>4

\* t is s with an accepted id at its end.
Adds(id, s, t) ==
  /\ t = Append(s, id)
  /\ Before(<<0, 0>>, id)
  /\ s # <<>> => Before(s[Len(s)], id)

\* What XAddLocked does to a stream: nothing, or one accepted id at its end.
LEMMA XAddEffect ==
  ASSUME TypeOK, NEW c \in Conns, XAddLocked(c), NEW k \in Keys
  PROVE  \/ stream'[k] = stream[k]
         \/ \E id \in Ids : Adds(id, stream[k], stream'[k])
<1> DEFINE key == call[c].key
           req == call[c].req
           ms == call[c].ms
           id == NewId(req, ms, stream[key])
<1>1. key \in Keys /\ req \in Requests /\ ms \in Times \ {0}
  BY DEF XAddLocked, TypeOK, Calls
<1>2. CASE stream' = stream
  BY <1>2
<1>3. CASE ~Rejected(req, ms, stream[key]) /\ stream' = [stream EXCEPT ![key] = Extended(@, NewId(req, ms, @))]
  <2>1. /\ id \in Ids /\ Before(<<0, 0>>, id)
        /\ stream[key] # <<>> => Before(stream[key][Len(stream[key])], id)
    BY <1>1, <1>3, AcceptedId DEF TypeOK
  <2>2. stream'[key] = Append(stream[key], id)
    BY <1>1, <1>3 DEF Extended, TypeOK
  <2>3. k # key => stream'[k] = stream[k]
    BY <1>3 DEF TypeOK
  <2> QED
    BY <2>1, <2>2, <2>3 DEF Adds
<1> QED
  BY <1>2, <1>3 DEF XAddLocked

\* Every step keeps the streams increasing.
LEMMA NextIncrease == TypeOK /\ IdsIncrease /\ [Next]_vars => IdsIncrease'
<1> SUFFICES ASSUME TypeOK, IdsIncrease, [Next]_vars, NEW k \in Keys
             PROVE  /\ Increasing(stream'[k])
                    /\ \A i \in DOMAIN stream'[k] : Before(<<0, 0>>, stream'[k][i])
  BY DEF IdsIncrease
<1>0. /\ stream[k] \in Seq(Ids) /\ Increasing(stream[k])
      /\ \A i \in DOMAIN stream[k] : Before(<<0, 0>>, stream[k][i])
  BY DEF TypeOK, IdsIncrease
<1>1. CASE stream'[k] = stream[k]
  BY <1>0, <1>1
<1>2. ASSUME NEW c \in Conns, XAddLocked(c)
      PROVE  /\ Increasing(stream'[k])
             /\ \A i \in DOMAIN stream'[k] : Before(<<0, 0>>, stream'[k][i])
  <2>1. CASE \E id \in Ids : Adds(id, stream[k], stream'[k])
    <3>1. PICK id \in Ids : Adds(id, stream[k], stream'[k])
      BY <2>1
    <3>2. Increasing(stream'[k])
      BY <1>0, <3>1, AppendIncreasing DEF Adds
    <3>3. ASSUME NEW i \in DOMAIN Append(stream[k], id)
          PROVE  Before(<<0, 0>>, Append(stream[k], id)[i])
      BY <1>0, <3>1 DEF Adds
    <3> QED
      BY <3>1, <3>2, <3>3 DEF Adds
  <2> QED
    BY <1>1, <1>2, <2>1, XAddEffect
<1>3. ASSUME NEW key \in Keys, SetString(key)
      PROVE  stream'[k] = stream[k] \/ stream'[k] = <<>>
  BY <1>3 DEF SetString, TypeOK
<1>4. CASE stream'[k] = <<>>
  BY <1>4 DEF Increasing
<1>5. CASE Tick \/ UNCHANGED vars
  BY <1>1, <1>5 DEF Tick, vars
<1>6. ASSUME NEW c \in Conns, NEW key \in Keys, NEW req \in Requests, XAddCall(c, key, req)
      PROVE  stream' = stream
  BY <1>6 DEF XAddCall
<1>7. ASSUME NEW key \in Keys, NEW start, NEW end, XRange(key, start, end)
      PROVE  stream' = stream
  BY <1>7 DEF XRange
<1> QED
  BY <1>1, <1>2, <1>3, <1>4, <1>5, <1>6, <1>7 DEF Next

\* XADD keeps every stream strictly increasing and above 0-0, although each
\* call reads the clock before it waits for the lock and the clock may go back.
THEOREM StreamsIncrease == Spec => []IdsIncrease
<1>1. Init => IdsIncrease
  <2> SUFFICES ASSUME Init, NEW k \in Keys
               PROVE  /\ Increasing(stream[k])
                      /\ \A i \in DOMAIN stream[k] : Before(<<0, 0>>, stream[k][i])
    BY DEF IdsIncrease
  <2>1. stream[k] = <<>>
    BY DEF Init
  <2> QED
    BY <2>1 DEF Increasing
<1> QED
  BY <1>1, NextIncrease, TypeCorrect, PTL DEF Spec

\* No operation changes, removes or reorders the entries of a key that goes on
\* holding a stream, so a reader resuming after an id misses nothing.
THEOREM StreamsAppendOnly == Spec => AppendOnly
<1> DEFINE Appends ==
      \A k \in Keys :
        kind[k] = "stream" /\ kind'[k] = "stream" =>
          /\ Len(stream'[k]) \in {Len(stream[k]), Len(stream[k]) + 1}
          /\ SubSeq(stream'[k], 1, Len(stream[k])) = stream[k]
<1>1. TypeOK /\ [Next]_vars => [Appends]_vars
  <2> SUFFICES ASSUME TypeOK, Next, NEW k \in Keys, kind[k] = "stream", kind'[k] = "stream"
               PROVE  /\ Len(stream'[k]) \in {Len(stream[k]), Len(stream[k]) + 1}
                      /\ SubSeq(stream'[k], 1, Len(stream[k])) = stream[k]
    OBVIOUS
  <2>0. stream[k] \in Seq(Ids)
    BY DEF TypeOK
  <2>1. CASE stream'[k] = stream[k]
    BY <2>0, <2>1
  <2>2. ASSUME NEW id \in Ids, Adds(id, stream[k], stream'[k])
        PROVE  /\ Len(stream'[k]) \in {Len(stream[k]), Len(stream[k]) + 1}
               /\ SubSeq(stream'[k], 1, Len(stream[k])) = stream[k]
    <3>1. SubSeq(Append(stream[k], id), 1, Len(stream[k])) = stream[k]
      BY <2>0
    <3> QED
      BY <2>0, <2>2, <3>1 DEF Adds
  <2>3. ASSUME NEW key \in Keys, SetString(key)
        PROVE  stream'[k] = stream[k]
    BY <2>3 DEF SetString, TypeOK
  <2>4. CASE Tick
    BY <2>1, <2>4 DEF Tick
  <2>5. ASSUME NEW c \in Conns, NEW key \in Keys, NEW req \in Requests, XAddCall(c, key, req)
        PROVE  stream' = stream
    BY <2>5 DEF XAddCall
  <2>6. ASSUME NEW key \in Keys, NEW start, NEW end, XRange(key, start, end)
        PROVE  stream' = stream
    BY <2>6 DEF XRange
  <2> QED
    BY <2>1, <2>2, <2>3, <2>4, <2>5, <2>6, XAddEffect DEF Next
<1> QED
  BY <1>1, TypeCorrect, PTL DEF Spec, AppendOnly

-----------------------------------------------------------------------------
(* The searches: the least and the greatest index of a set of hits. *)

\* A set of numbers that is not empty has a least element, and Min chooses it.
LEMMA MinOf ==
  ASSUME NEW S \in SUBSET Nat, S # {}
  PROVE  Min(S) \in S /\ \A x \in S : Min(S) <= x
<1> DEFINE R == {ss \in Nat \X Nat : ss[1] < ss[2]}
<1>1. IsWellFoundedOn(R, Nat)
  BY NatLessThanWellFounded, Zenon DEF OpToRel
<1>2. PICK m \in S : \A y \in S : ~(<<y, m>> \in R)
  BY <1>1, WFMin, Zenon
<1>3. ASSUME NEW y \in S, y < m
      PROVE  FALSE
  <2>1. <<y, m>> \in Nat \X Nat
    OBVIOUS
  <2>2. <<y, m>>[1] < <<y, m>>[2]
    BY <1>3
  <2>3. <<y, m>> \in R
    BY <2>1, <2>2, Zenon
  <2> QED
    BY <1>2, <2>3, Zenon
<1>4. \A y \in S : m <= y
  BY <1>3
<1> QED
  BY <1>2, <1>4 DEF Min

\* A bounded set of numbers that is not empty has a greatest one; Max chooses it.
LEMMA MaxOf ==
  ASSUME NEW n \in Nat, NEW S \in SUBSET (0 .. n), S # {}
  PROVE  Max(S) \in S /\ \A x \in S : x <= Max(S)
<1> DEFINE T == {x \in 0 .. n : n - x \in S}
<1>1. T \in SUBSET Nat
  OBVIOUS
<1>2. T # {}
  <2>1. PICK x \in S : x \in 0 .. n
    OBVIOUS
  <2>2. n - x \in 0 .. n /\ n - (n - x) = x
    BY <2>1
  <2> QED
    BY <2>2
<1>3. PICK t \in T : \A y \in T : t <= y
  BY <1>1, <1>2, MinOf
<1>4. n - t \in S
  BY <1>3
<1>5. ASSUME NEW x \in S PROVE x <= n - t
  <2>1. x \in 0 .. n
    OBVIOUS
  <2>2. n - x \in T
    BY <2>1
  <2>3. t <= n - x /\ t \in 0 .. n
    BY <1>3, <2>2
  <2> QED
    BY <2>1, <2>3
<1>6. \E m \in S : \A x \in S : m >= x
  <2>1. \A x \in S : n - t >= x
    BY <1>5, <1>1, <1>3
  <2> QED
    BY <1>4, <2>1
<1>7. Max(S) \in S /\ \A x \in S : Max(S) >= x
  BY <1>6 DEF Max
<1> QED
  BY <1>7

\* compare is the order of ids: at or after, at or before, after.
LEMMA CompareIsOrder ==
  ASSUME NEW a \in Ids, NEW b \in Ids
  PROVE  /\ compare(a, b) <= 0 <=> ~Before(a, b)
         /\ compare(a, b) >= 0 <=> ~Before(b, a)
         /\ compare(a, b) < 0 <=> Before(b, a)
<1>1. a = <<a[1], a[2]>> /\ b = <<b[1], b[2]>> /\ a[1] \in Nat /\ a[2] \in Nat /\ b[1] \in Nat /\ b[2] \in Nat
  BY DEF Ids
<1>2. a = b <=> a[1] = b[1] /\ a[2] = b[2]
  BY <1>1
<1> QED
  BY <1>1, <1>2 DEF compare, Before

\* Before is a strict order of ids, and total.
LEMMA BeforeTransitive ==
  ASSUME NEW a \in Ids, NEW b \in Ids, NEW c \in Ids
  PROVE  /\ Before(a, b) /\ Before(b, c) => Before(a, c)
         /\ Before(a, b) => ~Before(b, a)
         /\ Before(a, b) /\ ~Before(c, b) => Before(a, c)
         /\ ~Before(b, a) /\ Before(b, c) => Before(a, c)
BY DEF Before, Ids

\* A bound is an id, and neither "-" nor "+".
LEMMA BoundsAreIds == Bounds \subseteq Ids /\ Minus \notin Bounds /\ Plus \notin Bounds
<1>1. Times \subseteq Nat /\ Seqs \subseteq Nat
  BY StreamConstants
<1>2. Bounds \subseteq Ids
  BY <1>1 DEF Bounds, Ids
<1> QED
  BY <1>2, StreamConstants DEF Bounds

\* findl stops at the first entry that is not before start.
LEMMA FindlStops ==
  ASSUME NEW s \in Seq(Ids), NEW start \in Ids, start # Minus
  PROVE  /\ (\E i \in DOMAIN s : ~Before(s[i], start)) =>
              /\ findl(start, s) \in 0 .. Len(s) - 1
              /\ ~Before(s[findl(start, s) + 1], start)
              /\ \A i \in DOMAIN s : i <= findl(start, s) => Before(s[i], start)
         /\ (~\E i \in DOMAIN s : ~Before(s[i], start)) => findl(start, s) = 0
<1> DEFINE hits == {i \in DOMAIN s : compare(s[i], start) <= 0}
<1>1. DOMAIN s = 1 .. Len(s) /\ Len(s) \in Nat /\ \A i \in DOMAIN s : s[i] \in Ids
  OBVIOUS
<1>2. \A i \in DOMAIN s : i \in hits <=> ~Before(s[i], start)
  BY <1>1, CompareIsOrder
<1>3. CASE hits = {}
  BY <1>2, <1>3 DEF findl
<1>4. CASE hits # {}
  <2>1. hits \in SUBSET Nat
    BY <1>1
  <2>2. Min(hits) \in hits /\ \A x \in hits : Min(hits) <= x
    BY <1>4, <2>1, MinOf
  <2>3. findl(start, s) = Min(hits) - 1
    BY <1>4 DEF findl
  <2> HIDE DEF hits
  <2>4. /\ Min(hits) \in 1 .. Len(s) /\ findl(start, s) + 1 = Min(hits)
        /\ findl(start, s) \in 0 .. Len(s) - 1
    BY <1>1, <2>2, <2>3 DEF hits
  <2>5. ASSUME NEW i \in DOMAIN s, i <= findl(start, s)
        PROVE  Before(s[i], start)
    <3>1. i < Min(hits)
      BY <1>1, <2>3, <2>4, <2>5
    <3>2. i \notin hits
      BY <1>1, <2>2, <2>4, <3>1
    <3> QED
      BY <1>2, <3>2
  <2> QED
    BY <1>1, <1>2, <2>2, <2>4, <2>5
<1> QED
  BY <1>3, <1>4

\* findr stops after the last entry that is not after end.
LEMMA FindrStops ==
  ASSUME NEW s \in Seq(Ids), NEW end \in Ids, end # Plus
  PROVE  /\ (\E i \in DOMAIN s : ~Before(end, s[i])) =>
              /\ findr(end, s) \in DOMAIN s
              /\ ~Before(end, s[findr(end, s)])
              /\ \A i \in DOMAIN s : i > findr(end, s) => Before(end, s[i])
         /\ (~\E i \in DOMAIN s : ~Before(end, s[i])) => findr(end, s) = Len(s) - 1
<1> DEFINE hits == {i \in DOMAIN s : compare(s[i], end) >= 0}
<1>1. DOMAIN s = 1 .. Len(s) /\ Len(s) \in Nat /\ \A i \in DOMAIN s : s[i] \in Ids
  OBVIOUS
<1>2. \A i \in DOMAIN s : i \in hits <=> ~Before(end, s[i])
  BY <1>1, CompareIsOrder
<1>3. CASE hits = {}
  BY <1>2, <1>3 DEF findr
<1>4. CASE hits # {}
  <2>1. hits \in SUBSET (0 .. Len(s))
    BY <1>1
  <2>2. Max(hits) \in hits /\ \A x \in hits : x <= Max(hits)
    BY <1>1, <1>4, <2>1, MaxOf
  <2>3. findr(end, s) = Max(hits)
    BY <1>4 DEF findr
  <2> HIDE DEF hits
  <2>4. Max(hits) \in DOMAIN s
    BY <2>2 DEF hits
  <2>5. ASSUME NEW i \in DOMAIN s, i > findr(end, s)
        PROVE  Before(end, s[i])
    <3>1. i \notin hits
      BY <1>1, <2>2, <2>3, <2>4, <2>5
    <3> QED
      BY <1>2, <3>1
  <2> QED
    BY <1>2, <2>2, <2>3, <2>4, <2>5
<1> QED
  BY <1>3, <1>4

\* xreadfindl stops at the first entry after start, when there is one.
LEMMA XReadFindlStops ==
  ASSUME NEW s \in Seq(Ids), NEW start \in Ids, \E i \in DOMAIN s : Before(start, s[i])
  PROVE  /\ xreadfindl(start, s) \in 0 .. Len(s) - 1
         /\ Before(start, s[xreadfindl(start, s) + 1])
         /\ \A i \in DOMAIN s : i <= xreadfindl(start, s) => ~Before(start, s[i])
<1> DEFINE hits == {i \in DOMAIN s : compare(s[i], start) < 0}
<1>1. DOMAIN s = 1 .. Len(s) /\ Len(s) \in Nat /\ \A i \in DOMAIN s : s[i] \in Ids
  OBVIOUS
<1>2. \A i \in DOMAIN s : i \in hits <=> Before(start, s[i])
  BY <1>1, CompareIsOrder
<1>3. hits # {} /\ hits \in SUBSET Nat
  BY <1>1, <1>2
<1>4. Min(hits) \in hits /\ \A x \in hits : Min(hits) <= x
  BY <1>3, MinOf
<1>5. xreadfindl(start, s) = Min(hits) - 1
  BY <1>3 DEF xreadfindl
<1> HIDE DEF hits
<1>6. /\ Min(hits) \in 1 .. Len(s) /\ xreadfindl(start, s) + 1 = Min(hits)
      /\ xreadfindl(start, s) \in 0 .. Len(s) - 1
  BY <1>1, <1>4, <1>5 DEF hits
<1>7. ASSUME NEW i \in DOMAIN s, i <= xreadfindl(start, s)
      PROVE  ~Before(start, s[i])
  <2>1. i < Min(hits)
    BY <1>1, <1>5, <1>6, <1>7
  <2>2. i \notin hits
    BY <1>1, <1>4, <1>6, <2>1
  <2> QED
    BY <1>2, <2>2
<1> QED
  BY <1>1, <1>2, <1>4, <1>6, <1>7

\* The slice of an increasing stream lists the ids of its indices.
LEMMA SliceLists ==
  ASSUME NEW s \in Seq(Ids), Increasing(s), NEW l \in 0 .. Len(s), NEW r \in 0 .. Len(s)
  PROVE  Lists(Slice(s, l, r), {s[i] : i \in l + 1 .. r})
<1> DEFINE out == Slice(s, l, r)
           n == IF l + 1 <= r THEN r - l ELSE 0
<1>1. Len(s) \in Nat /\ DOMAIN s = 1 .. Len(s)
  OBVIOUS
<1>2. out \in Seq(Ids) /\ DOMAIN out = 1 .. n /\ \A i \in 1 .. n : out[i] = s[i + l]
  BY <1>1 DEF Slice
<1>3. Increasing(out)
  <2> SUFFICES ASSUME NEW i \in 1 .. n, NEW j \in 1 .. n, i < j PROVE Before(out[i], out[j])
    BY <1>2 DEF Increasing
  <2>1. i + l \in DOMAIN s /\ j + l \in DOMAIN s /\ i + l < j + l
    BY <1>1
  <2> QED
    BY <1>2, <2>1 DEF Increasing
<1>4. ASSUME NEW i \in 1 .. n PROVE out[i] \in {s[j] : j \in l + 1 .. r}
  BY <1>2, SMTT(30)
<1>5. ASSUME NEW j \in l + 1 .. r PROVE s[j] \in Entries(out)
  <2>1. j - l \in 1 .. n /\ (j - l) + l = j
    BY <1>1
  <2>2. out[j - l] = s[j]
    BY <1>2, <2>1
  <2> QED
    BY <1>2, <2>1, <2>2 DEF Entries
<1> QED
  BY <1>2, <1>3, <1>4, <1>5 DEF Lists, Entries

-----------------------------------------------------------------------------
\* Covered on both sides, XRANGE returns the entries between its bounds.
LEMMA XRangeExact ==
  ASSUME NEW s \in Seq(Ids), Increasing(s), NEW start \in Bounds, NEW end \in Bounds,
         \E i \in DOMAIN s : ~Before(s[i], start),
         \E i \in DOMAIN s : ~Before(end, s[i])
  PROVE  Lists(GetStream(s, start, end), {id \in Entries(s) : InRange(id, start, end)})
<1> DEFINE l == findl(start, s)
           r == findr(end, s)
<1>1. DOMAIN s = 1 .. Len(s) /\ Len(s) \in Nat /\ \A i \in DOMAIN s : s[i] \in Ids
  OBVIOUS
<1>2. start \in Ids /\ start # Minus /\ end \in Ids /\ end # Plus
  BY BoundsAreIds
<1>3. /\ l \in 0 .. Len(s) - 1 /\ ~Before(s[l + 1], start)
      /\ \A i \in DOMAIN s : i <= l => Before(s[i], start)
  BY <1>2, FindlStops
<1>4. /\ r \in DOMAIN s /\ ~Before(end, s[r])
      /\ \A i \in DOMAIN s : i > r => Before(end, s[i])
  BY <1>2, FindrStops
<1> HIDE DEF l, r
<1>5. ASSUME NEW i \in DOMAIN s
      PROVE  InRange(s[i], start, end) <=> i \in l + 1 .. r
  <2>1. i >= l + 1 => ~Before(s[i], start)
    <3>1. i > l + 1 => Before(s[l + 1], s[i])
      BY <1>1, <1>3 DEF Increasing
    <3>2. l + 1 \in DOMAIN s
      BY <1>1, <1>3
    <3> QED
      BY <1>1, <1>2, <1>3, <3>1, <3>2, BeforeTransitive
  <2>2. i <= r => ~Before(end, s[i])
    <3>1. i < r => Before(s[i], s[r])
      BY <1>1, <1>4 DEF Increasing
    <3> QED
      BY <1>1, <1>2, <1>4, <3>1, BeforeTransitive
  <2> QED
    BY <1>1, <1>3, <1>4, <2>1, <2>2 DEF InRange
<1>6. {s[i] : i \in l + 1 .. r} = {id \in Entries(s) : InRange(id, start, end)}
  <2>1. \A i \in l + 1 .. r : i \in DOMAIN s
    BY <1>1, <1>3, <1>4
  <2> QED
    BY <1>5, <2>1 DEF Entries
<1>7. Lists(Slice(s, l, r), {s[i] : i \in l + 1 .. r})
  BY <1>1, <1>3, <1>4, SliceLists, SMTT(60)
<1> QED
  BY <1>6, <1>7 DEF GetStream, l, r

\* When there are any, XREAD returns the entries after its argument.
LEMMA XReadExact ==
  ASSUME NEW s \in Seq(Ids), Increasing(s), NEW start \in Bounds,
         \E i \in DOMAIN s : Before(start, s[i])
  PROVE  Lists(XReadStream(s, start), {id \in Entries(s) : Before(start, id)})
<1> DEFINE l == xreadfindl(start, s)
<1>1. DOMAIN s = 1 .. Len(s) /\ Len(s) \in Nat /\ \A i \in DOMAIN s : s[i] \in Ids
  OBVIOUS
<1>2. start \in Ids
  BY BoundsAreIds
<1>3. /\ l \in 0 .. Len(s) - 1 /\ Before(start, s[l + 1])
      /\ \A i \in DOMAIN s : i <= l => ~Before(start, s[i])
  BY <1>2, XReadFindlStops
<1> HIDE DEF l
<1>4. ASSUME NEW i \in DOMAIN s
      PROVE  Before(start, s[i]) <=> i \in l + 1 .. Len(s)
  <2>1. i > l + 1 => Before(s[l + 1], s[i])
    BY <1>1, <1>3 DEF Increasing
  <2>2. l + 1 \in DOMAIN s
    BY <1>1, <1>3
  <2>3. i > l + 1 => Before(start, s[i])
    BY <1>1, <1>2, <1>3, <2>1, <2>2, BeforeTransitive
  <2> QED
    BY <1>1, <1>3, <2>3
<1>5. {s[i] : i \in l + 1 .. Len(s)} = {id \in Entries(s) : Before(start, id)}
  <2>1. \A i \in l + 1 .. Len(s) : i \in DOMAIN s
    BY <1>1, <1>3
  <2> QED
    BY <1>4, <2>1 DEF Entries
<1>6. Lists(Slice(s, l, Len(s)), {s[i] : i \in l + 1 .. Len(s)})
  BY <1>1, <1>3, SliceLists
<1> QED
  BY <1>5, <1>6 DEF XReadStream, l

\* findl and findr never cross on bounds that are in order.
LEMMA OrderedRangePanics ==
  ASSUME NEW s \in Seq(Ids), NEW start \in Bounds \cup {Minus}, NEW end \in Bounds \cup {Plus},
         start = Minus \/ end = Plus \/ ~Before(end, start)
  PROVE  GetStreamPanics(s, start, end) <=> s = <<>> /\ end # Plus
<1> DEFINE l == findl(start, s)
           r == findr(end, s)
<1>1. DOMAIN s = 1 .. Len(s) /\ Len(s) \in Nat /\ \A i \in DOMAIN s : s[i] \in Ids
  OBVIOUS
<1>2. start = Minus \/ (start \in Ids /\ start # Minus)
  BY BoundsAreIds
<1>3. end = Plus \/ (end \in Ids /\ end # Plus)
  BY BoundsAreIds
<1>4. \/ l = 0
      \/ /\ start # Minus /\ start \in Ids /\ l \in 0 .. Len(s) - 1
         /\ \A i \in DOMAIN s : i <= l => Before(s[i], start)
  <2>1. start = Minus => l = 0
    BY DEF findl
  <2> QED
    BY <1>2, <2>1, FindlStops
<1>5. \/ end = Plus /\ r = Len(s)
      \/ end # Plus /\ r = Len(s) - 1
      \/ /\ end # Plus /\ end \in Ids /\ r \in DOMAIN s
         /\ \A i \in DOMAIN s : i > r => Before(end, s[i])
  <2>1. end = Plus => r = Len(s)
    BY DEF findr
  <2> QED
    BY <1>3, <2>1, FindrStops
<1> HIDE DEF l, r
<1>6. CASE s = <<>>
  <2>1. Len(s) = 0 /\ DOMAIN s = {}
    BY <1>6
  <2>2. l = 0
    BY <1>4, <2>1
  <2>3. IF end = Plus THEN r = 0 ELSE r = -1
    BY <1>5, <2>1
  <2> QED
    BY <1>6, <2>2, <2>3 DEF GetStreamPanics, SliceOutOfRange, l, r
<1>7. CASE s # <<>>
  <2>1. Len(s) >= 1 /\ r \in 0 .. Len(s) /\ l \in 0 .. Len(s) - 1
    BY <1>1, <1>4, <1>5, <1>7
  <2>2. ASSUME l > r
        PROVE  FALSE
    <3>1. /\ start # Minus /\ start \in Ids /\ end # Plus /\ end \in Ids
          /\ \A i \in DOMAIN s : i <= l => Before(s[i], start)
          /\ \A i \in DOMAIN s : i > r => Before(end, s[i])
      BY <1>4, <1>5, <2>1, <2>2
    <3>2. l \in DOMAIN s
      BY <1>1, <2>1, <2>2
    <3>3. Before(s[l], start) /\ Before(end, s[l]) /\ s[l] \in Ids
      BY <1>1, <2>1, <2>2, <3>1, <3>2
    <3>4. Before(end, start)
      BY <3>1, <3>3, BeforeTransitive
    <3> QED
      BY <3>1, <3>4
  <2>3. ~(r < 0 \/ l > r)
    BY <2>1, <2>2
  <2> QED
    BY <1>7, <2>3 DEF GetStreamPanics, SliceOutOfRange, l, r
<1> QED
  BY <1>6, <1>7

\* XRANGE and XREAD, with findl, findr and xreadfindl and their defaults, return
\* exactly what was asked for when the stream covers the bounds.
THEOREM ReadsCorrect == Spec => []ReadsExactWhenCovered
<1>1. TypeOK /\ IdsIncrease => ReadsExactWhenCovered
  <2> SUFFICES ASSUME TypeOK, IdsIncrease, NEW k \in Keys, NEW start \in Bounds
               PROVE  /\ \A end \in Bounds :
                           /\ ~Before(end, start)
                           /\ \E i \in DOMAIN stream[k] : ~Before(stream[k][i], start)
                           /\ \E i \in DOMAIN stream[k] : ~Before(end, stream[k][i])
                           => Lists(GetStream(stream[k], start, end),
                                    {id \in Entries(stream[k]) : InRange(id, start, end)})
                      /\ (\E i \in DOMAIN stream[k] : Before(start, stream[k][i]))
                           => Lists(XReadStream(stream[k], start),
                                    {id \in Entries(stream[k]) : Before(start, id)})
    BY DEF ReadsExactWhenCovered
  <2>1. stream[k] \in Seq(Ids) /\ Increasing(stream[k])
    BY DEF TypeOK, IdsIncrease
  <2> QED
    BY <2>1, XRangeExact, XReadExact
<1> QED
  BY <1>1, TypeCorrect, StreamsIncrease, PTL

\* XRANGE with ordered bounds ends the process on an empty stream only, whatever
\* the stream holds and wherever the bounds fall.
THEOREM RangePanicsOnlyOnEmpty == Spec => []OrderedRangePanicsIffEmpty
<1>1. TypeOK => OrderedRangePanicsIffEmpty
  BY OrderedRangePanics DEF TypeOK, OrderedRangePanicsIffEmpty
<1> QED
  BY <1>1, TypeCorrect, PTL

\* XADD with "ms-*" finds a free number whenever the millisecond has one: the
\* choice of NewId agrees with the refusal of NotAfterTop.
THEOREM WildcardsAccepted == Spec => []WildcardAccepted
<1>1. TypeOK => WildcardAccepted
  <2> SUFFICES ASSUME TypeOK, NEW k \in Keys, NEW t \in Times,
                      stream[k] = <<>> \/ stream[k][Len(stream[k])][1] < t
                        \/ (/\ stream[k][Len(stream[k])][1] = t
                            /\ stream[k][Len(stream[k])][2] < MaxInt)
               PROVE  ~Rejected([auto |-> FALSE, wild |-> TRUE, time |-> t, seq |-> 0], clock, stream[k])
    BY DEF WildcardAccepted
  <2> DEFINE s == stream[k]
             top == s[Len(s)]
             req == [auto |-> FALSE, wild |-> TRUE, time |-> t, seq |-> 0]
  <2>1. t \in Nat /\ FirstSeq(req) = IF t = 0 THEN 1 ELSE 0
    BY StreamConstants DEF FirstSeq
  <2>2. s # <<>> => top \in Ids /\ top[1] \in Nat /\ top[2] \in Nat
    <3>1. s \in Seq(Ids)
      BY DEF TypeOK
    <3>2. s # <<>> => top \in Ids
      BY <3>1
    <3> QED
      BY <3>2 DEF Ids
  <2>3. CASE s # <<>> /\ top[1] = t
    <3>1. NewId(req, clock, s) = <<t, top[2] + 1>>
      BY <2>2, <2>3 DEF NewId, Succ
    <3> QED
      BY <2>1, <2>2, <2>3, <3>1 DEF Rejected, NotAfterTop
  <2>4. CASE ~(s # <<>> /\ top[1] = t)
    <3>1. NewId(req, clock, s) = <<t, FirstSeq(req)>>
      BY <2>4 DEF NewId
    <3> QED
      BY <2>1, <2>2, <2>4, <3>1 DEF Rejected, NotAfterTop
  <2> QED
    BY <2>3, <2>4
<1> QED
  BY <1>1, TypeCorrect, PTL
=============================================================================
