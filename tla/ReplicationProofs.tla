-------------------------- MODULE ReplicationProofs --------------------------
(***************************************************************************)
(* Proofs about Replication, for any keys, any number of starts of the     *)
(* follower and restarts of the leader, and any number of writes.          *)
(***************************************************************************)
EXTENDS Replication, FiniteSetTheorems, WellFoundedInduction, TLAPS

Points == {"none", "commands", "rdb", "subscribe", "events", "gone"}

Values == [set: Nat, incrs: Nat, by: {"set", "text"}]

\* The sets of the variables that the properties are about.
TypeInv ==
  /\ store \in [Keys -> Values] /\ writes \in Nat /\ pending \in Writes \cup {NoWrite}
  /\ handler \in [Replicas -> Points]
  /\ log \in Seq(Writes) /\ member \subseteq Replicas /\ joined \subseteq Replicas
  /\ first \in [Replicas -> Nat] /\ out \in [Replicas -> Seq(Writes)]
  /\ conn \in Replicas \cup {None}
  /\ replica \in [Keys -> Values] /\ read \in Nat

\* A connection carries nothing before its handler subscribes, and no
\* subscription outlives the leader, nor a write that is not published; a
\* connection that both ends have keeps its subscription.
HandlerInv ==
  /\ member \subseteq joined
  /\ leader = "down" => member = {} /\ pending = NoWrite
  /\ open /\ conn \in joined => conn \in member
  /\ \A r \in Replicas :
       /\ handler[r] = "none" => r \notin joined
       /\ r \notin joined => out[r] = <<>>

\* Where the follower is, and what it has then.
FollowerInv ==
  /\ stage = "down" <=> conn = None
  /\ open => conn # None /\ leader # "down"
  /\ stage # "serving" =>
       /\ replica = Loaded /\ read = 0 /\ rest = "none" /\ ~swallowed /\ ~torn
  /\ conn # None => read <= Len(out[conn])
  /\ rest = "line" => read = 0 /\ ~swallowed /\ ~torn
  /\ swallowed \/ torn => read >= 1
  /\ read = 0 => replica = Loaded

\* The numbers of the log increase, and the write that is not in it yet is the
\* highest of all.
LogInv ==
  /\ \A i, j \in 1 .. Len(log) : i < j => log[i][2] < log[j][2]
  /\ \A i \in 1 .. Len(log) :
       /\ log[i][2] <= writes
       /\ pending # NoWrite => log[i][2] < pending[2]
  /\ pending # NoWrite => pending[2] <= writes

\* What a connection carries is a part of the log, for as long as its handler
\* is subscribed, and increases for ever.
PartInv ==
  /\ \A r \in member :
       /\ first[r] + Len(out[r]) <= Len(log)
       /\ \A i \in 1 .. Len(out[r]) : out[r][i] = log[first[r] + i]
  /\ \A r \in Replicas : \A i, j \in 1 .. Len(out[r]) : i < j => out[r][i][2] < out[r][j][2]

\* A leader's store is what the log makes of it, and the pending write.
StoreInv ==
  leader # "down" =>
    \A k \in Keys :
      store[k] = IF pending # NoWrite /\ pending[1] = k
                 THEN Run(Made(log, k, 1, Len(log)), pending)
                 ELSE Made(log, k, 1, Len(log))

\* NotNewer, where values of the same SET are integers or texts alike.
Behind(v, w) == v.set < w.set \/ (v.set = w.set /\ v.by = w.by /\ v.incrs <= w.incrs)

\* The follower's value of a key stems from a SET it has read.  On a subscribed
\* connection it is behind what the log makes of the key up to where the
\* listener is, and is what the log makes of it from the subscription on if no
\* command was torn.
FirstRead == IF swallowed THEN 2 ELSE 1
Stems(k) == replica[k].set = 0 \/ \E i \in 1 .. read : out[conn][i][2] = replica[k].set
Follows(k) ==
  LET here == first[conn] + read IN
  /\ Behind(replica[k], Made(log, k, 1, here))
  /\ ~torn => replica[k] = Made(log, k, first[conn] + FirstRead, here)
ReplicaInv ==
  /\ conn # None => \A k \in Keys : Stems(k)
  /\ open /\ conn \in member => \A k \in Keys : Follows(k)

IInv == TypeInv /\ HandlerInv /\ FollowerInv /\ LogInv /\ PartInv /\ StoreInv /\ ReplicaInv

-----------------------------------------------------------------------------
\* The absence of a write is not a write, and a write is a key and a number.
LEMMA WriteTypes ==
  /\ NoWrite \notin Writes
  /\ \A w \in Writes :
       /\ w[1] \in Keys /\ w[3] \in Ops
       /\ w[2] \in Nat /\ w[2] >= 1 /\ w[2] <= MaxWrites
  /\ \A k \in Keys, n \in 1 .. MaxWrites, op \in Ops :
       <<k, n, op>> \in Writes /\ <<k, n, op>>[1] = k /\ <<k, n, op>>[2] = n
<1> DEFINE numbers == 1 .. MaxWrites
<1>1. \A n \in numbers : n \in Nat /\ n >= 1 /\ n <= MaxWrites
  BY ReplicationConstants
<1> HIDE DEF numbers
<1>2. \A w \in Keys \X numbers \X Ops : w[1] \in Keys /\ w[2] \in numbers /\ w[3] \in Ops
  OBVIOUS
<1>3. <<>> \notin Keys \X numbers \X Ops
  OBVIOUS
<1>4. \A k \in Keys, n \in numbers, op \in Ops :
        <<k, n, op>> \in Keys \X numbers \X Ops /\ <<k, n, op>>[1] = k /\ <<k, n, op>>[2] = n
  OBVIOUS
<1> QED
  BY <1>1, <1>2, <1>3, <1>4 DEF NoWrite, Writes, numbers

-----------------------------------------------------------------------------
(* What commands make of a key *)

\* Running a command on a value makes a value, newer than it if the command is.
LEMMA RunType ==
  ASSUME NEW v \in Values, NEW e \in Writes
  PROVE  /\ Run(v, e) \in Values
         /\ Run(v, e).set \in {v.set, e[2]}
         /\ v.set < e[2] => Behind(v, Run(v, e))
<1>1. e[2] \in Nat /\ e[3] \in {"set", "text", "incr"}
  BY WriteTypes, ReplicationConstants
<1>2. v = [set |-> v.set, incrs |-> v.incrs, by |-> v.by]
      /\ v.set \in Nat /\ v.incrs \in Nat /\ v.by \in {"set", "text"}
  BY DEF Values
<1>3. CASE e[3] # "incr"
  <2>1. Run(v, e) = [set |-> e[2], incrs |-> 0, by |-> e[3]]
    BY <1>3 DEF Run
  <2>2. Run(v, e) \in Values
    BY <1>1, <1>3, <2>1 DEF Values
  <2> QED
    BY <1>1, <1>2, <2>1, <2>2 DEF Behind
<1>4. CASE e[3] = "incr" /\ v.by = "set"
  <2>1. Run(v, e) = [v EXCEPT !.incrs = @ + 1]
    BY <1>4 DEF Run
  <2>2. Run(v, e) = [set |-> v.set, incrs |-> v.incrs + 1, by |-> v.by]
    BY <1>2, <2>1
  <2>3. Run(v, e) \in Values
    BY <1>2, <2>2 DEF Values
  <2> QED
    BY <1>1, <1>2, <2>2, <2>3 DEF Behind
<1>5. CASE e[3] = "incr" /\ v.by # "set"
  BY <1>2, <1>5 DEF Run, Behind
<1> QED
  BY <1>3, <1>4, <1>5

\* A command that is newer than both keeps one value behind the other.
LEMMA RunMonotone ==
  ASSUME NEW v \in Values, NEW w \in Values, NEW e \in Writes, Behind(v, w), w.set < e[2]
  PROVE  Behind(Run(v, e), Run(w, e))
<1>1. e[2] \in Nat
  BY WriteTypes
<1> QED
  BY <1>1 DEF Run, Values, Behind

\* Being behind is transitive, and means not newer.
LEMMA BehindTransitive ==
  ASSUME NEW u \in Values, NEW v \in Values, NEW w \in Values, Behind(u, v), Behind(v, w)
  PROVE  Behind(u, w)
BY DEF Values, Behind

LastSet(l, k, i, j, p) == p \in Sets(l, k, i, j) /\ \A h \in Sets(l, k, i, j) : h <= p

\* Without a SET, the INCRs count from the loaded value.
LEMMA MadeNone ==
  ASSUME NEW l, NEW k, NEW i, NEW j, Sets(l, k, i, j) = {}
  PROVE  Made(l, k, i, j) = [set |-> 0, incrs |-> Cardinality(Incrs(l, k, i, j)), by |-> "set"]
BY DEF Made, LoadedValue

\* With a SET, what counts starts at the last one.
LEMMA MadeLast ==
  ASSUME NEW l, NEW k, NEW i \in Nat, NEW j \in Nat, NEW p, LastSet(l, k, i, j, p)
  PROVE  Made(l, k, i, j) = FromSet(l, k, p, j)
<1> DEFINE at == Sets(l, k, i, j)
<1>0. \A h \in at : h \in Nat
  BY DEF Sets
<1>1. p \in at /\ \A h \in at : h <= p
  BY DEF LastSet
<1>2. \A q \in at : (\A h \in at : h <= q) => q = p
  BY <1>0, <1>1
<1>4. Sets(l, k, i, j) # {}
  BY <1>1
<1>5. Made(l, k, i, j) = FromSet(l, k, CHOOSE q \in at : \A h \in at : h <= q, j)
  BY <1>4, Zenon DEF Made, at
<1> HIDE DEF at
<1>3. (CHOOSE q \in at : \A h \in at : h <= q) = p
  BY <1>1, <1>2, Zenon
<1> QED
  BY <1>3, <1>5, Zenon

\* Of SETs up to some place one is the last.
LEMMA HasLastSet ==
  ASSUME NEW l, NEW k, NEW i \in Nat, NEW j \in Nat, Sets(l, k, i, j) # {}
  PROVE  \E p : LastSet(l, k, i, j, p)
<1> DEFINE R == OpToRel(<, Nat)
           T == {n \in 0 .. j : j - n \in Sets(l, k, i, j)}
<1>1. IsWellFoundedOn(R, Nat)
  BY NatLessThanWellFounded, Zenon
<1>2. \A x, y \in Nat : <<y, x>> \in R <=> y < x
  BY DEF OpToRel
<1>3. T \subseteq Nat
  OBVIOUS
<1>4. T # {}
  <2>1. PICK p \in Sets(l, k, i, j) : TRUE
    OBVIOUS
  <2>2. p \in i .. j /\ j - p \in 0 .. j /\ j - (j - p) = p
    BY <2>1 DEF Sets
  <2> QED
    BY <2>1, <2>2
<1> HIDE DEF R
<1>5. PICK m \in T : \A n \in T : ~(<<n, m>> \in R)
  <2> HIDE DEF T
  <2> QED
    BY <1>1, <1>3, <1>4, WFMin
<1>6. ASSUME NEW h \in Sets(l, k, i, j) PROVE h <= j - m
  <2>1. h \in Nat /\ h <= j /\ j - h \in 0 .. j /\ j - (j - h) = h
    BY DEF Sets
  <2>2. j - h \in T
    BY <2>1
  <2>3. ~(j - h < m)
    BY <1>2, <1>3, <1>5, <2>2
  <2>4. m \in Nat /\ m <= j
    BY <1>5
  <2> HIDE DEF T
  <2> QED
    BY <2>1, <2>3, <2>4
<1>7. j - m \in Sets(l, k, i, j)
  BY <1>5
<1> HIDE DEF T
<1>8. LastSet(l, k, i, j, j - m)
  BY <1>6, <1>7 DEF LastSet
<1> QED
  BY <1>8

\* The INCRs are finitely many, and the next place adds one if it is one.
LEMMA IncrsCount ==
  ASSUME NEW l, NEW k, NEW i \in Nat, NEW j \in Nat
  PROVE  /\ IsFiniteSet(Incrs(l, k, i, j)) /\ Cardinality(Incrs(l, k, i, j)) \in Nat
         /\ i <= j + 1 =>
              Cardinality(Incrs(l, k, i, j + 1)) =
                Cardinality(Incrs(l, k, i, j))
                  + (IF l[j + 1][1] = k /\ l[j + 1][3] = "incr" THEN 1 ELSE 0)
<1>1. IsFiniteSet(i .. j) /\ Incrs(l, k, i, j) \in SUBSET (i .. j)
  BY FS_Interval DEF Incrs
<1>2. IsFiniteSet(Incrs(l, k, i, j))
  BY <1>1, FS_Subset, Zenon
<1>3. Cardinality(Incrs(l, k, i, j)) \in Nat
  BY <1>2, FS_CardinalityType
<1>4. j + 1 \notin Incrs(l, k, i, j)
  BY DEF Incrs
<1>5. ASSUME i <= j + 1, l[j + 1][1] = k, l[j + 1][3] = "incr"
      PROVE  Cardinality(Incrs(l, k, i, j + 1)) = Cardinality(Incrs(l, k, i, j)) + 1
  <2>1. Incrs(l, k, i, j + 1) = Incrs(l, k, i, j) \cup {j + 1}
    BY <1>5 DEF Incrs
  <2> QED
    BY <1>2, <1>4, <2>1, FS_AddElement
<1>6. ASSUME i <= j + 1, ~(l[j + 1][1] = k /\ l[j + 1][3] = "incr")
      PROVE  Incrs(l, k, i, j + 1) = Incrs(l, k, i, j)
  BY <1>6 DEF Incrs
<1> QED
  BY <1>2, <1>3, <1>5, <1>6

\* What is made of a key is a value, and stems from a SET of that part.
LEMMA MadeType ==
  ASSUME NEW l \in Seq(Writes), NEW k, NEW i \in Nat, NEW j \in Nat, i >= 1, j <= Len(l)
  PROVE  /\ Made(l, k, i, j) \in Values
         /\ Made(l, k, i, j).set = 0 \/ \E p \in i .. j : Made(l, k, i, j).set = l[p][2]
<1>1. CASE Sets(l, k, i, j) = {}
  BY <1>1, MadeNone, IncrsCount DEF Values
<1>2. CASE Sets(l, k, i, j) # {}
  <2>1. PICK p : LastSet(l, k, i, j, p)
    BY <1>2, HasLastSet
  <2>2. p \in i .. j /\ p \in 1 .. Len(l) /\ p \in Nat
    BY <2>1 DEF LastSet, Sets
  <2>3. l[p][2] \in Nat
    BY <2>2, WriteTypes
  <2>4. Cardinality(Incrs(l, k, p, j)) \in Nat
    BY <2>2, IncrsCount
  <2>5. Made(l, k, i, j) = FromSet(l, k, p, j)
    BY <2>1, MadeLast
  <2>6. l[p][3] \in {"set", "text"}
    <3>1. l[p] \in Writes
      BY <2>2
    <3>2. l[p][3] # "incr"
      BY <2>1 DEF LastSet, Sets
    <3> QED
      BY <3>1, <3>2, WriteTypes, ReplicationConstants
  <2> QED
    BY <2>2, <2>3, <2>4, <2>5, <2>6 DEF Values, FromSet
<1> QED
  BY <1>1, <1>2

\* Nothing is made of a key by no commands.
LEMMA MadeEmpty ==
  ASSUME NEW l, NEW k, NEW i \in Nat, NEW j \in Nat, i > j
  PROVE  Made(l, k, i, j) = LoadedValue
<1>1. Sets(l, k, i, j) = {} /\ Incrs(l, k, i, j) = {}
  BY DEF Sets, Incrs
<1> QED
  BY <1>1, MadeNone, FS_EmptySet DEF LoadedValue

\* Logs that are the same in that part make the same.
LEMMA MadeSame ==
  ASSUME NEW l, NEW m, NEW k, NEW i \in Nat, NEW j \in Nat, \A p \in i .. j : m[p] = l[p]
  PROVE  Made(m, k, i, j) = Made(l, k, i, j)
<1>1. Sets(m, k, i, j) = Sets(l, k, i, j) /\ Incrs(m, k, i, j) = Incrs(l, k, i, j)
  BY DEF Sets, Incrs
<1>2. CASE Sets(l, k, i, j) = {}
  BY <1>1, <1>2, MadeNone
<1>3. CASE Sets(l, k, i, j) # {}
  <2>1. PICK p : LastSet(l, k, i, j, p)
    BY <1>3, HasLastSet
  <2>2. LastSet(m, k, i, j, p)
    BY <1>1, <2>1 DEF LastSet
  <2>3. p \in i .. j
    BY <2>1 DEF LastSet, Sets
  <2>4. Incrs(m, k, p, j) = Incrs(l, k, p, j)
    BY <2>3 DEF Incrs
  <2>5. m[p] = l[p]
    BY <2>3
  <2>6. Made(m, k, i, j) = FromSet(m, k, p, j)
    BY <2>2, MadeLast
  <2>7. Made(l, k, i, j) = FromSet(l, k, p, j)
    BY <2>1, MadeLast
  <2>8. FromSet(m, k, p, j) = FromSet(l, k, p, j)
    BY <2>4, <2>5 DEF FromSet
  <2> QED
    BY <2>6, <2>7, <2>8, Zenon
<1> QED
  BY <1>2, <1>3

\* One more command is run on what was made before, if it is one of that key.
LEMMA MadeNext ==
  ASSUME NEW l \in Seq(Writes), NEW k, NEW i \in Nat, NEW j \in Nat, i >= 1, i <= j + 1, j + 1 <= Len(l)
  PROVE  Made(l, k, i, j + 1) =
           IF l[j + 1][1] = k THEN Run(Made(l, k, i, j), l[j + 1]) ELSE Made(l, k, i, j)
<1> DEFINE e == l[j + 1]
<1>1. j + 1 \in i .. j + 1 /\ j + 1 \in Nat
  OBVIOUS
<1>2. CASE e[1] = k /\ e[3] # "incr"
  <2>1. j + 1 \in Sets(l, k, i, j + 1) /\ \A h \in Sets(l, k, i, j + 1) : h <= j + 1
    BY <1>1, <1>2 DEF Sets
  <2>2. LastSet(l, k, i, j + 1, j + 1)
    BY <2>1 DEF LastSet
  <2>3. Incrs(l, k, j + 1, j + 1) = {}
    BY <1>2 DEF Incrs
  <2>4. Cardinality(Incrs(l, k, j + 1, j + 1)) = 0
    BY <2>3, FS_EmptySet
  <2> HIDE DEF e
  <2>5. Made(l, k, i, j + 1) = FromSet(l, k, j + 1, j + 1)
    BY <1>1, <2>2, MadeLast
  <2> QED
    BY <1>2, <2>4, <2>5 DEF Run, FromSet, e
<1>3. CASE ~(e[1] = k /\ e[3] # "incr")
  <2>1. Sets(l, k, i, j + 1) = Sets(l, k, i, j)
    BY <1>1, <1>3 DEF Sets
  <2>2. CASE Sets(l, k, i, j) = {}
    <3>1. /\ Made(l, k, i, j) = [set |-> 0, incrs |-> Cardinality(Incrs(l, k, i, j)), by |-> "set"]
          /\ Made(l, k, i, j + 1) = [set |-> 0, incrs |-> Cardinality(Incrs(l, k, i, j + 1)), by |-> "set"]
      BY <2>1, <2>2, MadeNone
    <3>2. Cardinality(Incrs(l, k, i, j + 1)) =
            Cardinality(Incrs(l, k, i, j)) + (IF e[1] = k THEN 1 ELSE 0)
      BY <1>3, IncrsCount, SMTT(60)
    <3> HIDE DEF e
    <3>3. Cardinality(Incrs(l, k, i, j)) \in Nat
      BY IncrsCount
    <3> QED
      BY <1>3, <3>1, <3>2, <3>3 DEF Run, e
  <2>3. CASE Sets(l, k, i, j) # {}
    <3>1. PICK p : LastSet(l, k, i, j, p)
      BY <2>3, HasLastSet
    <3>2. LastSet(l, k, i, j + 1, p) /\ p \in Nat /\ p <= j + 1
      BY <2>1, <3>1 DEF LastSet, Sets
    <3>3. Made(l, k, i, j) = FromSet(l, k, p, j)
      BY <3>1, MadeLast
    <3>4. Made(l, k, i, j + 1) = FromSet(l, k, p, j + 1)
      BY <1>1, <3>2, MadeLast
    <3>5. Cardinality(Incrs(l, k, p, j + 1)) =
            Cardinality(Incrs(l, k, p, j)) + (IF e[1] = k THEN 1 ELSE 0)
      <4>1. p <= j + 1 =>
              Cardinality(Incrs(l, k, p, j + 1)) =
                Cardinality(Incrs(l, k, p, j))
                  + (IF l[j + 1][1] = k /\ l[j + 1][3] = "incr" THEN 1 ELSE 0)
        BY <3>2, IncrsCount, Zenon
      <4> QED
        BY <1>3, <3>2, <4>1
    <3>6. Cardinality(Incrs(l, k, p, j)) \in Nat
      BY <3>2, IncrsCount
    <3> HIDE DEF e
    <3> QED
      BY <1>3, <3>3, <3>4, <3>5, <3>6, SMTT(60) DEF Run, FromSet, e
  <2> QED
    BY <2>2, <2>3
<1> QED
  BY <1>2, <1>3

\* With a SET in the part, what came before it does not count.
LEMMA MadeFromSet ==
  ASSUME NEW l, NEW k, NEW i \in Nat, NEW j \in Nat, i >= 1, Sets(l, k, i, j) # {}
  PROVE  Made(l, k, 1, j) = Made(l, k, i, j)
<1>1. PICK p : LastSet(l, k, i, j, p)
  BY HasLastSet
<1>2. LastSet(l, k, 1, j, p)
  BY <1>1 DEF LastSet, Sets
<1>3. Made(l, k, 1, j) = FromSet(l, k, p, j)
  BY <1>2, MadeLast
<1>4. Made(l, k, i, j) = FromSet(l, k, p, j)
  BY <1>1, MadeLast
<1> QED
  BY <1>3, <1>4, Zenon

Increasing(l) == \A i, j \in 1 .. Len(l) : i < j => l[i][2] < l[j][2]

\* More commands make a value that is not behind.
LEMMA MadeGrows ==
  ASSUME NEW l \in Seq(Writes), Increasing(l), NEW k, NEW i \in Nat, NEW j \in Nat, i <= j, j <= Len(l)
  PROVE  Behind(Made(l, k, 1, i), Made(l, k, 1, j))
<1>1. ASSUME NEW a \in Nat
      PROVE  /\ Cardinality(Incrs(l, k, a, i)) \in Nat /\ Cardinality(Incrs(l, k, a, j)) \in Nat
             /\ Cardinality(Incrs(l, k, a, i)) <= Cardinality(Incrs(l, k, a, j))
  <2>1. Incrs(l, k, a, i) \in SUBSET Incrs(l, k, a, j)
    BY DEF Incrs
  <2>2. IsFiniteSet(Incrs(l, k, a, j))
    BY IncrsCount
  <2> QED
    BY <2>1, <2>2, FS_Subset, IncrsCount
<1>2. Sets(l, k, 1, i) \subseteq Sets(l, k, 1, j)
  BY DEF Sets
<1>3. CASE Sets(l, k, 1, j) = {}
  <2>1. Sets(l, k, 1, i) = {}
    BY <1>2, <1>3
  <2>2. /\ Made(l, k, 1, i) = [set |-> 0, incrs |-> Cardinality(Incrs(l, k, 1, i)), by |-> "set"]
        /\ Made(l, k, 1, j) = [set |-> 0, incrs |-> Cardinality(Incrs(l, k, 1, j)), by |-> "set"]
    BY <1>3, <2>1, MadeNone
  <2>3. Cardinality(Incrs(l, k, 1, i)) <= Cardinality(Incrs(l, k, 1, j))
    BY <1>1
  <2> QED
    BY <2>2, <2>3 DEF Behind
<1>4. CASE Sets(l, k, 1, j) # {}
  <2>1. PICK b : LastSet(l, k, 1, j, b)
    BY <1>4, HasLastSet
  <2>2. b \in 1 .. Len(l) /\ b \in 1 .. j /\ l[b] \in Writes
    BY <2>1 DEF LastSet, Sets
  <2>3. Made(l, k, 1, j) = FromSet(l, k, b, j)
    BY <2>1, MadeLast
  <2>4. CASE b <= i
    <3>1. LastSet(l, k, 1, i, b)
      BY <1>2, <2>1, <2>2, <2>4 DEF LastSet, Sets
    <3>2. Made(l, k, 1, i) = FromSet(l, k, b, i)
      BY <3>1, MadeLast
    <3>3. Cardinality(Incrs(l, k, b, i)) <= Cardinality(Incrs(l, k, b, j))
      BY <1>1, <2>2
    <3> DEFINE v == FromSet(l, k, b, i)
               w == FromSet(l, k, b, j)
    <3>4. v.set = w.set /\ v.by = w.by /\ v.incrs <= w.incrs
      BY <3>3 DEF FromSet
    <3> QED
      BY <2>3, <3>2, <3>4 DEF Behind
  <2>5. CASE b > i
    <3>1. Made(l, k, 1, i).set = 0 \/ \E p \in 1 .. i : Made(l, k, 1, i).set = l[p][2]
      BY MadeType
    <3>2. l[b][2] \in Nat /\ l[b][2] >= 1
      BY <2>2, WriteTypes
    <3>3. \A p \in 1 .. i : l[p][2] < l[b][2]
      BY <2>2, <2>5 DEF Increasing
    <3>4. Made(l, k, 1, i).set < l[b][2]
      BY <3>1, <3>2, <3>3
    <3> QED
      BY <2>3, <3>4 DEF Behind, FromSet
  <2> QED
    BY <2>2, <2>4, <2>5
<1> QED
  BY <1>3, <1>4

-----------------------------------------------------------------------------
\* What is loaded is a value of every key.
LEMMA LoadedType == Loaded \in [Keys -> Values]
BY DEF Loaded, LoadedValue, Values

\* The inductive invariant holds at the start.
LEMMA InitIInv == Init => IInv
<1> SUFFICES ASSUME Init PROVE IInv
  OBVIOUS
<1> USE DEF Init, B!Init
<1>1. <<>> \in Seq(Writes) /\ Len(<<>>) = 0
  OBVIOUS
<1>2. TypeInv
  BY <1>1, LoadedType DEF TypeInv, Points
<1>3. HandlerInv /\ FollowerInv /\ ReplicaInv
  BY DEF HandlerInv, FollowerInv, ReplicaInv
<1>4. LogInv /\ PartInv
  BY <1>1 DEF LogInv, PartInv
<1>5. StoreInv
  <2>1. \A k \in Keys : Made(<<>>, k, 1, 0) = LoadedValue
    BY MadeEmpty
  <2> QED
    BY <1>1, <2>1 DEF StoreInv, Loaded
<1> QED
  BY <1>2, <1>3, <1>4, <1>5 DEF IInv

\* What the end of the leader leaves of the connections: a part of each from its
\* start, which has all that the listener has read.
LEMMA Cut ==
  ASSUME TypeInv, FollowerInv, LeaderEnds
  PROVE  /\ out' \in [Replicas -> Seq(Writes)]
         /\ \A r \in Replicas :
              /\ Len(out'[r]) <= Len(out[r])
              /\ \A i \in 1 .. Len(out'[r]) : out'[r][i] = out[r][i]
         /\ conn # None => read <= Len(out'[conn])
<1> USE DEF TypeInv
<1>1. CASE conn = None
  <2>1. out' = out
    BY <1>1 DEF LeaderEnds
  <2> QED
    BY <1>1, <2>1
<1>2. CASE conn # None
  <2>1. conn \in Replicas /\ out[conn] \in Seq(Writes)
    BY <1>2
  <2>2. PICK n \in read .. Len(out[conn]) : out' = [out EXCEPT ![conn] = SubSeq(@, 1, n)]
    BY <1>2 DEF LeaderEnds
  <2>3. n \in 0 .. Len(out[conn]) /\ read <= n
    BY <2>1
  <2>4. /\ SubSeq(out[conn], 1, n) \in Seq(Writes)
        /\ Len(SubSeq(out[conn], 1, n)) = n
        /\ \A i \in 1 .. n : SubSeq(out[conn], 1, n)[i] = out[conn][i]
    BY <2>1, <2>3
  <2> HIDE DEF TypeInv
  <2> QED
    BY <2>1, <2>2, <2>3, <2>4 DEF TypeInv
<1> QED
  BY <1>1, <1>2

\* Every step keeps TypeInv.
LEMMA NextType == TypeInv /\ HandlerInv /\ FollowerInv /\ [Next]_vars => TypeInv'
<1> SUFFICES ASSUME TypeInv, HandlerInv, FollowerInv, [Next]_vars PROVE TypeInv'
  OBVIOUS
<1> USE DEF TypeInv, Points, leadervars, feed, link, follower
<1>1. ASSUME NEW k \in Keys, NEW op \in Ops, Write(k, op) PROVE TypeInv'
  <2>1. writes' \in 1 .. MaxWrites
    BY <1>1, ReplicationConstants DEF Write
  <2>2. pending' \in Writes
    BY <1>1, <2>1, WriteTypes DEF Write
  <2>3. writes' \in Nat
    BY <1>1, <2>1 DEF Write
  <2>5. store' \in [Keys -> Values]
    <3>1. Run(store[k], pending') \in Values
      BY <2>2, RunType
    <3> QED
      BY <1>1, <3>1 DEF Write
  <2>4. UNCHANGED <<handler, log, member, joined, first, out, conn, replica, read>>
    BY <1>1 DEF Write
  <2> QED
    BY <2>2, <2>3, <2>4, <2>5
<1>2. CASE Publish
  <2>1. pending \in Writes /\ log' = Append(log, pending) /\ pending' = NoWrite
    BY <1>2 DEF Publish, B!Publish
  <2>2. log' \in Seq(Writes)
    BY <2>1
  <2>3. UNCHANGED <<store, writes, handler, member, joined, first, out, conn, replica, read>>
    BY <1>2 DEF Publish, B!Publish
  <2> QED
    BY <2>1, <2>2, <2>3
<1>3. CASE LeaderEnds
  <2>2. out' \in [Replicas -> Seq(Writes)]
    BY <1>3, Cut
  <2>3. handler' \in [Replicas -> Points]
    BY <1>3 DEF LeaderEnds
  <2>4. UNCHANGED <<store, writes, log, joined, first, conn, replica, read>>
    BY <1>3 DEF LeaderEnds
  <2>5. member' = {} /\ pending' = NoWrite
    BY <1>3 DEF LeaderEnds
  <2> QED
    BY <2>2, <2>3, <2>4, <2>5
<1>4. CASE LeaderStarts
  <2>1. <<>> \in Seq(Writes)
    OBVIOUS
  <2> QED
    BY <1>4, <2>1, LoadedType DEF LeaderStarts
<1>5. ASSUME NEW r \in Replicas, Answer(r) \/ WriteRdb(r) \/ Wedge(r) PROVE TypeInv'
  BY <1>5 DEF Answer, WriteRdb, Wedge
<1>6. ASSUME NEW r \in Replicas, Subscribe(r) PROVE TypeInv'
  BY <1>6 DEF Subscribe, B!Join
<1>7. ASSUME NEW r \in Replicas, Deliver(r) PROVE TypeInv'
  <2> DEFINE e == log[B!Position(r) + 1]
  <2>1. r \in Replicas /\ first[r] \in Nat /\ out[r] \in Seq(Writes) /\ Len(out[r]) \in Nat
    OBVIOUS
  <2>2. B!Position(r) < Len(log) /\ B!Position(r) = first[r] + Len(out[r])
    BY <1>7 DEF Deliver, B!Deliver, B!Position
  <2>3. e \in Writes
    BY <2>1, <2>2
  <2>4. out' = [out EXCEPT ![r] = Append(@, e)]
    BY <1>7 DEF Deliver, B!Deliver
  <2>5. UNCHANGED <<store, writes, pending, handler, log, member, joined, first, conn, replica, read>>
    BY <1>7 DEF Deliver, B!Deliver
  <2> HIDE DEF e
  <2>6. out' \in [Replicas -> Seq(Writes)]
    BY <2>1, <2>3, <2>4
  <2> QED
    BY <2>5, <2>6
<1>8. ASSUME NEW r \in Replicas, Depart(r) PROVE TypeInv'
  BY <1>8 DEF Depart, B!Leave
<1>9. ASSUME NEW r \in Replicas, Start(r) PROVE TypeInv'
  BY <1>9 DEF Start
<1>10. CASE Ask \/ Hear \/ ReadRdb
  BY <1>10 DEF Ask, Hear, ReadRdb
<1>11. CASE StartFails \/ FollowerEnds
  BY <1>11, LoadedType DEF StartFails, FollowerEnds, Forget
<1>12. CASE Replay \/ Swallow \/ Tear
  <2>1. HasEvent /\ Event \in Writes
    BY <1>12 DEF HasEvent, Event, Replay, Swallow, Tear, FollowerInv
  <2>2. Event[1] \in Keys /\ Run(replica[Event[1]], Event) \in Values
    BY <2>1, WriteTypes, RunType
  <2>3. read' = read + 1 /\ UNCHANGED <<leadervars, handler, feed, conn>>
    BY <1>12 DEF Replay, Swallow, Tear
  <2>4. replica' \in [Keys -> Values]
    BY <1>12, <2>2 DEF Replay, Swallow, Tear
  <2> QED
    BY <2>3, <2>4
<1>13. CASE UNCHANGED vars
  BY <1>13 DEF vars
<1> QED
  BY <1>1, <1>2, <1>3, <1>4, <1>5, <1>6, <1>7, <1>8, <1>9, <1>10, <1>11, <1>12, <1>13 DEF Next

\* What one more event on a connection changes.
LEMMA DeliverEffect ==
  ASSUME TypeInv, PartInv, NEW r \in Replicas, Deliver(r)
  PROVE  LET e == log[first[r] + Len(out[r]) + 1] IN
         /\ leader = "up" /\ r \in member /\ e \in Writes
         /\ first[r] + Len(out[r]) + 1 \in 1 .. Len(log)
         /\ Len(out'[r]) = Len(out[r]) + 1 /\ out'[r][Len(out'[r])] = e
         /\ \A i \in 1 .. Len(out[r]) : out'[r][i] = out[r][i]
         /\ \A s \in Replicas \ {r} : out'[s] = out[s]
         /\ UNCHANGED <<leadervars, handler, log, member, joined, first, link, follower>>
<1>1. /\ r \in member /\ first[r] + Len(out[r]) < Len(log)
      /\ out' = [out EXCEPT ![r] = Append(@, log[first[r] + Len(out[r]) + 1])]
      /\ UNCHANGED <<log, member, joined, first>>
  BY DEF Deliver, B!Deliver, B!Position
<1>2. out[r] \in Seq(Writes) /\ first[r] \in Nat /\ Len(out[r]) \in Nat /\ log \in Seq(Writes)
  BY DEF TypeInv
<1>3. first[r] + Len(out[r]) + 1 \in 1 .. Len(log)
  BY <1>1, <1>2, SMTT(30)
<1>4. log[first[r] + Len(out[r]) + 1] \in Writes
  BY <1>2, <1>3
<1>5. /\ out'[r] = Append(out[r], log[first[r] + Len(out[r]) + 1])
      /\ \A s \in Replicas \ {r} : out'[s] = out[s]
  BY <1>1 DEF TypeInv
<1>6. /\ Len(out'[r]) = Len(out[r]) + 1
      /\ out'[r][Len(out'[r])] = log[first[r] + Len(out[r]) + 1]
      /\ \A i \in 1 .. Len(out[r]) : out'[r][i] = out[r][i]
  BY <1>2, <1>4, <1>5
<1>7. leader = "up" /\ UNCHANGED <<leadervars, handler, link, follower>>
  BY DEF Deliver
<1> QED
  BY <1>1, <1>3, <1>4, <1>5, <1>6, <1>7

\* Every step keeps HandlerInv.
LEMMA NextHandler == TypeInv /\ HandlerInv /\ FollowerInv /\ PartInv /\ [Next]_vars => HandlerInv'
<1> SUFFICES ASSUME TypeInv, HandlerInv, FollowerInv, PartInv, [Next]_vars PROVE HandlerInv'
  OBVIOUS
<1> USE DEF HandlerInv, leadervars, feed, link, follower
<1>1. ASSUME NEW k \in Keys, NEW op \in Ops, Write(k, op) PROVE HandlerInv'
  BY <1>1 DEF Write
<1>2. CASE Publish
  BY <1>2 DEF Publish, B!Publish
<1>3. CASE LeaderEnds
  <2>1. \A r \in Replicas : handler'[r] = "none" => handler[r] = "none"
    BY <1>3 DEF LeaderEnds
  <2>2. \A r \in Replicas : out[r] = <<>> => out'[r] = <<>>
    <3>1. ASSUME NEW r \in Replicas, out[r] = <<>> PROVE out'[r] = <<>>
      <4>1. out'[r] \in Seq(Writes) /\ Len(out'[r]) <= Len(out[r])
        BY <1>3, Cut
      <4>2. Len(out[r]) = 0
        BY <3>1
      <4> QED
        BY <4>1, <4>2
    <3> QED
      BY <3>1
  <2>3. member' = {} /\ joined' = joined /\ pending' = NoWrite /\ open' = FALSE
    BY <1>3 DEF LeaderEnds
  <2> QED
    BY <2>1, <2>2, <2>3
<1>4. CASE LeaderStarts
  BY <1>4 DEF LeaderStarts
<1>5. ASSUME NEW r \in Replicas, Answer(r) \/ WriteRdb(r) \/ Wedge(r) PROVE HandlerInv'
  BY <1>5 DEF Answer, WriteRdb, Wedge, TypeInv
<1>6. ASSUME NEW r \in Replicas, Subscribe(r) PROVE HandlerInv'
  <2>1. /\ r \notin joined /\ joined' = joined \cup {r} /\ member' = member \cup {r}
        /\ leader = "up" /\ UNCHANGED <<leader, pending, out, conn, open>>
    BY <1>6 DEF Subscribe, B!Join
  <2>2. handler' = [handler EXCEPT ![r] = "events"]
    BY <1>6 DEF Subscribe
  <2>3. \A s \in Replicas : handler'[s] = "none" => s # r /\ handler[s] = "none"
    BY <2>2 DEF TypeInv
  <2> QED
    BY <2>1, <2>3, Zenon
<1>7. ASSUME NEW r \in Replicas, Deliver(r) PROVE HandlerInv'
  <2>4. r \in member /\ \A s \in Replicas \ {r} : out'[s] = out[s]
    BY <1>7, DeliverEffect, ZenonT(60)
  <2>2. r \in joined /\ \A s \in Replicas \ {r} : out'[s] = out[s]
    BY <2>4, Zenon
  <2>1. \A s \in Replicas : s \notin joined => out'[s] = out[s]
    BY <2>2, Zenon
  <2>3. UNCHANGED <<leader, pending, handler, member, joined, conn, open>>
    BY <1>7 DEF Deliver, B!Deliver
  <2> QED
    BY <2>1, <2>3, Zenon
<1>8. ASSUME NEW r \in Replicas, Depart(r) PROVE HandlerInv'
  BY <1>8 DEF Depart, B!Leave, TypeInv, Connected
<1>9. ASSUME NEW r \in Replicas, Start(r) PROVE HandlerInv'
  <2>1. /\ conn' = r /\ r \notin joined /\ UNCHANGED <<joined, member, leader, pending, out>>
    BY <1>9 DEF Start
  <2>2. \A s \in Replicas : handler'[s] = "none" => handler[s] = "none"
    BY <1>9 DEF Start, TypeInv
  <2> QED
    BY <2>1, <2>2, Zenon
<1>10. CASE Ask \/ Hear \/ ReadRdb
  BY <1>10 DEF Ask, Hear, ReadRdb
<1>11. CASE StartFails \/ FollowerEnds
  BY <1>11 DEF StartFails, FollowerEnds, Forget, TypeInv, FollowerInv
<1>12. CASE Replay \/ Swallow \/ Tear
  BY <1>12 DEF Replay, Swallow, Tear
<1>13. CASE UNCHANGED vars
  BY <1>13 DEF vars
<1> QED
  BY <1>1, <1>2, <1>3, <1>4, <1>5, <1>6, <1>7, <1>8, <1>9, <1>10, <1>11, <1>12, <1>13 DEF Next

\* Every step keeps FollowerInv.
LEMMA NextFollower == TypeInv /\ HandlerInv /\ FollowerInv /\ PartInv /\ [Next]_vars => FollowerInv'
<1> SUFFICES ASSUME TypeInv, HandlerInv, FollowerInv, PartInv, [Next]_vars PROVE FollowerInv'
  OBVIOUS
<1> USE DEF FollowerInv, leadervars, feed, link, follower
<1>1. ASSUME NEW k \in Keys, NEW op \in Ops, Write(k, op) PROVE FollowerInv'
  BY <1>1 DEF Write
<1>2. CASE Publish
  BY <1>2 DEF Publish, B!Publish
<1>3. CASE LeaderEnds
  <2>1. conn # None => read <= Len(out'[conn])
    BY <1>3, Cut
  <2>2. open' = FALSE /\ UNCHANGED <<conn, follower>>
    BY <1>3 DEF LeaderEnds
  <2> QED
    BY <2>1, <2>2
<1>4. CASE LeaderStarts
  BY <1>4 DEF LeaderStarts
<1>5. ASSUME NEW r \in Replicas, Answer(r) \/ WriteRdb(r) \/ Wedge(r) PROVE FollowerInv'
  BY <1>5 DEF Answer, WriteRdb, Wedge
<1>6. ASSUME NEW r \in Replicas, Subscribe(r) PROVE FollowerInv'
  BY <1>6 DEF Subscribe, B!Join
<1>7. ASSUME NEW r \in Replicas, Deliver(r) PROVE FollowerInv'
  <2>1. UNCHANGED <<leader, conn, open, follower>>
    BY <1>7 DEF Deliver
  <2>3. conn # None => read <= Len(out'[conn])
    <3>1. CASE conn = r
      BY <1>7, <3>1, DeliverEffect, SMTT(60) DEF TypeInv
    <3>2. CASE conn # r /\ conn # None
      BY <1>7, <3>2, DeliverEffect DEF TypeInv
    <3> QED
      BY <3>1, <3>2
  <2> QED
    BY <2>1, <2>3
<1>8. ASSUME NEW r \in Replicas, Depart(r) PROVE FollowerInv'
  BY <1>8 DEF Depart, B!Leave
<1>9. ASSUME NEW r \in Replicas, Start(r) PROVE FollowerInv'
  <2>1. r # None /\ out'[r] = <<>>
    BY <1>9, ReplicationConstants DEF Start, HandlerInv
  <2>2. read' = 0
    BY <1>9 DEF Start
  <2>3. conn' = r /\ stage' = "ask" /\ leader' # "down"
    BY <1>9 DEF Start
  <2>4. replica' = Loaded /\ rest' = "none" /\ ~swallowed' /\ ~torn'
    BY <1>9 DEF Start, Loaded
  <2> QED
    BY <2>1, <2>2, <2>3, <2>4 DEF Loaded
<1>10. CASE Ask \/ Hear \/ ReadRdb
  BY <1>10 DEF Ask, Hear, ReadRdb
<1>11. CASE StartFails \/ FollowerEnds
  BY <1>11 DEF StartFails, FollowerEnds, Forget
<1>12. CASE Replay \/ Swallow \/ Tear
  <2>1. stage = "serving" /\ read < Len(out[conn]) /\ read' = read + 1 /\ rest' = "none"
    BY <1>12 DEF Replay, Swallow, Tear, HasEvent
  <2>2. UNCHANGED <<leader, link, stage, out>>
    BY <1>12 DEF Replay, Swallow, Tear
  <2> QED
    BY <2>1, <2>2 DEF TypeInv
<1>13. CASE UNCHANGED vars
  BY <1>13 DEF vars
<1> QED
  BY <1>1, <1>2, <1>3, <1>4, <1>5, <1>6, <1>7, <1>8, <1>9, <1>10, <1>11, <1>12, <1>13 DEF Next

\* A step that publishes puts the pending write at the end of the log.
LEMMA PublishEffect ==
  ASSUME TypeInv, Publish
  PROVE  /\ leader # "down" /\ pending # NoWrite /\ pending \in Writes /\ pending' = NoWrite
         /\ log' = Append(log, pending) /\ Len(log') = Len(log) + 1
         /\ log'[Len(log) + 1] = pending
         /\ \A i \in 1 .. Len(log) : log'[i] = log[i]
         /\ UNCHANGED <<leader, store, writes, handler, member, joined, first, out, link, follower>>
<1>1. /\ log' = Append(log, pending) /\ UNCHANGED <<member, joined, first, out>>
      /\ leader = "up" /\ pending # NoWrite /\ pending' = NoWrite
      /\ UNCHANGED <<leader, store, writes, handler, link, follower>>
  BY DEF Publish, B!Publish
<1>2. log \in Seq(Writes) /\ pending \in Writes
  BY <1>1 DEF TypeInv
<1>3. /\ Len(log') = Len(log) + 1 /\ log'[Len(log) + 1] = pending
      /\ \A i \in 1 .. Len(log) : log'[i] = log[i]
  BY <1>1, <1>2
<1> QED
  BY <1>1, <1>2, <1>3

\* The log stays a sequence of writes.
LEMMA AppendWrite ==
  ASSUME TypeInv, Publish
  PROVE  log' \in Seq(Writes)
<1>1. log \in Seq(Writes) /\ pending \in Writes /\ log' = Append(log, pending)
  BY PublishEffect DEF TypeInv
<1> QED
  BY <1>1

\* Every other step leaves the log and the pending write alone, but for the
\* leader's end and its start.
LEMMA OthersLeaveLog ==
  ASSUME [Next]_vars, ~Publish, ~LeaderEnds, ~LeaderStarts, \A k \in Keys, op \in Ops : ~Write(k, op)
  PROVE  UNCHANGED <<store, writes, pending, log>>
<1> USE DEF leadervars, feed
<1>1. ASSUME NEW r \in Replicas, Answer(r) \/ WriteRdb(r) \/ Wedge(r)
      PROVE  UNCHANGED <<store, writes, pending, log>>
  BY <1>1 DEF Answer, WriteRdb, Wedge
<1>2. ASSUME NEW r \in Replicas, Subscribe(r) \/ Deliver(r) \/ Depart(r)
      PROVE  UNCHANGED <<store, writes, pending, log>>
  BY <1>2 DEF Subscribe, Deliver, Depart, B!Join, B!Deliver, B!Leave
<1>3. ASSUME NEW r \in Replicas, Start(r)
      PROVE  UNCHANGED <<store, writes, pending, log>>
  BY <1>3 DEF Start
<1>4. CASE Ask \/ Hear \/ ReadRdb \/ StartFails \/ FollowerEnds
  BY <1>4 DEF Ask, Hear, ReadRdb, StartFails, FollowerEnds
<1>5. CASE Replay \/ Swallow \/ Tear
  BY <1>5 DEF Replay, Swallow, Tear
<1>6. CASE UNCHANGED vars
  BY <1>6 DEF vars
<1> QED
  BY <1>1, <1>2, <1>3, <1>4, <1>5, <1>6 DEF Next

\* A leader that is down stays so, unless it starts.
LEMMA OnlyLeaderStarts ==
  ASSUME [Next]_vars, ~LeaderStarts, leader = "down"
  PROVE  leader' = "down"
<1> USE DEF leadervars
<1>1. ASSUME NEW k \in Keys, NEW op \in Ops, Write(k, op) PROVE leader' = "down"
  BY <1>1 DEF Write
<1>2. CASE Publish \/ LeaderEnds
  BY <1>2 DEF Publish, LeaderEnds
<1>3. ASSUME NEW r \in Replicas, Answer(r) \/ WriteRdb(r) \/ Wedge(r) \/ Start(r)
      PROVE  leader' = "down"
  BY <1>3 DEF Answer, WriteRdb, Wedge, Start
<1>4. ASSUME NEW r \in Replicas, Subscribe(r) \/ Deliver(r) \/ Depart(r)
      PROVE  leader' = "down"
  BY <1>4 DEF Subscribe, Deliver, Depart
<1>5. CASE Ask \/ Hear \/ ReadRdb \/ StartFails \/ FollowerEnds
  BY <1>5 DEF Ask, Hear, ReadRdb, StartFails, FollowerEnds
<1>6. CASE Replay \/ Swallow \/ Tear
  BY <1>6 DEF Replay, Swallow, Tear
<1>7. CASE UNCHANGED vars
  BY <1>7 DEF vars
<1> QED
  BY <1>1, <1>2, <1>3, <1>4, <1>5, <1>6, <1>7 DEF Next

\* Every step keeps LogInv.
LEMMA NextLog == TypeInv /\ LogInv /\ [Next]_vars => LogInv'
<1> SUFFICES ASSUME TypeInv, LogInv, [Next]_vars PROVE LogInv'
  OBVIOUS
<1>0. /\ writes \in Nat /\ log \in Seq(Writes) /\ Len(log) \in Nat
      /\ \A i \in 1 .. Len(log) : log[i] \in Writes /\ log[i][2] \in Nat
  BY WriteTypes DEF TypeInv
<1>1. ASSUME NEW k \in Keys, NEW op \in Ops, Write(k, op) PROVE LogInv'
  <2>1. /\ writes' = writes + 1 /\ writes' \in 1 .. MaxWrites
        /\ pending = NoWrite /\ pending' = <<k, writes', op>> /\ log' = log
    BY <1>0, <1>1, ReplicationConstants DEF Write, feed
  <2>2. pending'[2] = writes'
    BY <2>1
  <2> QED
    BY <1>0, <2>1, <2>2 DEF LogInv
<1>2. CASE Publish
  <2>1. /\ pending # NoWrite /\ pending' = NoWrite /\ writes' = writes
        /\ Len(log') = Len(log) + 1 /\ log'[Len(log) + 1] = pending
        /\ \A i \in 1 .. Len(log) : log'[i] = log[i]
    BY <1>2, PublishEffect
  <2>2. \A i \in 1 .. Len(log') : i \in 1 .. Len(log) \/ i = Len(log) + 1
    BY <1>0, <2>1
  <2>3. \A i \in 1 .. Len(log') : log'[i][2] <= writes
    BY <2>1, <2>2 DEF LogInv
  <2>4. ASSUME NEW i \in 1 .. Len(log'), NEW j \in 1 .. Len(log'), i < j
        PROVE  log'[i][2] < log'[j][2]
    <3>1. i \in 1 .. Len(log)
      BY <1>0, <2>1, <2>2, <2>4
    <3> QED
      BY <2>1, <2>2, <2>4, <3>1 DEF LogInv
  <2> QED
    BY <2>1, <2>3, <2>4 DEF LogInv
<1>3. CASE LeaderEnds
  <2>1. UNCHANGED <<log, writes>> /\ pending' = NoWrite
    BY <1>3 DEF LeaderEnds
  <2> QED
    BY <2>1 DEF LogInv
<1>4. CASE LeaderStarts
  <2>1. UNCHANGED <<pending, writes>> /\ Len(log') = 0
    BY <1>4 DEF LeaderStarts
  <2> QED
    BY <2>1 DEF LogInv
<1>5. CASE UNCHANGED <<store, writes, pending, log>>
  BY <1>5 DEF LogInv
<1> QED
  BY <1>1, <1>2, <1>3, <1>4, <1>5, OthersLeaveLog

\* The steps that change neither the log nor what is on a connection.
LEMMA OthersLeaveFeed ==
  ASSUME [Next]_vars, ~Publish, ~LeaderEnds, ~LeaderStarts,
         \A r \in Replicas : ~Subscribe(r) /\ ~Deliver(r) /\ ~Depart(r)
  PROVE  UNCHANGED <<log, member, first, out>>
<1> USE DEF feed
<1>1. ASSUME NEW k \in Keys, NEW op \in Ops, Write(k, op)
      PROVE  UNCHANGED <<log, member, first, out>>
  BY <1>1 DEF Write
<1>2. ASSUME NEW r \in Replicas, Answer(r) \/ WriteRdb(r) \/ Wedge(r) \/ Start(r)
      PROVE  UNCHANGED <<log, member, first, out>>
  BY <1>2 DEF Answer, WriteRdb, Wedge, Start
<1>3. CASE Ask \/ Hear \/ ReadRdb \/ StartFails \/ FollowerEnds
  BY <1>3 DEF Ask, Hear, ReadRdb, StartFails, FollowerEnds
<1>4. CASE Replay \/ Swallow \/ Tear
  BY <1>4 DEF Replay, Swallow, Tear
<1>5. CASE UNCHANGED vars
  BY <1>5 DEF vars
<1> QED
  BY <1>1, <1>2, <1>3, <1>4, <1>5 DEF Next

\* Every step keeps PartInv.
LEMMA NextPart == TypeInv /\ HandlerInv /\ FollowerInv /\ LogInv /\ PartInv /\ [Next]_vars => PartInv'
<1> SUFFICES ASSUME TypeInv, HandlerInv, FollowerInv, LogInv, PartInv, [Next]_vars PROVE PartInv'
  OBVIOUS
<1>0. /\ log \in Seq(Writes) /\ Len(log) \in Nat /\ member \subseteq Replicas
      /\ \A i \in 1 .. Len(log) : log[i][2] \in Nat
      /\ \A r \in Replicas :
           /\ out[r] \in Seq(Writes) /\ Len(out[r]) \in Nat /\ first[r] \in Nat
           /\ \A i \in 1 .. Len(out[r]) : out[r][i][2] \in Nat
  BY WriteTypes DEF TypeInv
<1>1. CASE Publish
  <2>1. /\ UNCHANGED <<member, first, out>> /\ Len(log') = Len(log) + 1
        /\ \A i \in 1 .. Len(log) : log'[i] = log[i]
    BY <1>1, PublishEffect
  <2>2. ASSUME NEW r \in member, NEW i \in 1 .. Len(out[r])
        PROVE  first[r] + i \in 1 .. Len(log)
    BY <1>0, <2>2 DEF PartInv
  <2>3. \A r \in member : first[r] + Len(out[r]) <= Len(log')
    BY <1>0, <2>1 DEF PartInv
  <2>4. \A r \in member : \A i \in 1 .. Len(out[r]) : out[r][i] = log'[first[r] + i]
    BY <2>1, <2>2 DEF PartInv
  <2> QED
    BY <2>1, <2>3, <2>4 DEF PartInv
<1>2. CASE LeaderEnds
  <2>1. member' = {}
    BY <1>2 DEF LeaderEnds
  <2>2. \A r \in Replicas :
          /\ Len(out'[r]) \in Nat /\ Len(out'[r]) <= Len(out[r])
          /\ \A i \in 1 .. Len(out'[r]) : out'[r][i] = out[r][i]
    BY <1>2, Cut
  <2>3. ASSUME NEW r \in Replicas, NEW i \in 1 .. Len(out'[r]), NEW j \in 1 .. Len(out'[r]), i < j
        PROVE  out'[r][i][2] < out'[r][j][2]
    <3>1. i \in 1 .. Len(out[r]) /\ j \in 1 .. Len(out[r])
      BY <1>0, <2>2
    <3> QED
      BY <2>2, <2>3, <3>1 DEF PartInv
  <2> QED
    BY <2>1, <2>3 DEF PartInv
<1>3. CASE LeaderStarts
  <2>1. member' = {} /\ out' = out
    BY <1>3 DEF LeaderStarts, HandlerInv
  <2> QED
    BY <2>1 DEF PartInv
<1>4. ASSUME NEW r \in Replicas, Subscribe(r) PROVE PartInv'
  <2>1. /\ r \notin joined /\ member' = member \cup {r} /\ UNCHANGED <<log, out>>
        /\ first' = [first EXCEPT ![r] = Len(log)]
    BY <1>4 DEF Subscribe, B!Join
  <2>2. out[r] = <<>> /\ r \notin member
    BY <2>1 DEF HandlerInv
  <2>3. \A s \in member : first'[s] = first[s]
    BY <1>0, <2>1, <2>2 DEF TypeInv
  <2>4. first'[r] = Len(log) /\ Len(out[r]) = 0
    BY <2>1, <2>2 DEF TypeInv
  <2>5. ASSUME NEW s \in member'
        PROVE  /\ first'[s] + Len(out'[s]) <= Len(log')
               /\ \A i \in 1 .. Len(out'[s]) : out'[s][i] = log'[first'[s] + i]
    <3>1. CASE s = r
      BY <1>0, <2>1, <2>4, <3>1
    <3>2. CASE s \in member
      BY <2>1, <2>3, <3>2 DEF PartInv
    <3> QED
      BY <2>1, <3>1, <3>2
  <2> QED
    BY <2>1, <2>5 DEF PartInv
<1>5. ASSUME NEW r \in Replicas, Deliver(r) PROVE PartInv'
  <2> DEFINE n == Len(out[r]) + 1
  <2>1. /\ r \in member /\ first[r] + n \in 1 .. Len(log)
        /\ Len(out'[r]) = n /\ out'[r][n] = log[first[r] + n]
        /\ \A i \in 1 .. Len(out[r]) : out'[r][i] = out[r][i]
        /\ \A s \in Replicas \ {r} : out'[s] = out[s]
        /\ UNCHANGED <<log, member, first>>
    <3>1. /\ r \in member /\ first[r] + Len(out[r]) + 1 \in 1 .. Len(log)
          /\ Len(out'[r]) = Len(out[r]) + 1
          /\ out'[r][Len(out'[r])] = log[first[r] + Len(out[r]) + 1]
          /\ \A i \in 1 .. Len(out[r]) : out'[r][i] = out[r][i]
          /\ \A s \in Replicas \ {r} : out'[s] = out[s]
          /\ UNCHANGED <<log, member, first>>
      BY <1>5, DeliverEffect, ZenonT(60)
    <3>2. first[r] + Len(out[r]) + 1 = first[r] + n
      BY <1>0, <3>1, SMTT(60)
    <3> QED
      BY <3>1, <3>2, ZenonT(60)
  <2>2. \A i \in 1 .. n : i \in 1 .. Len(out[r]) \/ i = n
    BY <1>0
  <2>3. \A i \in 1 .. n : out'[r][i] = log[first[r] + i]
    BY <2>1, <2>2 DEF PartInv
  <2>4. \A i \in 1 .. n : first[r] + i \in 1 .. Len(log)
    BY <1>0, <2>1, SMTT(60)
  <2>5. \A i, j \in 1 .. n : i < j => out'[r][i][2] < out'[r][j][2]
    <3>1. \A i, j \in 1 .. n : i < j => first[r] + i < first[r] + j
      BY <1>0
    <3> QED
      BY <2>3, <2>4, <3>1 DEF LogInv
  <2>6. first[r] + n <= Len(log)
    BY <2>1
  <2> HIDE DEF n
  <2>7. \A s \in member' : /\ first'[s] + Len(out'[s]) <= Len(log')
                           /\ \A i \in 1 .. Len(out'[s]) : out'[s][i] = log'[first'[s] + i]
    <3>1. \A s \in member \ {r} : out'[s] = out[s]
      BY <1>0, <2>1
    <3> QED
      BY <2>1, <2>3, <2>6, <3>1 DEF PartInv
  <2>8. \A s \in Replicas : \A i, j \in 1 .. Len(out'[s]) : i < j => out'[s][i][2] < out'[s][j][2]
    BY <2>1, <2>5, SMTT(60) DEF PartInv
  <2> QED
    BY <2>7, <2>8 DEF PartInv
<1>6. ASSUME NEW r \in Replicas, Depart(r) PROVE PartInv'
  <2>1. member' = member \ {r} /\ UNCHANGED <<log, first, out>>
    BY <1>6 DEF Depart, B!Leave
  <2> QED
    BY <2>1 DEF PartInv
<1>7. CASE UNCHANGED <<log, member, first, out>>
  BY <1>7 DEF PartInv
<1> QED
  BY <1>1, <1>2, <1>3, <1>4, <1>5, <1>6, <1>7, OthersLeaveFeed

\* Every step keeps StoreInv.
LEMMA NextStore ==
  TypeInv /\ HandlerInv /\ StoreInv /\ [Next]_vars => StoreInv'
<1> SUFFICES ASSUME TypeInv, HandlerInv, StoreInv, [Next]_vars PROVE StoreInv'
  OBVIOUS
<1>0. store \in [Keys -> Values] /\ log \in Seq(Writes) /\ Len(log) \in Nat
  BY DEF TypeInv
<1>1. ASSUME NEW k \in Keys, NEW op \in Ops, Write(k, op) PROVE StoreInv'
  <2>1. /\ writes' = writes + 1 /\ pending' = <<k, writes', op>>
        /\ store' = [store EXCEPT ![k] = Run(@, pending')]
        /\ pending = NoWrite /\ leader # "down" /\ UNCHANGED <<leader, log>>
    BY <1>1 DEF Write, feed
  <2>2. pending' # NoWrite /\ pending'[1] = k
    BY <2>1 DEF NoWrite
  <2>3. \A h \in Keys : store[h] = Made(log, h, 1, Len(log))
    BY <2>1 DEF StoreInv
  <2>4. store'[k] = Run(store[k], pending') /\ \A h \in Keys \ {k} : store'[h] = store[h]
    BY <1>0, <2>1
  <2>5. \A h \in Keys : store'[h] = IF pending'[1] = h THEN Run(Made(log, h, 1, Len(log)), pending')
                                    ELSE Made(log, h, 1, Len(log))
    BY <2>2, <2>3, <2>4, Zenon
  <2> QED
    BY <2>1, <2>2, <2>5, Zenon DEF StoreInv
<1>2. CASE Publish
  <2>1. /\ store' = store /\ Len(log') = Len(log) + 1
        /\ \A i \in 1 .. Len(log) : log'[i] = log[i]
        /\ log'[Len(log) + 1] = pending /\ pending # NoWrite /\ pending' = NoWrite
        /\ leader # "down"
    BY <1>2, PublishEffect
  <2>2. log' \in Seq(Writes)
    BY <1>2, AppendWrite
  <2>3. ASSUME NEW k \in Keys
        PROVE  store'[k] = Made(log', k, 1, Len(log'))
    <3>1. Made(log', k, 1, Len(log)) = Made(log, k, 1, Len(log))
      BY <1>0, <2>1, MadeSame
    <3>2. Made(log', k, 1, Len(log) + 1) =
            IF pending[1] = k THEN Run(Made(log', k, 1, Len(log)), pending)
            ELSE Made(log', k, 1, Len(log))
      BY <1>0, <2>1, <2>2, MadeNext
    <3>3. store[k] = IF pending[1] = k THEN Run(Made(log, k, 1, Len(log)), pending)
                     ELSE Made(log, k, 1, Len(log))
      BY <2>1 DEF StoreInv
    <3> QED
      BY <2>1, <3>1, <3>2, <3>3
  <2> QED
    BY <2>1, <2>3, Zenon DEF StoreInv
<1>3. CASE LeaderEnds
  BY <1>3 DEF LeaderEnds, StoreInv
<1>4. CASE LeaderStarts
  <2>1. UNCHANGED pending /\ log' = <<>> /\ store' = Loaded /\ leader = "down"
    BY <1>4 DEF LeaderStarts
  <2>2. pending' = NoWrite
    BY <2>1 DEF HandlerInv
  <2>3. \A k \in Keys : Made(log', k, 1, Len(log')) = LoadedValue
    BY <2>1, MadeEmpty
  <2>4. \A k \in Keys : store'[k] = LoadedValue
    BY <2>1 DEF Loaded
  <2> QED
    BY <2>2, <2>3, <2>4 DEF StoreInv
<1>5. CASE UNCHANGED <<store, writes, pending, log>> /\ (leader = "down" => leader' = "down")
  BY <1>5 DEF StoreInv
<1>6. ASSUME ~LeaderStarts, leader = "down" PROVE leader' = "down"
  BY <1>6, OnlyLeaderStarts
<1> QED
  BY <1>1, <1>2, <1>3, <1>4, <1>5, <1>6, OthersLeaveLog

\* The follower's values stay what they are if it reads nothing, its connection
\* keeps what it has read, and the log what it carries.
LEMMA ReplicaKept ==
  ASSUME TypeInv, PartInv, FollowerInv, ReplicaInv, UNCHANGED <<conn, replica, read, swallowed, torn>>,
         conn # None => \A i \in 1 .. read : out'[conn][i] = out[conn][i],
         open' /\ conn \in member' =>
           /\ open /\ conn \in member /\ first'[conn] = first[conn]
           /\ \A i \in 1 .. Len(log) : log'[i] = log[i]
  PROVE  ReplicaInv'
<1>1. conn # None => \A k \in Keys : Stems(k)'
  BY DEF ReplicaInv, Stems
<1>2. ASSUME open', conn \in member', NEW k \in Keys
      PROVE  Follows(k)'
  <2>1. /\ open /\ conn \in member /\ first'[conn] = first[conn]
        /\ \A i \in 1 .. Len(log) : log'[i] = log[i]
    BY <1>2
  <2> DEFINE here == first[conn] + read
             s == first[conn] + FirstRead
  <2>2. /\ conn # None /\ conn \in Replicas /\ Len(out[conn]) \in Nat /\ read \in Nat
        /\ read <= Len(out[conn]) /\ first[conn] \in Nat /\ Len(log) \in Nat
        /\ first[conn] + Len(out[conn]) <= Len(log)
    BY <2>1 DEF TypeInv, FollowerInv, PartInv
  <2>3. here \in Nat /\ here <= Len(log) /\ s \in Nat /\ s >= 1
    BY <2>2 DEF FirstRead
  <2>4. Behind(replica[k], Made(log, k, 1, here)) /\ (~torn => replica[k] = Made(log, k, s, here))
    BY <2>1 DEF ReplicaInv, Follows
  <2>5. here' = here /\ s' = s
    BY <2>1 DEF FirstRead
  <2> HIDE DEF here, s
  <2>6. \A i \in Nat : i >= 1 => Made(log', k, i, here) = Made(log, k, i, here)
    <3> TAKE i \in Nat
    <3>1. i >= 1 => \A p \in i .. here : log'[p] = log[p]
      BY <2>1, <2>2, <2>3, SMTT(60)
    <3> QED
      BY <2>3, <3>1, MadeSame
  <2>7. Behind(replica[k], Made(log', k, 1, here)) /\ (~torn => replica[k] = Made(log', k, s, here))
    BY <2>3, <2>4, <2>6
  <2> QED
    BY <2>5, <2>7 DEF Follows, here, s
<1> QED
  BY <1>1, <1>2 DEF ReplicaInv

\* A follower that has read nothing has the values of its RDB file.
LEMMA NothingRead ==
  ASSUME TypeInv, FollowerInv, read = 0, NEW k \in Keys
  PROVE  replica[k] = LoadedValue /\ replica[k].set = 0
BY DEF FollowerInv, Loaded, LoadedValue

\* The loaded value is behind every other.
LEMMA LoadedBehind ==
  ASSUME NEW l \in Seq(Writes), NEW k, NEW j \in Nat, j <= Len(l)
  PROVE  Behind(LoadedValue, Made(l, k, 1, j))
<1>1. Made(l, k, 1, 0) = LoadedValue
  BY MadeEmpty
<1>2. Made(l, k, 1, j) \in Values
  BY MadeType
<1>3. CASE Sets(l, k, 1, j) = {}
  BY <1>2, <1>3, MadeNone DEF Behind, LoadedValue, Values
<1>4. CASE Sets(l, k, 1, j) # {}
  <2>1. PICK p : LastSet(l, k, 1, j, p)
    BY <1>4, HasLastSet
  <2>2. p \in 1 .. Len(l) /\ l[p] \in Writes
    BY <2>1 DEF LastSet, Sets
  <2>3. Made(l, k, 1, j).set = l[p][2] /\ l[p][2] >= 1 /\ l[p][2] \in Nat
    <3>1. Made(l, k, 1, j) = FromSet(l, k, p, j)
      BY <2>1, MadeLast
    <3> QED
      BY <2>2, <3>1, WriteTypes DEF FromSet
  <2> QED
    BY <2>3 DEF Behind, LoadedValue
<1> QED
  BY <1>3, <1>4

\* What the listener has in front of it is the next command of the log.
LEMMA NextCommand ==
  ASSUME TypeInv, HandlerInv, FollowerInv, LogInv, PartInv, HasEvent
  PROVE  /\ conn # None /\ conn \in Replicas /\ read \in Nat /\ Event \in Writes
         /\ read + 1 \in 1 .. Len(out[conn]) /\ Event = out[conn][read + 1]
         /\ open => conn \in member
         /\ conn \in member =>
              /\ first[conn] + read \in Nat /\ first[conn] + read + 1 \in 1 .. Len(log)
              /\ log[first[conn] + read + 1] = Event
<1>1. conn # None /\ conn \in Replicas /\ read \in Nat /\ read < Len(out[conn]) /\ Len(out[conn]) \in Nat
  BY DEF HasEvent, FollowerInv, TypeInv
<1>2. read + 1 \in 1 .. Len(out[conn]) /\ Event = out[conn][read + 1] /\ Event \in Writes
  BY <1>1 DEF Event, TypeInv
<1>3. open => conn \in member
  <2>1. conn \in joined
    BY <1>1 DEF HandlerInv
  <2> QED
    BY <2>1 DEF HandlerInv
<1>4. ASSUME conn \in member
      PROVE  /\ first[conn] + read \in Nat /\ first[conn] + read + 1 \in 1 .. Len(log)
             /\ log[first[conn] + read + 1] = Event
  <2>1. first[conn] \in Nat /\ Len(log) \in Nat /\ first[conn] + Len(out[conn]) <= Len(log)
    BY <1>1, <1>4 DEF TypeInv, PartInv
  <2>2. out[conn][read + 1] = log[first[conn] + (read + 1)]
    BY <1>2, <1>4 DEF PartInv
  <2>3. first[conn] + (read + 1) = first[conn] + read + 1
    BY <1>1, <2>1, SMTT(60)
  <2> QED
    BY <1>1, <1>2, <2>1, <2>2, <2>3, SMTT(60)
<1> QED
  BY <1>1, <1>2, <1>3, <1>4

\* The step of the log from one command to the next.
LEMMA OneMore ==
  ASSUME TypeInv, LogInv, NEW k \in Keys, NEW p \in Nat, p + 1 <= Len(log)
  PROVE  /\ log[p + 1] \in Writes /\ Made(log, k, 1, p) \in Values /\ Made(log, k, 1, p + 1) \in Values
         /\ Made(log, k, 1, p).set < log[p + 1][2]
         /\ Behind(Made(log, k, 1, p), Made(log, k, 1, p + 1))
         /\ Made(log, k, 1, p + 1) = IF log[p + 1][1] = k THEN Run(Made(log, k, 1, p), log[p + 1])
                                     ELSE Made(log, k, 1, p)
<1>1. log \in Seq(Writes) /\ Len(log) \in Nat /\ p + 1 \in 1 .. Len(log)
  BY DEF TypeInv
<1>2. log[p + 1] \in Writes /\ log[p + 1][2] \in Nat /\ log[p + 1][2] >= 1
  BY <1>1, WriteTypes
<1>3. Made(log, k, 1, p) \in Values /\ Made(log, k, 1, p + 1) \in Values
  BY <1>1, MadeType
<1>4. Made(log, k, 1, p).set < log[p + 1][2]
  <2>1. Made(log, k, 1, p).set = 0 \/ \E i \in 1 .. p : Made(log, k, 1, p).set = log[i][2]
    BY <1>1, MadeType
  <2>2. \A i \in 1 .. p : log[i][2] < log[p + 1][2]
    BY <1>1 DEF LogInv
  <2> QED
    BY <1>2, <2>1, <2>2
<1>5. Behind(Made(log, k, 1, p), Made(log, k, 1, p + 1))
  <2>1. Increasing(log)
    BY DEF LogInv, Increasing
  <2> QED
    BY <1>1, <2>1, MadeGrows
<1>6. Made(log, k, 1, p + 1) = IF log[p + 1][1] = k THEN Run(Made(log, k, 1, p), log[p + 1])
                               ELSE Made(log, k, 1, p)
  BY <1>1, MadeNext
<1> QED
  BY <1>2, <1>3, <1>4, <1>5, <1>6

\* Every step keeps ReplicaInv.
LEMMA NextReplica ==
  TypeInv /\ HandlerInv /\ FollowerInv /\ LogInv /\ PartInv /\ ReplicaInv /\ [Next]_vars => ReplicaInv'
<1> SUFFICES ASSUME TypeInv, HandlerInv, FollowerInv, LogInv, PartInv, ReplicaInv, [Next]_vars
             PROVE  ReplicaInv'
  OBVIOUS
<1> USE DEF leadervars, feed, link, follower
<1>0. /\ read \in Nat /\ replica \in [Keys -> Values] /\ log \in Seq(Writes) /\ Len(log) \in Nat
      /\ conn # None => conn \in Replicas /\ Len(out[conn]) \in Nat /\ read <= Len(out[conn])
  BY DEF TypeInv, FollowerInv
<1>1. ASSUME NEW k \in Keys, NEW op \in Ops, Write(k, op) PROVE ReplicaInv'
  BY <1>1, ReplicaKept DEF Write
<1>2. CASE Publish
  <2>1. /\ \A i \in 1 .. Len(log) : log'[i] = log[i]
        /\ UNCHANGED <<member, first, out, link, follower>>
    BY <1>2, PublishEffect
  <2> QED
    BY <2>1, ReplicaKept
<1>3. CASE LeaderEnds
  <2>1. conn # None => \A i \in 1 .. read : out'[conn][i] = out[conn][i]
    <3>1. conn # None => \A i \in 1 .. read : i \in 1 .. Len(out'[conn])
      BY <1>0, <1>3, Cut
    <3> QED
      BY <1>0, <1>3, <3>1, Cut
  <2>2. UNCHANGED <<conn, replica, read, swallowed, torn>> /\ ~open'
    BY <1>3 DEF LeaderEnds
  <2> QED
    BY <2>1, <2>2, ReplicaKept
<1>4. CASE LeaderStarts
  <2>1. ~open' /\ UNCHANGED <<conn, out, replica, read, swallowed, torn>>
    BY <1>4 DEF LeaderStarts, FollowerInv
  <2> QED
    BY <2>1, ReplicaKept
<1>5. ASSUME NEW r \in Replicas, Depart(r) \/ Answer(r) \/ WriteRdb(r) \/ Wedge(r)
      PROVE  ReplicaInv'
  <2>1. UNCHANGED <<log, first, conn, open, out, replica, read, swallowed, torn>> /\ member' \subseteq member
    BY <1>5 DEF Depart, Answer, WriteRdb, Wedge, B!Leave
  <2> QED
    BY <2>1, ReplicaKept
<1>6. ASSUME NEW r \in Replicas, Deliver(r) PROVE ReplicaInv'
  <2>1. UNCHANGED <<log, member, first, conn, open, replica, read, swallowed, torn>>
    BY <1>6, DeliverEffect
  <2>2. conn # None => \A i \in 1 .. read : i \in 1 .. Len(out[conn])
    BY <1>0
  <2>3. conn # None => \A i \in 1 .. read : out'[conn][i] = out[conn][i]
    <3>1. CASE conn = r
      BY <1>6, <2>2, <3>1, DeliverEffect
    <3>2. CASE conn # None /\ conn # r
      BY <1>0, <1>6, <3>2, DeliverEffect
    <3> QED
      BY <3>1, <3>2
  <2> QED
    BY <2>1, <2>3, ReplicaKept
<1>7. ASSUME NEW r \in Replicas, Start(r) PROVE ReplicaInv'
  <2>1. read' = 0 /\ replica' = Loaded /\ conn' = r /\ r \notin member'
    BY <1>7 DEF Start, FollowerInv, HandlerInv
  <2>2. \A k \in Keys : replica'[k].set = 0
    BY <2>1 DEF Loaded, LoadedValue
  <2> QED
    BY <2>1, <2>2 DEF ReplicaInv, Stems
<1>8. CASE Ask \/ Hear \/ ReadRdb
  BY <1>8, ReplicaKept DEF Ask, Hear, ReadRdb
<1>9. CASE StartFails \/ FollowerEnds
  BY <1>9 DEF StartFails, FollowerEnds, Forget, ReplicaInv
<1>10. CASE Replay
  <2> DEFINE p == first[conn] + read
             s == first[conn] + FirstRead
  <2>1. /\ HasEvent /\ read' = read + 1 /\ rest # "line"
        /\ replica' = [replica EXCEPT ![Event[1]] = Run(@, Event)]
        /\ UNCHANGED <<conn, open, member, first, log, out, swallowed, torn>>
    BY <1>10 DEF Replay
  <2>2. /\ conn # None /\ conn \in Replicas /\ Event \in Writes
        /\ read + 1 \in 1 .. Len(out[conn]) /\ Event = out[conn][read + 1]
        /\ conn \in member => p \in Nat /\ p + 1 \in 1 .. Len(log) /\ log[p + 1] = Event
    BY <2>1, NextCommand
  <2>3. Event[1] \in Keys /\ Event[2] \in Nat
    BY <2>2, WriteTypes
  <2>4. /\ replica'[Event[1]] = Run(replica[Event[1]], Event)
        /\ \A k \in Keys \ {Event[1]} : replica'[k] = replica[k]
    BY <1>0, <2>1, <2>3
  <2>5. ASSUME NEW k \in Keys PROVE Stems(k)'
    <3>1. Stems(k)
      BY <2>2 DEF ReplicaInv
    <3>2. replica'[k].set = replica[k].set \/ replica'[k].set = out[conn][read + 1][2]
      BY <1>0, <2>2, <2>4, RunType, SMTT(60)
    <3>3. read + 1 \in 1 .. read + 1 /\ \A i \in 1 .. read : i \in 1 .. read + 1
      BY <1>0
    <3> QED
      BY <2>1, <3>1, <3>2, <3>3 DEF Stems
  <2>6. ASSUME open, conn \in member, NEW k \in Keys PROVE Follows(k)'
    <3>1. /\ replica[k] \in Values /\ Behind(replica[k], Made(log, k, 1, p))
          /\ ~torn => replica[k] = Made(log, k, s, p)
      BY <1>0, <2>6 DEF ReplicaInv, Follows
    <3>2. p \in Nat /\ p + 1 \in 1 .. Len(log) /\ log[p + 1] = Event /\ p + 1 <= Len(log)
      BY <2>2, <2>6
    <3>3. first[conn] \in Nat /\ s \in Nat /\ s >= 1 /\ s <= p + 1
      BY <1>0, <2>1, <2>2 DEF FirstRead, FollowerInv, TypeInv
    <3>4. p' = p + 1 /\ s' = s
      BY <1>0, <2>1, <3>3 DEF FirstRead
    <3> HIDE DEF p, s
    <3>5. Behind(replica'[k], Made(log, k, 1, p + 1))
      <4>1. CASE Event[1] = k
        BY <2>2, <2>4, <3>1, <3>2, <4>1, OneMore, RunMonotone
      <4>2. CASE Event[1] # k
        BY <2>4, <3>1, <3>2, <4>2, OneMore
      <4> QED
        BY <4>1, <4>2
    <3>6. ~torn => replica'[k] = Made(log, k, s, p + 1)
      <4>1. Made(log, k, s, p + 1) = IF Event[1] = k THEN Run(Made(log, k, s, p), Event)
                                     ELSE Made(log, k, s, p)
        BY <1>0, <3>2, <3>3, MadeNext
      <4> QED
        BY <2>4, <3>1, <4>1
    <3> QED
      BY <2>1, <3>4, <3>5, <3>6 DEF Follows, p, s
  <2> QED
    BY <2>1, <2>2, <2>5, <2>6 DEF ReplicaInv
<1>11. CASE Swallow
  <2>1. /\ HasEvent /\ read = 0 /\ read' = 1 /\ swallowed' = TRUE /\ ~swallowed
        /\ UNCHANGED <<conn, open, member, first, log, out, replica, torn>>
    BY <1>11 DEF Swallow, FollowerInv
  <2>2. \A k \in Keys : replica'[k] = LoadedValue /\ replica'[k].set = 0
    BY <2>1, NothingRead
  <2>3. ASSUME open, conn \in member, NEW k \in Keys PROVE Follows(k)'
    <3>1. first[conn] + read \in Nat /\ first[conn] + read + 1 \in 1 .. Len(log) /\ conn \in Replicas
      BY <2>1, <2>3, NextCommand
    <3>2. first[conn] \in Nat /\ first[conn] + 1 \in Nat /\ first[conn] + 2 \in Nat
          /\ first[conn] + 2 > first[conn] + 1 /\ first[conn] + 1 <= Len(log)
      BY <1>0, <2>1, <3>1 DEF TypeInv
    <3>3. Behind(LoadedValue, Made(log, k, 1, first[conn] + 1))
      BY <1>0, <3>2, LoadedBehind
    <3>4. Made(log, k, first[conn] + 2, first[conn] + 1) = LoadedValue
      BY <3>2, MadeEmpty
    <3> QED
      BY <2>1, <2>2, <3>3, <3>4 DEF Follows, FirstRead
  <2> QED
    BY <2>1, <2>2, <2>3 DEF ReplicaInv, Stems
<1>12. CASE Tear
  <2> DEFINE p == first[conn] + read
  <2>1. /\ HasEvent /\ read' = read + 1 /\ torn' = TRUE
        /\ UNCHANGED <<conn, open, member, first, log, out, replica, swallowed>>
    BY <1>12 DEF Tear
  <2>2. conn # None /\ conn \in Replicas
    BY <2>1, NextCommand
  <2>3. ASSUME NEW k \in Keys PROVE Stems(k)'
    <3>1. \A i \in 1 .. read : i \in 1 .. read + 1
      BY <1>0
    <3> QED
      BY <2>1, <2>2, <3>1 DEF ReplicaInv, Stems
  <2>4. ASSUME open, conn \in member, NEW k \in Keys PROVE Follows(k)'
    <3>1. replica[k] \in Values /\ Behind(replica[k], Made(log, k, 1, p))
      BY <1>0, <2>4 DEF ReplicaInv, Follows
    <3>2. p \in Nat /\ p + 1 \in 1 .. Len(log) /\ p + 1 <= Len(log)
      BY <1>0, <2>1, <2>4, NextCommand
    <3>3. first[conn] \in Nat
      BY <2>2 DEF TypeInv
    <3>4. p' = p + 1
      BY <1>0, <2>1, <3>3
    <3> HIDE DEF p
    <3>5. Behind(replica[k], Made(log, k, 1, p + 1))
      BY <3>1, <3>2, OneMore, BehindTransitive
    <3> QED
      BY <2>1, <3>4, <3>5 DEF Follows, p
  <2> QED
    BY <2>1, <2>2, <2>3, <2>4 DEF ReplicaInv
<1>13. CASE UNCHANGED vars
  BY <1>13, ReplicaKept DEF vars
<1>14. ASSUME NEW r \in Replicas, Subscribe(r) PROVE ReplicaInv'
  <2>1. /\ r \notin joined /\ member' = member \cup {r} /\ first' = [first EXCEPT ![r] = Len(log)]
        /\ UNCHANGED <<log, conn, open, out, replica, read, swallowed, torn>>
    BY <1>14 DEF Subscribe, B!Join
  <2>2. CASE conn # r
    <3>1. conn \in member' => conn \in member /\ first'[conn] = first[conn]
      BY <2>1, <2>2 DEF TypeInv
    <3> QED
      BY <2>1, <3>1, ReplicaKept
  <2>3. CASE conn = r
    <3>1. out[r] = <<>>
      BY <2>1 DEF HandlerInv
    <3>2. read = 0 /\ first'[r] = Len(log) /\ conn # None /\ ~swallowed
      BY <1>0, <2>1, <2>3, <3>1, ReplicationConstants DEF TypeInv, FollowerInv
    <3>3. ASSUME NEW k \in Keys PROVE Stems(k)' /\ Follows(k)'
      <4>1. replica'[k] = LoadedValue /\ replica'[k].set = 0
        BY <2>1, <3>2, NothingRead
      <4>2. Made(log, k, Len(log) + 1, Len(log)) = LoadedValue
        BY <1>0, MadeEmpty
      <4>3. Behind(LoadedValue, Made(log, k, 1, Len(log)))
        BY <1>0, LoadedBehind
      <4>4. FirstRead' = 1 /\ first'[conn'] + read' = Len(log) /\ log' = log
        BY <1>0, <2>1, <2>3, <3>2 DEF FirstRead
      <4> QED
        BY <2>1, <2>3, <3>2, <4>1, <4>2, <4>3, <4>4 DEF Stems, Follows
    <3> QED
      BY <3>3 DEF ReplicaInv
  <2> QED
    BY <2>2, <2>3
<1> QED
  BY <1>1, <1>2, <1>3, <1>4, <1>5, <1>6, <1>7, <1>8, <1>9, <1>10, <1>11, <1>12, <1>13, <1>14 DEF Next

-----------------------------------------------------------------------------
\* The inductive invariant holds in every state.
LEMMA Invariance == Spec => []IInv
<1>1. IInv /\ [Next]_vars => IInv'
  BY NextType, NextHandler, NextFollower, NextLog, NextPart, NextStore, NextReplica DEF IInv
<1> QED
  BY <1>1, InitIInv, PTL DEF Spec

\* Being behind means not newer.
LEMMA BehindNotNewer ==
  ASSUME NEW v, NEW w, Behind(v, w)
  PROVE  NotNewer(v, w)
BY DEF Behind, NotNewer

\* While its connection exists, a follower has of no key a later SET than its
\* leader, nor of the same one more INCRs, whatever the listener tore, skipped or
\* swallowed, and however often either process ended (startReplicationListener,
\* HandlePSync, HandleSet, HandleIncr).
THEOREM ReplicaNeverAhead == Spec => []NeverAhead
<1>1. IInv => NeverAhead
  <2> SUFFICES ASSUME IInv, stage = "serving", open, NEW k \in Keys
               PROVE  NotNewer(replica[k], store[k])
    BY DEF NeverAhead
  <2>1. /\ conn # None /\ conn \in Replicas /\ leader # "down" /\ replica[k] \in Values
        /\ log \in Seq(Writes) /\ Len(log) \in Nat /\ read \in Nat
    BY DEF IInv, FollowerInv, TypeInv
  <2>2. Made(log, k, 1, Len(log)) \in Values
    BY <2>1, MadeType
  <2>3. Behind(replica[k], Made(log, k, 1, Len(log)))
    <3>1. CASE conn \in member
      <4> DEFINE p == first[conn] + read
      <4>1. p \in Nat /\ p <= Len(log)
        BY <2>1, <3>1 DEF IInv, TypeInv, FollowerInv, PartInv
      <4>2. Behind(replica[k], Made(log, k, 1, p))
        BY <3>1 DEF IInv, ReplicaInv, Follows
      <4> HIDE DEF p
      <4>3. Increasing(log)
        BY DEF IInv, LogInv, Increasing
      <4>4. Behind(Made(log, k, 1, p), Made(log, k, 1, Len(log))) /\ Made(log, k, 1, p) \in Values
        BY <2>1, <4>1, <4>3, MadeGrows, MadeType
      <4> QED
        BY <2>1, <2>2, <4>2, <4>4, BehindTransitive
    <3>2. CASE conn \notin member
      <4>1. out[conn] = <<>>
        BY <2>1, <3>2 DEF IInv, HandlerInv
      <4>2. read = 0
        BY <2>1, <4>1 DEF IInv, FollowerInv
      <4>3. replica[k] = LoadedValue
        BY <4>2, NothingRead DEF IInv
      <4> QED
        BY <2>1, <4>3, LoadedBehind
    <3> QED
      BY <3>1, <3>2
  <2>4. CASE pending # NoWrite /\ pending[1] = k
    <3>1. store[k] = Run(Made(log, k, 1, Len(log)), pending) /\ pending \in Writes
      BY <2>1, <2>4 DEF IInv, StoreInv, TypeInv
    <3>2. Made(log, k, 1, Len(log)).set < pending[2]
      <4>1. pending[2] \in Nat /\ pending[2] >= 1
        BY <3>1, WriteTypes
      <4>2. \A i \in 1 .. Len(log) : log[i][2] < pending[2]
        BY <2>4 DEF IInv, LogInv
      <4>3. \/ Made(log, k, 1, Len(log)).set = 0
            \/ \E i \in 1 .. Len(log) : Made(log, k, 1, Len(log)).set = log[i][2]
        BY <2>1, MadeType
      <4> QED
        BY <4>1, <4>2, <4>3
    <3>3. Behind(Made(log, k, 1, Len(log)), store[k]) /\ store[k] \in Values
      BY <2>2, <3>1, <3>2, RunType
    <3> QED
      BY <2>1, <2>2, <2>3, <3>3, BehindTransitive, BehindNotNewer
  <2>5. CASE ~(pending # NoWrite /\ pending[1] = k)
    <3>1. store[k] = Made(log, k, 1, Len(log))
      BY <2>1, <2>5 DEF IInv, StoreInv
    <3> QED
      BY <2>3, <3>1, BehindNotNewer
  <2> QED
    BY <2>4, <2>5
<1> QED
  BY <1>1, Invariance, PTL

\* A client that stays with one follower never sees a key go back to an earlier
\* SET, or lose an INCR: what is on a connection increases, and the listener runs
\* it in order, each command once.
THEOREM ReplicaNeverGoesBack == Spec => NeverGoesBack
<1>1. ASSUME IInv, [Next]_vars, conn # None, conn' = conn, NEW k \in Keys
      PROVE  NotNewer(replica[k], replica'[k])
  <2> USE <1>1 DEF leadervars, feed, link, follower
  <2>0. replica[k] \in Values /\ replica \in [Keys -> Values]
    BY DEF IInv, TypeInv
  <2>1. ASSUME replica' = replica PROVE NotNewer(replica[k], replica'[k])
    BY <2>0, <2>1 DEF NotNewer, Values
  <2>2. CASE Replay
    <3>1. HasEvent /\ replica' = [replica EXCEPT ![Event[1]] = Run(@, Event)]
      BY <2>2 DEF Replay
    <3>2. /\ conn \in Replicas /\ read \in Nat /\ Event \in Writes
          /\ read + 1 \in 1 .. Len(out[conn]) /\ Event = out[conn][read + 1]
      BY <3>1, NextCommand DEF IInv
    <3>3. Event[1] \in Keys /\ Event[2] \in Nat /\ Event[2] >= 1
      BY <3>2, WriteTypes
    <3>4. CASE k # Event[1]
      <4>1. replica'[k] = replica[k]
        BY <2>0, <3>1, <3>3, <3>4
      <4> QED
        BY <2>0, <4>1 DEF NotNewer, Values
    <3>5. CASE k = Event[1]
      <4>1. replica'[k] = Run(replica[k], Event)
        BY <2>0, <3>1, <3>5
      <4>2. Stems(k)
        BY DEF IInv, ReplicaInv
      <4>3. \A i \in 1 .. read : i \in 1 .. Len(out[conn]) /\ i < read + 1
        BY <3>2
      <4>4. \A i \in 1 .. read : out[conn][i][2] < Event[2]
        BY <3>2, <4>3 DEF IInv, PartInv
      <4>5. replica[k].set < Event[2]
        BY <3>3, <4>2, <4>4 DEF Stems
      <4> QED
        BY <2>0, <3>2, <4>1, <4>5, RunType, BehindNotNewer
    <3> QED
      BY <3>4, <3>5
  <2>3. ASSUME NEW h \in Keys, NEW op \in Ops, Write(h, op) PROVE replica' = replica
    BY <2>3 DEF Write
  <2>4. CASE Publish \/ LeaderEnds \/ LeaderStarts
    BY <2>1, <2>4 DEF Publish, LeaderEnds, LeaderStarts
  <2>5. ASSUME NEW r \in Replicas, Answer(r) \/ WriteRdb(r) \/ Wedge(r) \/ Start(r)
        PROVE  replica' = replica
    BY <2>5 DEF Answer, WriteRdb, Wedge, Start
  <2>6. ASSUME NEW r \in Replicas, Subscribe(r) \/ Deliver(r) \/ Depart(r)
        PROVE  replica' = replica
    BY <2>6 DEF Subscribe, Deliver, Depart
  <2>7. CASE Ask \/ Hear \/ ReadRdb
    BY <2>1, <2>7 DEF Ask, Hear, ReadRdb
  <2>8. ~StartFails /\ ~FollowerEnds
    BY DEF StartFails, FollowerEnds, Forget
  <2>9. CASE Swallow \/ Tear
    BY <2>1, <2>9 DEF Swallow, Tear
  <2>10. CASE UNCHANGED vars
    BY <2>1, <2>10 DEF vars
  <2> QED
    BY <2>1, <2>2, <2>3, <2>4, <2>5, <2>6, <2>7, <2>8, <2>9, <2>10 DEF Next
<1>2. IInv /\ [Next]_vars =>
        [conn # None /\ conn' = conn => \A k \in Keys : NotNewer(replica[k], replica'[k])]_vars
  BY <1>1
<1> QED
  BY <1>2, Invariance, PTL DEF Spec, NeverGoesBack

\* A follower that has caught up, whose listener tore no command, has of every
\* key what the commands since its subscription make of it, which is the leader's
\* value if one of them is a SET; a swallowed first command moves the start by one
\* (HandlePSync's subscription, startReplicationListener, HandleIncr).
THEOREM FollowersAgree == Spec => []AgreesOnWhatFollows
<1>1. IInv => AgreesOnWhatFollows
  <2> DEFINE start == first[conn] + FirstRead
  <2> SUFFICES ASSUME IInv, CaughtUp, ~torn, NEW k \in Keys
               PROVE  /\ replica[k] = Made(log, k, start, Len(log))
                      /\ Sets(log, k, start, Len(log)) # {} => replica[k] = store[k]
    BY DEF AgreesOnWhatFollows, FirstRead
  <2>1. conn \in member /\ open /\ first[conn] + Len(out[conn]) = Len(log) /\ read = Len(out[conn])
        /\ pending = NoWrite
    BY DEF CaughtUp, B!Position
  <2>2. /\ conn \in Replicas /\ first[conn] \in Nat /\ Len(log) \in Nat /\ leader # "down"
        /\ first[conn] + read = Len(log)
    BY <2>1 DEF IInv, TypeInv, FollowerInv
  <2>3. start \in Nat /\ start >= 1
    BY <2>2 DEF FirstRead
  <2>4. replica[k] = Made(log, k, start, Len(log))
    BY <2>1, <2>2 DEF IInv, ReplicaInv, Follows
  <2> HIDE DEF start
  <2>5. store[k] = Made(log, k, 1, Len(log))
    BY <2>1, <2>2 DEF IInv, StoreInv
  <2>6. Sets(log, k, start, Len(log)) # {} =>
          Made(log, k, 1, Len(log)) = Made(log, k, start, Len(log))
    BY <2>2, <2>3, MadeFromSet
  <2> QED
    BY <2>4, <2>5, <2>6
<1> QED
  BY <1>1, Invariance, PTL
=============================================================================
