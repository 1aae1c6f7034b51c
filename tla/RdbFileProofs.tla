---------------------------- MODULE RdbFileProofs ----------------------------
(***************************************************************************)
(* Proofs about RdbFile, for every snapshot of short strings, every cut of *)
(* its file and every size of the reader's buffer: a server that starts    *)
(* has all of a database or nothing, and a whole file that the code        *)
(* supports is loaded.                                                     *)
(***************************************************************************)
EXTENDS RdbFile, FiniteSetTheorems, SequenceTheorems, WellFoundedInduction, TLAPS

-----------------------------------------------------------------------------
(* Induction, as a least counterexample *)

\* Every set of naturals that is not empty has a least element.
LEMMA Least ==
  ASSUME NEW T, T \subseteq Nat, T # {}
  PROVE  \E m \in T : \A k \in T : m <= k
<1> DEFINE R == OpToRel(<, Nat)
<1>1. IsWellFoundedOn(R, Nat)
  BY NatLessThanWellFounded, Zenon
<1>2. \A x, y \in Nat : <<y, x>> \in R <=> y < x
  BY DEF OpToRel
<1> HIDE DEF R
<1>3. PICK m \in T : \A k \in T : ~(<<k, m>> \in R)
  BY <1>1, WFMin
<1>4. ASSUME NEW k \in T PROVE m <= k
  <2>1. m \in Nat /\ k \in Nat
    OBVIOUS
  <2>2. ~(k < m)
    BY <1>2, <1>3, <2>1
  <2> QED
    BY <2>1, <2>2
<1> QED
  BY <1>4

\* A set of naturals with 0 and with each number's successor is all of them.
LEMMA Induct ==
  ASSUME NEW S, 0 \in S, \A n \in Nat : n \in S => n + 1 \in S
  PROVE  Nat \subseteq S
<1> DEFINE T == Nat \ S
<1>1. SUFFICES ASSUME T # {} PROVE FALSE
  OBVIOUS
<1>2. PICK m \in T : \A k \in T : m <= k
  <2>1. T \subseteq Nat
    OBVIOUS
  <2> HIDE DEF T
  <2> QED
    BY <1>1, <2>1, Least
<1>3. m \in Nat /\ m # 0
  OBVIOUS
<1>4. m - 1 \in Nat /\ ~(m <= m - 1) /\ m - 1 + 1 = m
  BY <1>3
<1>5. m - 1 \in S
  BY <1>2, <1>4
<1> QED
  BY <1>4, <1>5

-----------------------------------------------------------------------------
(* FlattenSeq *)

\* The first n of a family of sequences, one after another.
Flat(t, n) == FlattenSeq([i \in 1 .. n |-> t[i]])

\* The equation of FlattenSeq's recursive function.
Flattens(f, t, n) == f = [i \in 1 .. n |-> IF i = 1 THEN t[i] ELSE f[i - 1] \o t[i]]

\* It has a solution.
LEMMA FlattensExists ==
  ASSUME NEW t
  PROVE  \A n \in Nat : \E f : Flattens(f, t, n)
<1> DEFINE S == {n \in Nat : \E f : Flattens(f, t, n)}
<1>1. 0 \in S
  <2> DEFINE f == [i \in 1 .. 0 |-> t[i]]
  <2>1. Flattens(f, t, 0)
    BY DEF Flattens
  <2> QED
    BY <2>1
<1>2. ASSUME NEW n \in Nat, n \in S PROVE n + 1 \in S
  <2>1. PICK f : Flattens(f, t, n)
    BY <1>2
  <2> DEFINE g == [i \in 1 .. n + 1 |-> IF i <= n THEN f[i]
                                        ELSE IF i = 1 THEN t[i] ELSE f[i - 1] \o t[i]]
  <2>2. ASSUME NEW i \in 1 .. n + 1
        PROVE  g[i] = IF i = 1 THEN t[i] ELSE g[i - 1] \o t[i]
    <3>1. \A j \in 1 .. n : f[j] = IF j = 1 THEN t[j] ELSE f[j - 1] \o t[j]
      BY <2>1 DEF Flattens
    <3>2. i # 1 => i - 1 \in 1 .. n /\ g[i - 1] = f[i - 1]
      OBVIOUS
    <3>3. CASE i <= n
      <4>1. i \in 1 .. n /\ g[i] = f[i]
        BY <3>3
      <4> HIDE DEF g
      <4> QED
        BY <3>1, <3>2, <4>1
    <3>4. CASE ~(i <= n)
      <4>1. g[i] = IF i = 1 THEN t[i] ELSE f[i - 1] \o t[i]
        BY <3>4
      <4> HIDE DEF g
      <4> QED
        BY <3>2, <4>1
    <3> QED
      BY <3>3, <3>4
  <2>3. Flattens(g, t, n + 1)
    <3> DEFINE h == [i \in 1 .. n + 1 |-> IF i = 1 THEN t[i] ELSE g[i - 1] \o t[i]]
    <3>1. DOMAIN g = 1 .. n + 1 /\ g = [i \in 1 .. n + 1 |-> g[i]]
      OBVIOUS
    <3> HIDE DEF g
    <3>2. \A i \in 1 .. n + 1 : g[i] = h[i]
      BY <2>2
    <3>3. g = h
      BY <3>1, <3>2
    <3> QED
      BY <3>3 DEF Flattens
  <2> QED
    BY <2>3
<1>3. Nat \subseteq S
  <2> HIDE DEF S
  <2> QED
    BY <1>1, <1>2, Induct
<1> QED
  BY <1>3

\* Solutions agree where both are defined.
LEMMA FlattensUnique ==
  ASSUME NEW t, NEW n \in Nat, NEW m \in Nat, NEW f, NEW g, Flattens(f, t, n), Flattens(g, t, m)
  PROVE  \A i \in 1 .. n : i <= m => f[i] = g[i]
<1> DEFINE T == {i \in 1 .. n : i <= m /\ f[i] # g[i]}
<1>1. SUFFICES ASSUME T # {} PROVE FALSE
  OBVIOUS
<1>2. PICK j \in T : \A k \in T : j <= k
  <2>1. T \subseteq Nat
    OBVIOUS
  <2> HIDE DEF T
  <2> QED
    BY <1>1, <2>1, Least
<1>3. /\ \A i \in 1 .. n : f[i] = IF i = 1 THEN t[i] ELSE f[i - 1] \o t[i]
      /\ \A i \in 1 .. m : g[i] = IF i = 1 THEN t[i] ELSE g[i - 1] \o t[i]
  BY DEF Flattens
<1>4. j \in 1 .. n /\ j \in 1 .. m /\ f[j] # g[j]
  OBVIOUS
<1>5. j # 1
  BY <1>3, <1>4
<1>6. j - 1 \in 1 .. n /\ j - 1 <= m /\ ~(j <= j - 1)
  BY <1>4, <1>5
<1>7. f[j - 1] = g[j - 1]
  BY <1>2, <1>6
<1> QED
  BY <1>3, <1>4, <1>5, <1>7

\* One more sequence.
LEMMA FlatStep ==
  ASSUME NEW t, NEW n \in Nat
  PROVE  /\ Flat(t, 0) = <<>>
         /\ Flat(t, n + 1) = IF n = 0 THEN t[n + 1] ELSE Flat(t, n) \o t[n + 1]
<1>1. Flat(t, 0) = <<>>
  <2>1. [i \in 1 .. 0 |-> t[i]] = <<>>
    OBVIOUS
  <2>2. Len(<<>>) = 0
    OBVIOUS
  <2> QED
    BY <2>1, <2>2 DEF Flat, FlattenSeq
<1>2. ASSUME NEW m \in Nat, m # 0, NEW f, Flattens(f, t, m) PROVE Flat(t, m) = f[m]
  <2> DEFINE s == [i \in 1 .. m |-> t[i]]
             Is(g) == g = [i \in 1 .. m |-> IF i = 1 THEN s[i] ELSE g[i - 1] \o s[i]]
             h == CHOOSE g : Is(g)
  <2>1. Len(s) = m
    BY <1>2
  <2>2. \A g : Is(g) <=> Flattens(g, t, m)
    BY DEF Flattens
  <2>3. Flat(t, m) = FlattenSeq(s)
    BY DEF Flat
  <2> HIDE DEF s
  <2>4. Flat(t, m) = h[m]
    <3>1. Len(s) # 0
      BY <1>2, <2>1
    <3>2. FlattenSeq(s) = (CHOOSE g : g = [i \in 1 .. Len(s) |->
                             IF i = 1 THEN s[i] ELSE g[i - 1] \o s[i]])[Len(s)]
      BY <3>1, Zenon DEF FlattenSeq
    <3> QED
      BY <2>1, <2>3, <3>2
  <2> HIDE DEF Is
  <2>5. Is(h)
    <3>1. Is(f)
      BY <1>2, <2>2
    <3> QED
      BY <3>1, Zenon
  <2> HIDE DEF h
  <2>6. Flattens(h, t, m)
    BY <2>2, <2>5
  <2>7. h[m] = f[m]
    <3>1. m \in 1 .. m /\ m <= m
      BY <1>2
    <3> QED
      BY <1>2, <2>6, <3>1, FlattensUnique
  <2> QED
    BY <2>4, <2>7
<1>3. PICK f : Flattens(f, t, n + 1)
  <2>1. n + 1 \in Nat
    OBVIOUS
  <2> QED
    BY <2>1, FlattensExists
<1>4. PICK g : Flattens(g, t, n)
  BY FlattensExists
<1>5. n + 1 \in Nat /\ n + 1 # 0
  OBVIOUS
<1>6. Flat(t, n + 1) = f[n + 1]
  BY <1>2, <1>3, <1>5
<1>7. f[n + 1] = IF n = 0 THEN t[n + 1] ELSE f[n] \o t[n + 1]
  <2>1. n + 1 \in 1 .. n + 1 /\ (n + 1 = 1 <=> n = 0) /\ n + 1 - 1 = n
    OBVIOUS
  <2>2. ASSUME NEW i \in 1 .. n + 1 PROVE f[i] = IF i = 1 THEN t[i] ELSE f[i - 1] \o t[i]
    BY <1>3 DEF Flattens
  <2>3. f[n + 1] = IF n + 1 = 1 THEN t[n + 1] ELSE f[n + 1 - 1] \o t[n + 1]
    <3> DEFINE k == n + 1
    <3>1. k \in 1 .. n + 1
      BY <2>1
    <3> HIDE DEF k
    <3>2. f[k] = IF k = 1 THEN t[k] ELSE f[k - 1] \o t[k]
      BY <2>2, <3>1
    <3> QED
      BY <3>2 DEF k
  <2> QED
    BY <2>1, <2>3
<1>8. n # 0 => f[n] = g[n] /\ Flat(t, n) = g[n]
  <2>1. ASSUME n # 0 PROVE f[n] = g[n]
    <3>1. n \in 1 .. n + 1 /\ n <= n
      BY <2>1
    <3> QED
      BY <1>3, <1>4, <1>5, <3>1, FlattensUnique
  <2> QED
    BY <1>2, <1>4, <2>1
<1> QED
  BY <1>1, <1>6, <1>7, <1>8

\* Where each of the first m is in the whole.
Placed(B, t, m) ==
  /\ Flat(t, 0) = <<>>
  /\ \A n \in 0 .. m : /\ Flat(t, n) \in Seq(B) /\ Len(Flat(t, n)) \in Nat
                       /\ Len(Flat(t, n)) <= Len(Flat(t, m))
  /\ \A n \in 0 .. m - 1 :
       /\ Len(Flat(t, n + 1)) = Len(Flat(t, n)) + Len(t[n + 1])
       /\ \A j \in 1 .. Len(t[n + 1]) : Flat(t, m)[Len(Flat(t, n)) + j] = t[n + 1][j]

\* The pieces of a flattened sequence are where the lengths before them put them.
LEMMA FlatPlaces ==
  ASSUME NEW B, NEW t, NEW m \in Nat, \A i \in 1 .. m : t[i] \in Seq(B)
  PROVE  Placed(B, t, m)
<1>0. \A i \in 1 .. m : Len(t[i]) \in Nat
  BY LenProperties
<1>1. Flat(t, 0) = <<>>
  BY FlatStep
<1>2. ASSUME NEW n \in 0 .. m - 1
      PROVE  /\ Flat(t, n + 1) = (IF n = 0 THEN t[n + 1] ELSE Flat(t, n) \o t[n + 1])
             /\ t[n + 1] \in Seq(B)
  <2>1. n \in Nat /\ n + 1 \in 1 .. m
    OBVIOUS
  <2>2. Flat(t, n + 1) = (IF n = 0 THEN t[n + 1] ELSE Flat(t, n) \o t[n + 1])
    BY <2>1, FlatStep
  <2> QED
    BY <2>1, <2>2
<1>3. \A n \in 0 .. m : Flat(t, n) \in Seq(B)
  <2> DEFINE S == {n \in Nat : n <= m => Flat(t, n) \in Seq(B)}
  <2>1. 0 \in S
    <3>1. Flat(t, 0) \in Seq(B)
      BY <1>1, EmptySeq
    <3> QED
      BY <3>1
  <2>2. ASSUME NEW n \in Nat, n \in S PROVE n + 1 \in S
    <3>1. ASSUME n + 1 <= m PROVE Flat(t, n + 1) \in Seq(B)
      <4>1. n \in 0 .. m - 1 /\ Flat(t, n) \in Seq(B)
        BY <2>2, <3>1
      <4>2. Flat(t, n) \o t[n + 1] \in Seq(B)
        BY <1>2, <4>1, ConcatProperties
      <4> QED
        BY <1>2, <4>1, <4>2
    <3> QED
      BY <3>1
  <2>3. Nat \subseteq S
    <3> HIDE DEF S
    <3> QED
      BY <2>1, <2>2, Induct
  <2> QED
    BY <2>3
<1>4. \A n \in 0 .. m : Len(Flat(t, n)) \in Nat
  BY <1>3, LenProperties
\* One step: the first n are followed by the next.
<1>5. ASSUME NEW n \in 0 .. m - 1
      PROVE  /\ Len(Flat(t, n + 1)) = Len(Flat(t, n)) + Len(t[n + 1])
             /\ \A j \in 1 .. Len(Flat(t, n)) : Flat(t, n + 1)[j] = Flat(t, n)[j]
             /\ \A j \in 1 .. Len(t[n + 1]) : Flat(t, n + 1)[Len(Flat(t, n)) + j] = t[n + 1][j]
  <2>1. n \in 0 .. m /\ n + 1 \in 1 .. m
    OBVIOUS
  <2>2. CASE n = 0
    <3>1. Len(Flat(t, n)) = 0 /\ Flat(t, n + 1) = t[n + 1] /\ Len(t[n + 1]) \in Nat
      BY <1>0, <1>1, <1>2, <2>1, <2>2
    <3> QED
      BY <3>1
  <2>3. CASE n # 0
    <3> DEFINE a == Flat(t, n)
               b == t[n + 1]
    <3>1. a \in Seq(B) /\ b \in Seq(B) /\ Flat(t, n + 1) = a \o b /\ Len(a) \in Nat /\ Len(b) \in Nat
      BY <1>0, <1>2, <1>3, <1>4, <2>1, <2>3
    <3> HIDE DEF a, b
    <3>2. /\ Len(a \o b) = Len(a) + Len(b)
          /\ \A j \in 1 .. Len(a) + Len(b) :
               (a \o b)[j] = IF j <= Len(a) THEN a[j] ELSE b[j - Len(a)]
      BY <3>1, ConcatProperties
    <3>3. \A j \in 1 .. Len(a) : (a \o b)[j] = a[j]
      BY <3>1, <3>2
    <3>4. ASSUME NEW j \in 1 .. Len(b) PROVE (a \o b)[Len(a) + j] = b[j]
      <4>1. /\ Len(a) + j \in 1 .. Len(a) + Len(b) /\ ~(Len(a) + j <= Len(a))
            /\ Len(a) + j - Len(a) = j
        BY <3>1
      <4> QED
        BY <3>2, <4>1
    <3> QED
      BY <3>1, <3>2, <3>3, <3>4 DEF a, b
  <2> QED
    BY <2>2, <2>3
\* The whole begins with the first n.
<1>6. ASSUME NEW n \in 0 .. m
      PROVE  /\ Len(Flat(t, n)) <= Len(Flat(t, m))
             /\ \A j \in 1 .. Len(Flat(t, n)) : Flat(t, m)[j] = Flat(t, n)[j]
  <2> DEFINE Begins(l) == /\ Len(Flat(t, n)) <= Len(Flat(t, l))
                          /\ \A j \in 1 .. Len(Flat(t, n)) : Flat(t, l)[j] = Flat(t, n)[j]
             S == {d \in Nat : n + d <= m => Begins(n + d)}
  <2>1. 0 \in S
    <3>1. n + 0 = n /\ Len(Flat(t, n)) \in Nat
      BY <1>4
    <3>2. Begins(n)
      BY <3>1
    <3> HIDE DEF Begins
    <3> QED
      BY <3>1, <3>2
  <2>2. ASSUME NEW d \in Nat, d \in S PROVE d + 1 \in S
    <3>1. ASSUME n + (d + 1) <= m PROVE Begins(n + (d + 1))
      <4> DEFINE l == n + d
      <4>1. l \in 0 .. m - 1 /\ n + (d + 1) = l + 1 /\ l \in 0 .. m /\ l + 1 \in 0 .. m
        BY <3>1
      <4>2. Begins(l)
        BY <2>2, <3>1
      <4> HIDE DEF l
      <4>3. Begins(l + 1)
        <5>1. /\ Len(Flat(t, n)) \in Nat /\ Len(Flat(t, l)) \in Nat /\ Len(t[l + 1]) \in Nat
          BY <1>0, <1>4, <4>1
        <5>2. /\ Len(Flat(t, l + 1)) = Len(Flat(t, l)) + Len(t[l + 1])
              /\ \A j \in 1 .. Len(Flat(t, l)) : Flat(t, l + 1)[j] = Flat(t, l)[j]
          BY <1>5, <4>1
        <5> QED
          BY <4>2, <5>1, <5>2
      <4> QED
        BY <4>1, <4>3
    <3> QED
      BY <3>1
  <2>3. Nat \subseteq S
    <3> HIDE DEF S
    <3> QED
      BY <2>1, <2>2, Induct
  <2>4. m - n \in S /\ n + (m - n) = m
    <3>1. m - n \in Nat /\ n + (m - n) = m
      OBVIOUS
    <3> HIDE DEF S
    <3> QED
      BY <2>3, <3>1
  <2>5. Begins(m)
    <3> HIDE DEF Begins
    <3> QED
      BY <2>4
  <2> QED
    BY <2>5
<1>7. ASSUME NEW n \in 0 .. m - 1, NEW j \in 1 .. Len(t[n + 1])
      PROVE  Flat(t, m)[Len(Flat(t, n)) + j] = t[n + 1][j]
  <2>1. n + 1 \in 0 .. m /\ n + 1 \in 1 .. m /\ n \in 0 .. m
    OBVIOUS
  <2>2. Len(Flat(t, n)) + j \in 1 .. Len(Flat(t, n + 1))
    BY <1>0, <1>4, <1>5, <2>1
  <2> QED
    BY <1>5, <1>6, <2>1, <2>2
<1> QED
  BY <1>1, <1>3, <1>4, <1>5, <1>6, <1>7 DEF Placed

-----------------------------------------------------------------------------
(* Headers and bulk strings *)

-----------------------------------------------------------------------------
(* Where everything is in a file *)

\* P is in T, after the first q.
Piece(T, q, P) == q + Len(P) <= Len(T) /\ \A j \in 1 .. Len(P) : T[q + j] = P[j]

\* A piece of a piece.
LEMMA PieceOfPiece ==
  ASSUME NEW T, NEW P, NEW R, NEW q \in Nat, NEW n \in Nat,
         Len(T) \in Nat, Len(P) \in Nat, Len(R) \in Nat, Piece(T, q, P), Piece(P, n, R)
  PROVE  Piece(T, q + n, R)
<1>1. q + n + Len(R) <= Len(T)
  BY DEF Piece
<1>2. ASSUME NEW j \in 1 .. Len(R) PROVE T[q + n + j] = R[j]
  <2>1. n + j \in 1 .. Len(P) /\ q + (n + j) = q + n + j
    BY DEF Piece
  <2> QED
    BY <2>1 DEF Piece
<1> QED
  BY <1>1, <1>2 DEF Piece

\* The two pieces of a concatenation.
LEMMA JoinPieces ==
  ASSUME NEW S, NEW a \in Seq(S), NEW b \in Seq(S)
  PROVE  /\ a \o b \in Seq(S) /\ Len(a) \in Nat /\ Len(b) \in Nat
         /\ Len(a \o b) = Len(a) + Len(b)
         /\ Piece(a \o b, 0, a) /\ Piece(a \o b, Len(a), b)
<1>1. Len(a) \in Nat /\ Len(b) \in Nat
  BY LenProperties
<1>2. /\ a \o b \in Seq(S) /\ Len(a \o b) = Len(a) + Len(b)
      /\ \A i \in 1 .. Len(a) + Len(b) :
           (a \o b)[i] = IF i <= Len(a) THEN a[i] ELSE b[i - Len(a)]
  BY ConcatProperties
<1>3. ASSUME NEW j \in 1 .. Len(a) PROVE (a \o b)[0 + j] = a[j]
  <2>1. 0 + j = j /\ j \in 1 .. Len(a) + Len(b) /\ j <= Len(a)
    BY <1>1
  <2> QED
    BY <1>2, <2>1
<1>4. ASSUME NEW j \in 1 .. Len(b) PROVE (a \o b)[Len(a) + j] = b[j]
  <2>1. /\ Len(a) + j \in 1 .. Len(a) + Len(b) /\ ~(Len(a) + j <= Len(a))
        /\ Len(a) + j - Len(a) = j
    BY <1>1
  <2> QED
    BY <1>2, <2>1
<1>5. 0 + Len(a) <= Len(a \o b) /\ Len(a) + Len(b) <= Len(a \o b)
  BY <1>1, <1>2
<1> QED
  BY <1>1, <1>2, <1>3, <1>4, <1>5 DEF Piece

\* A short string is saved after its length.
LEMMA StringIs ==
  ASSUME NEW s \in Seq(Nat), Len(s) < 64
  PROVE  LET P == StringBytes(s) IN
         /\ P \in Seq(Nat) /\ Len(s) \in Nat /\ Len(P) = 1 + Len(s) /\ P[1] = Len(s)
         /\ Piece(P, 1, s)
<1> DEFINE a == <<Len(s)>>
<1>1. Len(s) \in Nat
  BY LenProperties
<1>2. StringBytes(s) = a \o s
  BY DEF StringBytes, LengthBytes
<1>3. a \in Seq(Nat) /\ Len(a) = 1 /\ a[1] = Len(s)
  BY <1>1
<1> HIDE DEF a
<1>4. /\ a \o s \in Seq(Nat) /\ Len(a \o s) = 1 + Len(s)
      /\ Piece(a \o s, 0, a) /\ Piece(a \o s, 1, s)
  BY <1>3, JoinPieces
<1>5. (a \o s)[1] = Len(s)
  <2>1. 1 \in 1 .. Len(a) /\ 0 + 1 = 1
    BY <1>3
  <2> QED
    BY <1>3, <1>4, <2>1 DEF Piece
<1> QED
  BY <1>1, <1>2, <1>4, <1>5

\* Zeros are a sequence of numbers.
LEMMA ZerosAre ==
  ASSUME NEW n \in Nat
  PROVE  Zeros(n) \in Seq(Nat) /\ Len(Zeros(n)) = n
BY DEF Zeros

\* The bytes of a metadata entry.
MetaShape(P, name) ==
  /\ P \in Seq(Nat) /\ Len(P) \in Nat /\ Len(P) >= 3
  /\ P[1] = Meta /\ P[2] = 1 /\ P[3] = name
  /\ name = RedisVer => Len(P) = 5 /\ P[4] = 1
  /\ name \in {Ctime, UsedMem} => Len(P) = 8
  /\ name = RedisBits => Len(P) = 5 /\ P[5] = 64
  /\ name = AofBase => Len(P) = 5

\* The bytes of a name of metadata and its value have the shape the code looks for.
LEMMA MetaIs ==
  ASSUME NEW name \in ByteValues
  PROVE  MetaShape(MetaBytes(name), name)
<1> DEFINE n == <<name>>
           s == StringBytes(n)
           v == CASE name = RedisVer -> StringBytes(<<7>>)
                  [] name \in {Ctime, UsedMem} -> <<194, 9, 9, 9, 9>>
                  [] name = RedisBits -> <<192, 64>>
                  [] OTHER -> <<192, 0>>
           m == <<Meta>>
<1>1. /\ n \in Seq(Nat) /\ Len(n) = 1 /\ n[1] = name
      /\ m \in Seq(Nat) /\ Len(m) = 1 /\ m[1] = Meta
  BY DEF ByteValues, Meta
<1>2. s \in Seq(Nat) /\ Len(s) = 2 /\ s[1] = 1 /\ s[2] = name
  <2> HIDE DEF n
  <2>0. Len(n) < 64
    BY <1>1
  <2>1. s \in Seq(Nat) /\ Len(s) = 1 + Len(n) /\ s[1] = Len(n) /\ Piece(s, 1, n)
    BY <1>1, <2>0, StringIs, Zenon
  <2>2. 1 \in 1 .. Len(n) /\ 1 + 1 = 2
    BY <1>1
  <2> QED
    BY <1>1, <2>1, <2>2 DEF Piece
<1>3. /\ v \in Seq(Nat) /\ Len(v) \in Nat
      /\ name = RedisVer => Len(v) = 2 /\ v[1] = 1
      /\ name \in {Ctime, UsedMem} => Len(v) = 5
      /\ name = RedisBits => Len(v) = 2 /\ v[2] = 64
      /\ name = AofBase => Len(v) = 2
  <2> DEFINE seven == <<7>>
             w == StringBytes(seven)
  <2>1. seven \in Seq(Nat) /\ Len(seven) = 1
    OBVIOUS
  <2> HIDE DEF seven
  <2>2. w \in Seq(Nat) /\ Len(w) = 2 /\ w[1] = 1
    <3>1. Len(seven) < 64
      BY <2>1
    <3>2. w \in Seq(Nat) /\ Len(w) = 1 + Len(seven) /\ w[1] = Len(seven)
      BY <2>1, <3>1, StringIs, Zenon
    <3> HIDE DEF w
    <3> QED
      BY <2>1, <3>2
  <2>3. v = CASE name = RedisVer -> w
              [] name \in {Ctime, UsedMem} -> <<194, 9, 9, 9, 9>>
              [] name = RedisBits -> <<192, 64>>
              [] OTHER -> <<192, 0>>
    BY DEF seven
  <2> HIDE DEF w
  <2> QED
    BY <2>2, <2>3 DEF RedisVer, Ctime, UsedMem, RedisBits, AofBase
<1>4. MetaBytes(name) = (m \o s) \o v
  BY DEF MetaBytes
<1> HIDE DEF n, s, v, m
<1>5. /\ m \o s \in Seq(Nat) /\ Len(m \o s) = 3
      /\ Piece(m \o s, 0, m) /\ Piece(m \o s, 1, s)
  <2>1. /\ m \o s \in Seq(Nat) /\ Len(m \o s) = Len(m) + Len(s)
        /\ Piece(m \o s, 0, m) /\ Piece(m \o s, Len(m), s)
    BY <1>1, <1>2, JoinPieces, Zenon
  <2> QED
    BY <1>1, <1>2, <2>1
<1>6. (m \o s)[1] = Meta /\ (m \o s)[2] = 1 /\ (m \o s)[3] = name
  <2>1. /\ 1 \in 1 .. Len(m) /\ 0 + 1 = 1
        /\ 1 \in 1 .. Len(s) /\ 1 + 1 = 2 /\ 2 \in 1 .. Len(s) /\ 1 + 2 = 3
    BY <1>1, <1>2
  <2> QED
    BY <1>1, <1>2, <1>5, <2>1 DEF Piece
<1> DEFINE h == m \o s
           P == h \o v
<1> HIDE DEF h
<1>7. P \in Seq(Nat) /\ Len(P) = 3 + Len(v) /\ Piece(P, 0, h) /\ Piece(P, 3, v)
  <2>1. h \in Seq(Nat) /\ Len(h) = 3
    BY <1>5 DEF h
  <2>2. P \in Seq(Nat) /\ Len(P) = Len(h) + Len(v) /\ Piece(P, 0, h) /\ Piece(P, Len(h), v)
    <3>1. h \in Seq(Nat) /\ v \in Seq(Nat)
      BY <1>3, <2>1
    <3> HIDE DEF v
    <3> QED
      BY <3>1, JoinPieces, ZenonT(120)
  <2> QED
    BY <2>1, <2>2
<1>8. P[1] = Meta /\ P[2] = 1 /\ P[3] = name
  <2>1. \A i \in 1 .. 3 : i \in 1 .. Len(h) /\ 0 + i = i
    BY <1>5 DEF h
  <2> HIDE DEF P
  <2>2. \A i \in 1 .. 3 : P[i] = h[i]
    BY <1>7, <2>1 DEF Piece
  <2>3. \A i \in 1 .. 3 : P[i] = (m \o s)[i]
    BY <2>2 DEF h
  <2>4. P[1] = (m \o s)[1] /\ P[2] = (m \o s)[2] /\ P[3] = (m \o s)[3]
    <3>1. 1 \in 1 .. 3 /\ 2 \in 1 .. 3 /\ 3 \in 1 .. 3
      OBVIOUS
    <3> QED
      BY <2>3, <3>1, Zenon
  <2> QED
    BY <1>6, <2>4, Zenon
<1>9. (name = RedisVer => P[4] = 1) /\ (name = RedisBits => P[5] = 64)
  <2>1. (name = RedisVer => 1 \in 1 .. Len(v) /\ 3 + 1 = 4) /\ (name = RedisBits => 2 \in 1 .. Len(v) /\ 3 + 2 = 5)
    BY <1>3
  <2> HIDE DEF P
  <2> QED
    BY <1>3, <1>7, <2>1 DEF Piece
<1>10. MetaBytes(name) = P
  BY <1>4 DEF h
<1> HIDE DEF P
<1>11. Len(P) \in Nat /\ Len(P) >= 3
  BY <1>3, <1>7
<1>12. /\ name = RedisVer => Len(P) = 5
       /\ name \in {Ctime, UsedMem} => Len(P) = 8
       /\ name = RedisBits => Len(P) = 5
       /\ name = AofBase => Len(P) = 5
  <2> DEFINE k == Len(v)
             l == Len(P)
  <2>1. /\ l = 3 + k /\ k \in Nat
        /\ name = RedisVer => k = 2
        /\ name \in {Ctime, UsedMem} => k = 5
        /\ name = RedisBits => k = 2
        /\ name = AofBase => k = 2
    BY <1>3, <1>7, Zenon
  <2> HIDE DEF k, l
  <2> QED
    BY <2>1 DEF l
<1> QED
  BY <1>7, <1>8, <1>9, <1>10, <1>11, <1>12, Zenon DEF MetaShape

\* The four pieces of three concatenations.
LEMMA FourPieces ==
  ASSUME NEW S, NEW a \in Seq(S), NEW b \in Seq(S), NEW c \in Seq(S), NEW d \in Seq(S)
  PROVE  LET P == ((a \o b) \o c) \o d IN
         /\ P \in Seq(S)
         /\ Len(a) \in Nat /\ Len(b) \in Nat /\ Len(c) \in Nat /\ Len(d) \in Nat
         /\ Len(P) = Len(a) + Len(b) + Len(c) + Len(d)
         /\ Piece(P, 0, a) /\ Piece(P, Len(a), b) /\ Piece(P, Len(a) + Len(b), c)
         /\ Piece(P, Len(a) + Len(b) + Len(c), d)
<1> DEFINE x == a \o b
           y == x \o c
           P == y \o d
<1>1. /\ x \in Seq(S) /\ Len(a) \in Nat /\ Len(b) \in Nat /\ Len(x) = Len(a) + Len(b)
      /\ Piece(x, 0, a) /\ Piece(x, Len(a), b)
  BY JoinPieces, Zenon
<1> HIDE DEF x
<1>2. /\ y \in Seq(S) /\ Len(c) \in Nat /\ Len(y) = Len(x) + Len(c)
      /\ Piece(y, 0, x) /\ Piece(y, Len(x), c)
  BY <1>1, JoinPieces, Zenon
<1> HIDE DEF y
<1>3. /\ P \in Seq(S) /\ Len(d) \in Nat /\ Len(P) = Len(y) + Len(d)
      /\ Piece(P, 0, y) /\ Piece(P, Len(y), d)
  BY <1>2, JoinPieces, Zenon
<1> HIDE DEF P
<1>4. Len(x) \in Nat /\ Len(y) \in Nat /\ Len(P) \in Nat /\ 0 \in Nat
  BY <1>1, <1>2, <1>3, LenProperties
<1>5. ASSUME NEW R, Len(R) \in Nat, NEW n \in Nat, Piece(y, n, R) PROVE Piece(P, n, R)
  <2>1. Piece(P, 0 + n, R)
    BY <1>3, <1>4, <1>5, PieceOfPiece, Zenon
  <2>2. 0 + n = n
    OBVIOUS
  <2> QED
    BY <2>1, <2>2
<1>6. ASSUME NEW R, Len(R) \in Nat, NEW n \in Nat, Piece(x, n, R) PROVE Piece(P, n, R)
  <2>1. Piece(y, 0 + n, R)
    BY <1>2, <1>4, <1>6, PieceOfPiece, Zenon
  <2>2. 0 + n = n
    OBVIOUS
  <2> QED
    BY <1>5, <1>6, <2>1, <2>2
<1>7. Piece(P, 0, a) /\ Piece(P, Len(a), b)
  BY <1>1, <1>4, <1>6, Zenon
<1>8. Piece(P, Len(a) + Len(b), c)
  BY <1>1, <1>2, <1>4, <1>5, Zenon
<1>9. Len(y) = Len(a) + Len(b) + Len(c) /\ Len(P) = Len(a) + Len(b) + Len(c) + Len(d)
  <2>1. Len(x) = Len(a) + Len(b) /\ Len(y) = Len(x) + Len(c) /\ Len(P) = Len(y) + Len(d)
    BY <1>1, <1>2, <1>3
  <2> QED
    BY <2>1, Zenon
<1>10. Piece(P, Len(a) + Len(b) + Len(c), d)
  BY <1>3, <1>9, Zenon
<1>11. P = ((a \o b) \o c) \o d
  BY DEF P, y, x
<1> QED
  BY <1>1, <1>2, <1>3, <1>7, <1>8, <1>9, <1>10, <1>11, Zenon

\* The bytes before an entry's type.
DeadlineLen(e) == CASE e.unit = "ms" -> 9 [] e.unit = "s" -> 5 [] OTHER -> 0

\* The bytes of an entry.
EntryShape(P, e) ==
  LET d == DeadlineLen(e)
      s == e.value.text
  IN /\ P \in Seq(Nat) /\ Len(P) \in Nat /\ d \in Nat /\ Len(s) \in Nat
     /\ Len(P) = d + 4 + Len(s)
     /\ P[1] = (CASE e.unit = "ms" -> ExpiryMs [] e.unit = "s" -> ExpiryS [] OTHER -> 0)
     /\ e.unit # "none" => P[2] = e.deadline
     /\ P[d + 1] = 0 /\ P[d + 2] = 1 /\ P[d + 3] = e.key /\ P[d + 4] = Len(s)
     /\ Piece(P, d + 4, s)

\* So have those of an entry that Short admits.
LEMMA EntryIs ==
  ASSUME NEW e \in Entries, Len(e.value.text) < 64, ~e.value.int
  PROVE  EntryShape(EntryBytes(e), e)
<1> DEFINE s == e.value.text
           n == <<e.key>>
           a == CASE e.unit = "ms" -> <<ExpiryMs, e.deadline>> \o Zeros(7)
                  [] e.unit = "s" -> <<ExpiryS, e.deadline>> \o Zeros(3)
                  [] OTHER -> <<>>
           b == <<0>>
           c == StringBytes(n)
           v == StringBytes(s)
           d == DeadlineLen(e)
<1>0. s \in Seq(ByteValues)
  BY DEF Entries, Values
<1>1. e.key \in ByteValues /\ e.deadline \in ByteValues /\ e.unit \in {"none", "ms", "s"}
  BY DEF Entries
<1>2. EntryBytes(e) = ((a \o b) \o c) \o v
  BY DEF EntryBytes, ValueBytes
<1>3. /\ s \in Seq(Nat) /\ n \in Seq(Nat) /\ Len(n) = 1 /\ n[1] = e.key
      /\ b \in Seq(Nat) /\ Len(b) = 1 /\ b[1] = 0
  <2>1. ByteValues \subseteq Nat
    BY DEF ByteValues
  <2>2. s \in Seq(Nat)
    BY <1>0, <2>1, SeqMonotonic, Zenon
  <2>3. e.key \in Nat
    BY <1>1, <2>1
  <2> HIDE DEF s
  <2> QED
    BY <2>2, <2>3
<1>4. /\ a \in Seq(Nat) /\ d \in Nat /\ Len(a) = d
      /\ e.unit = "ms" => d = 9 /\ a[1] = ExpiryMs /\ a[2] = e.deadline
      /\ e.unit = "s" => d = 5 /\ a[1] = ExpiryS /\ a[2] = e.deadline
      /\ e.unit = "none" => d = 0
  <2>1. ASSUME NEW mark \in Nat, NEW k \in Nat
        PROVE  LET p == <<mark, e.deadline>> \o Zeros(k) IN
               p \in Seq(Nat) /\ Len(p) = k + 2 /\ p[1] = mark /\ p[2] = e.deadline
    <3> DEFINE f == <<mark, e.deadline>>
               z == Zeros(k)
    <3>1. /\ f \in Seq(Nat) /\ Len(f) = 2 /\ f[1] = mark /\ f[2] = e.deadline
          /\ z \in Seq(Nat) /\ Len(z) = k
      <4>1. e.deadline \in Nat
        <5>1. ByteValues \subseteq Nat
          BY DEF ByteValues
        <5> QED
          BY <1>1, <5>1, Zenon
      <4>2. z \in Seq(Nat) /\ Len(z) = k
        BY ZerosAre, Zenon
      <4> HIDE DEF z
      <4>3. f \in Seq(Nat)
        BY <4>1
      <4>4. Len(f) = 2 /\ f[1] = mark /\ f[2] = e.deadline
        OBVIOUS
      <4> QED
        BY <4>2, <4>3, <4>4, Zenon
    <3> HIDE DEF f, z
    <3>2. f \o z \in Seq(Nat) /\ Len(f \o z) = Len(f) + Len(z) /\ Piece(f \o z, 0, f)
      BY <3>1, JoinPieces, Zenon
    <3>3. (f \o z)[1] = f[1] /\ (f \o z)[2] = f[2]
      <4>1. 1 \in 1 .. Len(f) /\ 2 \in 1 .. Len(f) /\ 0 + 1 = 1 /\ 0 + 2 = 2
        BY <3>1
      <4> QED
        BY <3>2, <4>1 DEF Piece
    <3>4. Len(f \o z) = k + 2
      BY <3>1, <3>2
    <3> QED
      BY <3>1, <3>2, <3>3, <3>4, Zenon DEF f, z
  <2>2. CASE e.unit = "ms"
    <3>1. a = <<ExpiryMs, e.deadline>> \o Zeros(7) /\ d = 9
      BY <2>2 DEF DeadlineLen
    <3>2. ExpiryMs \in Nat /\ 7 \in Nat /\ 7 + 2 = 9
      BY DEF ExpiryMs
    <3> HIDE DEF a, d
    <3>3. a \in Seq(Nat) /\ Len(a) = 7 + 2 /\ a[1] = ExpiryMs /\ a[2] = e.deadline
      BY <2>1, <3>1, <3>2, Zenon
    <3> QED
      BY <2>2, <3>1, <3>2, <3>3
  <2>3. CASE e.unit = "s"
    <3>1. a = <<ExpiryS, e.deadline>> \o Zeros(3) /\ d = 5
      BY <2>3 DEF DeadlineLen
    <3>2. ExpiryS \in Nat /\ 3 \in Nat /\ 3 + 2 = 5
      BY DEF ExpiryS
    <3> HIDE DEF a, d
    <3>3. a \in Seq(Nat) /\ Len(a) = 3 + 2 /\ a[1] = ExpiryS /\ a[2] = e.deadline
      BY <2>1, <3>1, <3>2, Zenon
    <3> QED
      BY <2>3, <3>1, <3>2, <3>3
  <2>4. CASE e.unit = "none"
    BY <2>4 DEF DeadlineLen
  <2> QED
    BY <1>1, <2>2, <2>3, <2>4
<1>5. c \in Seq(Nat) /\ Len(c) = 2 /\ c[1] = 1 /\ c[2] = e.key
  <2> HIDE DEF n
  <2>0. Len(n) < 64
    BY <1>3
  <2>1. c \in Seq(Nat) /\ Len(c) = 1 + Len(n) /\ c[1] = Len(n) /\ Piece(c, 1, n)
    BY <1>3, <2>0, StringIs, Zenon
  <2>2. 1 \in 1 .. Len(n) /\ 1 + 1 = 2
    BY <1>3
  <2> QED
    BY <1>3, <2>1, <2>2 DEF Piece
<1>6. v \in Seq(Nat) /\ Len(s) \in Nat /\ Len(v) = 1 + Len(s) /\ v[1] = Len(s) /\ Piece(v, 1, s)
  BY <1>3, StringIs, Zenon
<1> DEFINE P == ((a \o b) \o c) \o v
<1> HIDE DEF a, b, c, v, n, d
<1>7. /\ P \in Seq(Nat)
      /\ Len(a) \in Nat /\ Len(b) \in Nat /\ Len(c) \in Nat /\ Len(v) \in Nat
      /\ Len(P) = Len(a) + Len(b) + Len(c) + Len(v)
      /\ Piece(P, 0, a) /\ Piece(P, Len(a), b) /\ Piece(P, Len(a) + Len(b), c)
      /\ Piece(P, Len(a) + Len(b) + Len(c), v)
  BY <1>3, <1>4, <1>5, <1>6, FourPieces, Zenon
<1> HIDE DEF P, s
<1>8. /\ Len(a) = d /\ Len(a) + Len(b) = d + 1 /\ Len(a) + Len(b) + Len(c) = d + 3
      /\ Len(P) = d + 4 + Len(s) /\ Len(P) \in Nat /\ d + 3 \in Nat /\ d + 3 + 1 = d + 4
  <2>1. Len(a) = d /\ Len(b) = 1 /\ Len(c) = 2 /\ Len(v) = 1 + Len(s) /\ d \in Nat /\ Len(s) \in Nat
    BY <1>3, <1>4, <1>5, <1>6
  <2>2. Len(P) = Len(a) + Len(b) + Len(c) + Len(v)
    BY <1>7
  <2> QED
    BY <2>1, <2>2
<1>9. /\ Piece(P, 0, a) /\ Piece(P, d, b) /\ Piece(P, d + 1, c) /\ Piece(P, d + 3, v)
  BY <1>7, <1>8, Zenon
<1>10. e.unit # "none" => P[1] = a[1] /\ P[2] = a[2]
  <2>1. e.unit # "none" => 1 \in 1 .. Len(a) /\ 2 \in 1 .. Len(a) /\ 0 + 1 = 1 /\ 0 + 2 = 2
    BY <1>1, <1>4
  <2> QED
    BY <1>9, <2>1 DEF Piece
<1>11. P[d + 1] = 0
  <2>1. 1 \in 1 .. Len(b)
    BY <1>3
  <2> QED
    BY <1>3, <1>9, <2>1 DEF Piece
<1>12. P[d + 2] = 1 /\ P[d + 3] = e.key
  <2>1. 1 \in 1 .. Len(c) /\ 2 \in 1 .. Len(c) /\ d + 1 + 1 = d + 2 /\ d + 1 + 2 = d + 3
    BY <1>4, <1>5
  <2>2. P[d + 1 + 1] = c[1] /\ P[d + 1 + 2] = c[2]
    BY <1>9, <2>1, Zenon DEF Piece
  <2> QED
    BY <1>5, <2>1, <2>2
<1>13. P[d + 4] = Len(s)
  <2>1. 1 \in 1 .. Len(v)
    BY <1>6
  <2>2. P[d + 3 + 1] = v[1]
    BY <1>9, <2>1, Zenon DEF Piece
  <2> QED
    BY <1>6, <1>8, <2>2
<1>14. Piece(P, d + 4, s)
  <2>1. Piece(P, d + 3 + 1, s)
    <3>1. 1 \in Nat
      OBVIOUS
    <3> QED
      BY <1>6, <1>7, <1>8, <1>9, <3>1, PieceOfPiece, Zenon
  <2> QED
    BY <1>8, <2>1
<1>15. P[1] = CASE e.unit = "ms" -> ExpiryMs [] e.unit = "s" -> ExpiryS [] OTHER -> 0
  <2>1. e.unit = "none" => P[1] = 0
    BY <1>4, <1>11
  <2> QED
    BY <1>1, <1>4, <1>10, <2>1
<1>16. e.unit # "none" => P[2] = e.deadline
  BY <1>1, <1>4, <1>10
<1>17. EntryShape(P, e) <=>
         /\ P \in Seq(Nat) /\ Len(P) \in Nat /\ d \in Nat /\ Len(s) \in Nat
         /\ Len(P) = d + 4 + Len(s)
         /\ P[1] = (CASE e.unit = "ms" -> ExpiryMs [] e.unit = "s" -> ExpiryS [] OTHER -> 0)
         /\ e.unit # "none" => P[2] = e.deadline
         /\ P[d + 1] = 0 /\ P[d + 2] = 1 /\ P[d + 3] = e.key /\ P[d + 4] = Len(s)
         /\ Piece(P, d + 4, s)
  BY Zenon DEF EntryShape, d, s
<1>18. EntryBytes(e) = P
  BY <1>2 DEF P, s
<1> QED
  BY <1>4, <1>6, <1>7, <1>8, <1>11, <1>12, <1>13, <1>14, <1>15, <1>16, <1>17, <1>18, Zenon

\* The pieces that a file is made of.
MetaPieces(s) == [i \in DOMAIN s.meta |-> MetaBytes(s.meta[i])]
EntryPieces(db) == [i \in DOMAIN db |-> EntryBytes(db[i])]
DatabasePieces(s) == [i \in DOMAIN s.dbs |-> DatabaseBytes(s.dbs[i])]

\* Flattening all pieces is flattening each.
LEMMA FlattenAll ==
  ASSUME NEW n \in Nat, NEW t, t = [i \in 1 .. n |-> t[i]]
  PROVE  FlattenSeq(t) = Flat(t, n)
BY Zenon DEF Flat

\* The bytes of a database.
DatabaseShape(P, db) ==
  LET F == Flat(EntryPieces(db), Len(db)) IN
  /\ P \in Seq(Nat) /\ Len(P) \in Nat /\ Len(db) \in Nat
  /\ F \in Seq(Nat) /\ Len(F) \in Nat
  /\ P[1] = Database /\ P[3] = HashTableInfo /\ P[4] = Len(db)
  /\ Len(P) = 5 + Len(F) /\ Piece(P, 5, F)
  /\ Placed(Nat, EntryPieces(db), Len(db))
  /\ \A k \in 1 .. Len(db) : EntryShape(EntryPieces(db)[k], db[k])

\* So have those of a database: its head, and then its entries.
LEMMA DatabaseIs ==
  ASSUME NEW db \in Seq(Entries), Len(db) < 64,
         \A j \in DOMAIN db : Len(db[j].value.text) < 64 /\ ~db[j].value.int
  PROVE  DatabaseShape(DatabaseBytes(db), db)
<1> DEFINE t == EntryPieces(db)
           n == Len(db)
           F == Flat(t, n)
           counted == {i \in DOMAIN db : db[i].unit # "none"}
           a == <<Database, 0, HashTableInfo>>
           b == LengthBytes(n)
           c == LengthBytes(Cardinality(counted))
<1>1. n \in Nat /\ DOMAIN db = 1 .. n
  BY LenProperties
<1>2. t = [i \in 1 .. n |-> t[i]] /\ \A k \in 1 .. n : t[k] = EntryBytes(db[k])
  BY <1>1 DEF EntryPieces
<1>3. ASSUME NEW k \in 1 .. n PROVE EntryShape(t[k], db[k])
  <2>1. /\ db[k] \in Entries /\ Len(db[k].value.text) < 64 /\ ~db[k].value.int
        /\ t[k] = EntryBytes(db[k])
    BY <1>1, <1>2, ElementOfSeq, Zenon
  <2> HIDE DEF t
  <2> QED
    BY <2>1, EntryIs, Zenon
<1> HIDE DEF t
<1>4. \A k \in 1 .. n : t[k] \in Seq(Nat)
  BY <1>3, Zenon DEF EntryShape
<1>5. Placed(Nat, t, n)
  BY <1>1, <1>4, FlatPlaces, Zenon
<1>6. F \in Seq(Nat) /\ Len(F) \in Nat
  <2>1. n \in 0 .. n
    BY <1>1
  <2> QED
    BY <1>5, <2>1, Zenon DEF Placed
<1>7. a \in Seq(Nat) /\ Len(a) = 3 /\ a[1] = Database /\ a[3] = HashTableInfo
  BY DEF Database, HashTableInfo
<1>8. b \in Seq(Nat) /\ Len(b) = 1 /\ b[1] = n
  <2> HIDE DEF n
  <2> QED
    BY <1>1 DEF LengthBytes, n
<1>9. c \in Seq(Nat) /\ Len(c) = 1
  <2>1. IsFiniteSet(1 .. n) /\ Cardinality(1 .. n) < 64
    <3>1. IsFiniteSet(1 .. n) /\ Cardinality(1 .. n) = IF 1 > n THEN 0 ELSE n - 1 + 1
      <4>1. 1 \in Int /\ n \in Int
        BY <1>1
      <4> HIDE DEF n
      <4> QED
        BY <4>1, FS_Interval, Zenon
    <3> QED
      BY <1>1, <3>1
  <2>2. counted \in SUBSET (1 .. n)
    BY <1>1
  <2> HIDE DEF counted
  <2>3. /\ Cardinality(counted) \in Nat /\ Cardinality(1 .. n) \in Nat
        /\ Cardinality(counted) <= Cardinality(1 .. n)
    BY <2>1, <2>2, FS_Subset, FS_CardinalityType, Zenon
  <2>4. Cardinality(counted) \in Nat /\ Cardinality(counted) < 64
    <3> HIDE DEF n
    <3> QED
      BY <2>1, <2>3
  <2> QED
    BY <2>4 DEF LengthBytes
<1>10. DatabaseBytes(db) = ((a \o b) \o c) \o F
  <2>1. FlattenSeq(t) = F
    BY <1>1, <1>2, FlattenAll, Zenon
  <2>2. DatabaseBytes(db) = ((a \o b) \o c) \o FlattenSeq(t)
    BY DEF DatabaseBytes, t, EntryPieces
  <2> QED
    BY <2>1, <2>2, Zenon
<1> DEFINE P == ((a \o b) \o c) \o F
<1> HIDE DEF a, b, c, F, n
<1>11. /\ P \in Seq(Nat)
       /\ Len(a) \in Nat /\ Len(b) \in Nat /\ Len(c) \in Nat /\ Len(F) \in Nat
       /\ Len(P) = Len(a) + Len(b) + Len(c) + Len(F)
       /\ Piece(P, 0, a) /\ Piece(P, Len(a), b) /\ Piece(P, Len(a) + Len(b), c)
       /\ Piece(P, Len(a) + Len(b) + Len(c), F)
  BY <1>6, <1>7, <1>8, <1>9, FourPieces, Zenon
<1> HIDE DEF P
<1>12. Len(a) + Len(b) + Len(c) = 5 /\ Len(a) = 3
  BY <1>7, <1>8, <1>9
<1>13. Len(P) = 5 + Len(F) /\ Len(P) \in Nat /\ Piece(P, 5, F)
  <2>1. Len(P) = 5 + Len(F) /\ Piece(P, 5, F)
    BY <1>11, <1>12, Zenon
  <2> QED
    BY <1>6, <2>1
<1>14. P[1] = Database /\ P[3] = HashTableInfo
  <2>1. 1 \in 1 .. Len(a) /\ 3 \in 1 .. Len(a) /\ 0 + 1 = 1 /\ 0 + 3 = 3
    BY <1>7
  <2>2. P[0 + 1] = a[1] /\ P[0 + 3] = a[3]
    BY <1>11, <2>1, Zenon DEF Piece
  <2> QED
    BY <1>7, <2>1, <2>2, Zenon
<1>15. P[4] = n
  <2>1. 1 \in 1 .. Len(b) /\ 3 + 1 = 4
    BY <1>8
  <2>2. P[Len(a) + 1] = b[1]
    BY <1>11, <2>1, Zenon DEF Piece
  <2> QED
    BY <1>8, <1>12, <2>1, <2>2, Zenon
<1>16. DatabaseBytes(db) = P
  BY <1>10 DEF P
<1> QED
  BY <1>1, <1>3, <1>5, <1>6, <1>11, <1>13, <1>14, <1>15, <1>16, Zenon DEF DatabaseShape, t, n, F

\* A flattened sequence has each of its pieces.
LEMMA PlacedPiece ==
  ASSUME NEW B, NEW t, NEW m \in Nat, Placed(B, t, m), NEW k \in 0 .. m - 1, Len(t[k + 1]) \in Nat
  PROVE  Piece(Flat(t, m), Len(Flat(t, k)), t[k + 1])
<1>1. k \in 0 .. m /\ k + 1 \in 0 .. m
  OBVIOUS
<1>2. /\ Len(Flat(t, k)) \in Nat /\ Len(Flat(t, k + 1)) \in Nat /\ Len(Flat(t, m)) \in Nat
      /\ Len(Flat(t, k + 1)) <= Len(Flat(t, m))
      /\ Len(Flat(t, k + 1)) = Len(Flat(t, k)) + Len(t[k + 1])
      /\ \A j \in 1 .. Len(t[k + 1]) : Flat(t, m)[Len(Flat(t, k)) + j] = t[k + 1][j]
  <2>1. m \in 0 .. m
    OBVIOUS
  <2> QED
    BY <1>1, <2>1, Zenon DEF Placed
<1>3. Len(Flat(t, k)) + Len(t[k + 1]) <= Len(Flat(t, m))
  BY <1>2, Zenon
<1> QED
  BY <1>2, <1>3, Zenon DEF Piece

\* Where the metadata, and the databases, begin.
MetaAt(s, k) == 9 + Len(Flat(MetaPieces(s), k))
Start(s) == MetaAt(s, Len(s.meta))

\* Where the entries of the first database begin.
EntryAt(s, k) == Start(s) + 5 + Len(Flat(EntryPieces(s.dbs[1]), k))

MetaLayout(s, T) ==
  /\ Len(s.meta) \in Nat /\ MetaAt(s, 0) = 9
  /\ Start(s) = Len(BeforeDatabases(s)) /\ Start(s) \in Nat /\ Start(s) >= 9
  /\ \A k \in 0 .. Len(s.meta) : MetaAt(s, k) \in Nat /\ MetaAt(s, k) <= Start(s)
  /\ \A k \in 0 .. Len(s.meta) - 1 :
       LET P == MetaBytes(s.meta[k + 1]) IN
       /\ MetaShape(P, s.meta[k + 1]) /\ Piece(T, MetaAt(s, k), P)
       /\ MetaAt(s, k + 1) = MetaAt(s, k) + Len(P)

EntryLayout(s, T) ==
  LET db == s.dbs[1] IN
  /\ Len(db) \in Nat
  /\ T[Start(s) + 1] = Database /\ T[Start(s) + 3] = HashTableInfo /\ T[Start(s) + 4] = Len(db)
  /\ EntryAt(s, 0) = Start(s) + 5
  /\ \A k \in 0 .. Len(db) : EntryAt(s, k) \in Nat /\ EntryAt(s, k) <= EntryAt(s, Len(db))
  /\ \A k \in 0 .. Len(db) - 1 :
       LET P == EntryBytes(db[k + 1]) IN
       /\ EntryShape(P, db[k + 1]) /\ Piece(T, EntryAt(s, k), P)
       /\ EntryAt(s, k + 1) = EntryAt(s, k) + Len(P)
  /\ EntryAt(s, Len(db)) + 9 <= Len(T)
  /\ T[EntryAt(s, Len(db)) + 1] = IF Len(s.dbs) = 1 THEN Eof ELSE Database

Layout(s, T) ==
  /\ T \in Seq(Nat) /\ Len(T) \in Nat /\ Len(s.dbs) \in Nat
  /\ MetaLayout(s, T) /\ Start(s) + 9 <= Len(T)
  /\ s.dbs = <<>> => T[Start(s) + 1] = Eof
  /\ s.dbs # <<>> => Len(s.dbs) >= 1 /\ EntryLayout(s, T)

\* The bytes before the databases.
LEMMA BeforeIs ==
  ASSUME NEW s \in Snapshots
  PROVE  /\ BeforeDatabases(s) \in Seq(Nat) /\ MetaLayout(s, BeforeDatabases(s))
<1> DEFINE t == MetaPieces(s)
           n == Len(s.meta)
           M == Flat(t, n)
           h == Header
           T == h \o M
<1>1. s.meta \in Seq(ByteValues)
  BY SnapshotsAssumption
<1>2. n \in Nat /\ DOMAIN s.meta = 1 .. n
  BY <1>1, LenProperties
<1>3. t = [i \in 1 .. n |-> t[i]] /\ \A k \in 1 .. n : t[k] = MetaBytes(s.meta[k])
  BY <1>2 DEF MetaPieces
<1>4. ASSUME NEW k \in 1 .. n PROVE MetaShape(t[k], s.meta[k])
  <2>1. s.meta[k] \in ByteValues /\ t[k] = MetaBytes(s.meta[k])
    BY <1>1, <1>3, ElementOfSeq, Zenon
  <2> HIDE DEF t
  <2> QED
    BY <2>1, MetaIs, Zenon
<1> HIDE DEF t
<1>5. \A k \in 1 .. n : t[k] \in Seq(Nat) /\ Len(t[k]) \in Nat
  BY <1>4, Zenon DEF MetaShape
<1>6. Placed(Nat, t, n)
  BY <1>2, <1>5, FlatPlaces, Zenon
<1>7. M \in Seq(Nat)
  <2>1. n \in 0 .. n
    BY <1>2
  <2> QED
    BY <1>6, <2>1, Zenon DEF Placed
<1>8. h \in Seq(Nat) /\ Len(h) = 9
  BY DEF Header
<1>9. BeforeDatabases(s) = T
  <2>1. FlattenSeq(t) = M
    BY <1>2, <1>3, FlattenAll, Zenon
  <2>2. BeforeDatabases(s) = h \o FlattenSeq(t)
    BY DEF BeforeDatabases, t, MetaPieces
  <2> QED
    BY <2>1, <2>2, Zenon
<1> HIDE DEF h
<1>10. T \in Seq(Nat) /\ Len(M) \in Nat /\ Len(T) = 9 + Len(M) /\ Piece(T, 9, M)
  <2>1. T \in Seq(Nat) /\ Len(M) \in Nat /\ Len(T) = Len(h) + Len(M) /\ Piece(T, Len(h), M)
    BY <1>7, <1>8, JoinPieces, Zenon
  <2> QED
    BY <1>8, <2>1, Zenon
<1>11. MetaAt(s, 0) = 9
  <2>1. Flat(t, 0) = <<>> /\ Len(<<>>) = 0
    BY <1>6 DEF Placed
  <2> QED
    BY <2>1 DEF MetaAt, t
<1>12. ASSUME NEW k \in 0 .. n
       PROVE  MetaAt(s, k) \in Nat /\ MetaAt(s, k) <= Start(s) /\ Len(Flat(t, k)) \in Nat
  <2>1. Len(Flat(t, k)) \in Nat /\ Len(Flat(t, k)) <= Len(Flat(t, n))
    BY <1>6, Zenon DEF Placed
  <2> QED
    BY <1>10, <2>1 DEF MetaAt, Start, t, M, n
<1>13. ASSUME NEW k \in 0 .. n - 1
       PROVE  LET P == MetaBytes(s.meta[k + 1]) IN
              /\ MetaShape(P, s.meta[k + 1]) /\ Piece(T, MetaAt(s, k), P)
              /\ MetaAt(s, k + 1) = MetaAt(s, k) + Len(P)
  <2>1. k \in 0 .. n /\ k + 1 \in 1 .. n
    BY <1>2
  <2>2. MetaShape(t[k + 1], s.meta[k + 1]) /\ Len(t[k + 1]) \in Nat /\ t[k + 1] = MetaBytes(s.meta[k + 1])
    BY <1>3, <1>4, <1>5, <2>1, Zenon
  <2>3. Piece(M, Len(Flat(t, k)), t[k + 1])
    BY <1>2, <1>6, <2>2, PlacedPiece, Zenon
  <2>4. Piece(T, 9 + Len(Flat(t, k)), t[k + 1])
    <3>1. 9 \in Nat /\ Len(T) \in Nat /\ Len(Flat(t, k)) \in Nat
      BY <1>10, <1>12, <2>1
    <3> HIDE DEF T, M
    <3> QED
      BY <1>10, <2>2, <2>3, <3>1, PieceOfPiece, Zenon
  <2>5. Len(Flat(t, k + 1)) = Len(Flat(t, k)) + Len(t[k + 1])
    BY <1>6, Zenon DEF Placed
  <2>6. MetaAt(s, k + 1) = MetaAt(s, k) + Len(t[k + 1])
    <3>1. Len(Flat(t, k)) \in Nat
      BY <1>12, <2>1
    <3> QED
      BY <2>2, <2>5, <3>1 DEF MetaAt, t
  <2>7. MetaAt(s, k) = 9 + Len(Flat(t, k))
    BY DEF MetaAt, t
  <2> QED
    BY <2>2, <2>4, <2>6, <2>7, Zenon
<1>14. Start(s) = 9 + Len(M)
  BY DEF Start, MetaAt, M, t, n
<1>15. Start(s) \in Nat /\ Start(s) >= 9 /\ Start(s) = Len(T)
  <2> HIDE DEF M
  <2> QED
    BY <1>10, <1>14
<1> HIDE DEF T
<1>16. MetaLayout(s, T)
  <2>1. Start(s) = Len(BeforeDatabases(s))
    BY <1>9, <1>15
  <2> QED
    BY <1>2, <1>11, <1>12, <1>13, <1>15, <2>1, Zenon DEF MetaLayout, n
<1> QED
  BY <1>9, <1>10, <1>16, Zenon DEF T

\* What is in the bytes before the databases is in the whole.
LEMMA MetaInWhole ==
  ASSUME NEW s, NEW U, NEW T, Len(U) \in Nat, Len(T) \in Nat, MetaLayout(s, U), Piece(T, 0, U)
  PROVE  MetaLayout(s, T)
<1>1. ASSUME NEW k \in 0 .. Len(s.meta) - 1
      PROVE  Piece(T, MetaAt(s, k), MetaBytes(s.meta[k + 1]))
  <2> DEFINE P == MetaBytes(s.meta[k + 1])
             q == MetaAt(s, k)
  <2>1. /\ MetaShape(P, s.meta[k + 1]) /\ Piece(U, q, P)
    BY Zenon DEF MetaLayout
  <2>2. Len(P) \in Nat
    BY <2>1, Zenon DEF MetaShape
  <2>3. q \in Nat
    <3>1. k \in 0 .. Len(s.meta)
      BY DEF MetaLayout
    <3> QED
      BY <3>1, Zenon DEF MetaLayout
  <2> HIDE DEF P, q
  <2>4. Piece(T, 0 + q, P)
    <3>1. 0 \in Nat
      OBVIOUS
    <3> QED
      BY <2>1, <2>2, <2>3, <3>1, PieceOfPiece, Zenon
  <2>5. 0 + q = q
    BY <2>3
  <2> QED
    BY <2>4, <2>5 DEF P, q
<1> QED
  BY <1>1, Zenon DEF MetaLayout

\* The bytes of the first database, wherever they are.
LEMMA EntriesPlaces ==
  ASSUME NEW s, NEW T, Len(T) \in Nat, Start(s) \in Nat, DatabaseShape(DatabaseBytes(s.dbs[1]), s.dbs[1]),
         Piece(T, Start(s), DatabaseBytes(s.dbs[1])),
         Start(s) + Len(DatabaseBytes(s.dbs[1])) + 9 <= Len(T),
         T[Start(s) + Len(DatabaseBytes(s.dbs[1])) + 1] = IF Len(s.dbs) = 1 THEN Eof ELSE Database,
         \A k \in 1 .. Len(s.dbs[1]) : EntryPieces(s.dbs[1])[k] = EntryBytes(s.dbs[1][k])
  PROVE  EntryLayout(s, T)
<1> DEFINE db == s.dbs[1]
           P == DatabaseBytes(db)
           t == EntryPieces(db)
           n == Len(db)
           F == Flat(t, n)
           b == Start(s)
<1>1. /\ Len(P) \in Nat /\ n \in Nat /\ Len(F) \in Nat
      /\ P[1] = Database /\ P[3] = HashTableInfo /\ P[4] = n
      /\ Len(P) = 5 + Len(F) /\ Piece(P, 5, F) /\ Placed(Nat, t, n)
      /\ \A k \in 1 .. n : EntryShape(t[k], db[k])
  BY Zenon DEF DatabaseShape
<1>2. b \in Nat /\ Piece(T, b, P)
  OBVIOUS
<1>3. EntryAt(s, 0) = b + 5
  <2>1. Flat(t, 0) = <<>> /\ Len(<<>>) = 0
    BY <1>1 DEF Placed
  <2> HIDE DEF b
  <2> QED
    BY <1>2, <2>1 DEF EntryAt, b
<1>4. ASSUME NEW k \in 0 .. n
      PROVE  /\ EntryAt(s, k) = b + 5 + Len(Flat(t, k)) /\ Len(Flat(t, k)) \in Nat
             /\ EntryAt(s, k) \in Nat /\ EntryAt(s, k) <= EntryAt(s, n)
  <2>1. Len(Flat(t, k)) \in Nat /\ Len(Flat(t, k)) <= Len(Flat(t, n))
    BY <1>1, Zenon DEF Placed
  <2>2. EntryAt(s, k) = b + 5 + Len(Flat(t, k)) /\ EntryAt(s, n) = b + 5 + Len(F)
    BY DEF EntryAt
  <2> HIDE DEF b, t, n
  <2> QED
    BY <1>1, <1>2, <2>1, <2>2
<1>5. EntryAt(s, n) = b + Len(P)
  <2>1. EntryAt(s, n) = b + 5 + Len(F)
    BY DEF EntryAt
  <2> HIDE DEF b, P, F
  <2> QED
    BY <1>1, <1>2, <2>1
<1>6. T[b + 1] = Database /\ T[b + 3] = HashTableInfo /\ T[b + 4] = n
  <2>1. 1 \in 1 .. Len(P) /\ 3 \in 1 .. Len(P) /\ 4 \in 1 .. Len(P)
    <3> HIDE DEF P, F
    <3> QED
      BY <1>1
  <2>2. T[b + 1] = P[1] /\ T[b + 3] = P[3] /\ T[b + 4] = P[4]
    BY <1>2, <2>1, Zenon DEF Piece
  <2> QED
    BY <1>1, <2>2, Zenon
<1>7. Piece(T, b + 5, F)
  <2>1. 5 \in Nat
    OBVIOUS
  <2> HIDE DEF b, P, F
  <2> QED
    BY <1>1, <1>2, <2>1, PieceOfPiece, Zenon
<1>8. ASSUME NEW k \in 0 .. n - 1
      PROVE  LET R == EntryBytes(db[k + 1]) IN
             /\ EntryShape(R, db[k + 1]) /\ Piece(T, EntryAt(s, k), R)
             /\ EntryAt(s, k + 1) = EntryAt(s, k) + Len(R)
  <2> DEFINE R == t[k + 1]
  <2>1. k \in 0 .. n /\ k + 1 \in 1 .. n /\ k + 1 \in 0 .. n
    BY <1>1, SMTT(60)
  <2>2. EntryShape(R, db[k + 1]) /\ R = EntryBytes(db[k + 1])
    BY <1>1, <2>1, Zenon
  <2>3. Len(R) \in Nat
    BY <2>2, Zenon DEF EntryShape
  <2> HIDE DEF R, t, n, db, b, P
  <2>4. Piece(F, Len(Flat(t, k)), R)
    BY <1>1, <2>3, PlacedPiece, Zenon DEF R
  <2>5. Piece(T, b + 5 + Len(Flat(t, k)), R)
    <3>1. b + 5 \in Nat /\ Len(Flat(t, k)) \in Nat
      BY <1>2, <1>4, <2>1
    <3> HIDE DEF F
    <3> QED
      BY <1>1, <1>7, <2>3, <2>4, <3>1, PieceOfPiece, Zenon
  <2>6. Len(Flat(t, k + 1)) = Len(Flat(t, k)) + Len(R)
    BY <1>1, Zenon DEF Placed, R
  <2>7. EntryAt(s, k + 1) = EntryAt(s, k) + Len(R)
    <3>1. /\ EntryAt(s, k) = b + 5 + Len(Flat(t, k)) /\ Len(Flat(t, k)) \in Nat
          /\ EntryAt(s, k + 1) = b + 5 + Len(Flat(t, k + 1))
      BY <1>4, <2>1
    <3> QED
      BY <1>2, <2>3, <2>6, <3>1, SMTT(60)
  <2>8. Piece(T, EntryAt(s, k), R)
    BY <1>4, <2>1, <2>5, Zenon
  <2> QED
    BY <2>2, <2>7, <2>8, Zenon
<1>9. /\ EntryAt(s, n) + 9 <= Len(T)
      /\ T[EntryAt(s, n) + 1] = IF Len(s.dbs) = 1 THEN Eof ELSE Database
  BY <1>5, Zenon
<1> QED
  BY <1>1, <1>3, <1>4, <1>6, <1>8, <1>9, Zenon DEF EntryLayout

\* Where everything is in the whole file.
LEMMA SavedIs ==
  ASSUME NEW s \in Snapshots, Short(s)
  PROVE  Layout(s, Saved(s))
<1> DEFINE t == DatabasePieces(s)
           n == Len(s.dbs)
           D == Flat(t, n)
           U == BeforeDatabases(s)
           m == <<Eof>>
           z == Zeros(8)
           T == ((U \o D) \o m) \o z
           b == Start(s)
<1>1. s.dbs \in Seq(Seq(Entries))
  BY SnapshotsAssumption
<1>2. n \in Nat /\ DOMAIN s.dbs = 1 .. n
  BY <1>1, LenProperties
<1>3. t = [i \in 1 .. n |-> t[i]] /\ \A k \in 1 .. n : t[k] = DatabaseBytes(s.dbs[k])
  BY <1>2 DEF DatabasePieces
<1>4. ASSUME NEW k \in 1 .. n PROVE DatabaseShape(t[k], s.dbs[k]) /\ t[k] = DatabaseBytes(s.dbs[k])
  <2>1. s.dbs[k] \in Seq(Entries) /\ t[k] = DatabaseBytes(s.dbs[k])
    BY <1>1, <1>3, ElementOfSeq, Zenon
  <2>2. /\ Len(s.dbs[k]) < 64
        /\ \A j \in DOMAIN s.dbs[k] : Len(s.dbs[k][j].value.text) < 64 /\ ~s.dbs[k][j].value.int
    BY <1>2, Zenon DEF Short
  <2> HIDE DEF t
  <2> QED
    BY <2>1, <2>2, DatabaseIs, Zenon
<1> HIDE DEF t
<1>5. \A k \in 1 .. n : t[k] \in Seq(Nat) /\ Len(t[k]) \in Nat
  BY <1>4, Zenon DEF DatabaseShape
<1>6. Placed(Nat, t, n)
  BY <1>2, <1>5, FlatPlaces, Zenon
<1>7. D \in Seq(Nat)
  <2>1. n \in 0 .. n
    BY <1>2
  <2> QED
    BY <1>6, <2>1, Zenon DEF Placed
<1>8. m \in Seq(Nat) /\ Len(m) = 1 /\ m[1] = Eof
  BY DEF Eof
<1>9. z \in Seq(Nat) /\ Len(z) = 8
  BY ZerosAre
<1>10. U \in Seq(Nat) /\ MetaLayout(s, U) /\ Len(U) = b /\ b \in Nat
  <2>1. U \in Seq(Nat) /\ MetaLayout(s, U)
    BY BeforeIs, Zenon
  <2>2. b = Len(BeforeDatabases(s)) /\ b \in Nat
    BY <2>1 DEF MetaLayout
  <2> QED
    BY <2>1, <2>2
<1>11. Saved(s) = T
  <2>1. FlattenSeq(t) = D
    BY <1>2, <1>3, FlattenAll, Zenon
  <2>2. Saved(s) = ((U \o FlattenSeq(t)) \o m) \o z
    BY DEF Saved, t, DatabasePieces
  <2> QED
    BY <2>1, <2>2, Zenon
<1> HIDE DEF m, z, D, U
<1>12. /\ T \in Seq(Nat)
       /\ Len(D) \in Nat /\ Len(T) = Len(U) + Len(D) + Len(m) + Len(z)
       /\ Piece(T, 0, U) /\ Piece(T, Len(U), D) /\ Piece(T, Len(U) + Len(D), m)
  <2>1. U \in Seq(Nat) /\ D \in Seq(Nat) /\ m \in Seq(Nat) /\ z \in Seq(Nat)
    BY <1>7, <1>8, <1>9, <1>10
  <2>2. LET P == ((U \o D) \o m) \o z IN
        /\ P \in Seq(Nat)
        /\ Len(U) \in Nat /\ Len(D) \in Nat /\ Len(m) \in Nat /\ Len(z) \in Nat
        /\ Len(P) = Len(U) + Len(D) + Len(m) + Len(z)
        /\ Piece(P, 0, U) /\ Piece(P, Len(U), D) /\ Piece(P, Len(U) + Len(D), m)
        /\ Piece(P, Len(U) + Len(D) + Len(m), z)
    BY <2>1, FourPieces, Zenon
  <2> QED
    BY <2>2, Zenon
<1> HIDE DEF T, b, n
<1>13. Len(T) = b + Len(D) + 9 /\ Len(T) \in Nat /\ b + 9 <= Len(T)
  <2>1. Len(T) = Len(U) + Len(D) + Len(m) + Len(z) /\ Len(U) = b /\ b \in Nat /\ Len(D) \in Nat
    BY <1>10, <1>12
  <2>2. Len(m) = 1 /\ Len(z) = 8
    BY <1>8, <1>9
  <2> QED
    BY <2>1, <2>2
<1>14. Piece(T, b, D) /\ Piece(T, b + Len(D), m)
  BY <1>10, <1>12, Zenon
<1>15. T[b + Len(D) + 1] = Eof
  <2>1. 1 \in 1 .. Len(m)
    BY <1>8
  <2> QED
    BY <1>8, <1>14, <2>1, Zenon DEF Piece
<1>16. MetaLayout(s, T)
  BY <1>10, <1>12, <1>13, MetaInWhole, Zenon
<1>17. ASSUME s.dbs = <<>> PROVE T[b + 1] = Eof
  <2>1. n = 0
    BY <1>17 DEF n
  <2>2. Flat(t, 0) = <<>> /\ Len(<<>>) = 0
    BY <1>6 DEF Placed
  <2>3. Len(D) = 0
    BY <2>1, <2>2, Zenon DEF D
  <2>4. b + Len(D) + 1 = b + 1
    BY <1>10, <2>3
  <2> QED
    BY <1>15, <2>4
<1>18. ASSUME s.dbs # <<>> PROVE n >= 1 /\ EntryLayout(s, T)
  <2> DEFINE P == DatabaseBytes(s.dbs[1])
  <2>1. n >= 1
    <3>1. n \in Nat \ {0}
      BY <1>1, <1>18, EmptySeq, Zenon DEF n
    <3> QED
      BY <3>1
  <2>2. DatabaseShape(P, s.dbs[1]) /\ t[1] = P /\ Len(P) \in Nat
    <3>1. 1 \in 1 .. n
      BY <1>2, <2>1
    <3> QED
      BY <1>4, <1>5, <3>1, Zenon
  <2> HIDE DEF P
  <2>3. 0 \in 0 .. n - 1 /\ 0 + 1 = 1 /\ 0 \in 0 .. n /\ 1 \in 0 .. n
    BY <1>2, <2>1
  <2>4. Len(Flat(t, 0)) = 0 /\ Len(Flat(t, 1)) = Len(P)
    <3>1. Flat(t, 0) = <<>> /\ Len(<<>>) = 0
      BY <1>6 DEF Placed
    <3>2. Len(Flat(t, 0 + 1)) = Len(Flat(t, 0)) + Len(t[0 + 1])
      BY <1>6, <2>3, Zenon DEF Placed
    <3>3. Len(Flat(t, 0)) = 0
      BY <3>1, Zenon
    <3>4. Len(Flat(t, 1)) = 0 + Len(P)
      BY <2>2, <2>3, <3>2, <3>3, Zenon
    <3> QED
      BY <2>2, <3>3, <3>4
  <2>5. Piece(T, b, P)
    <3>1. Piece(D, Len(Flat(t, 0)), t[0 + 1])
      BY <1>2, <1>6, <2>2, <2>3, PlacedPiece, Zenon DEF D
    <3>2. Piece(D, 0, P)
      BY <2>2, <2>3, <2>4, <3>1, Zenon
    <3>3. Piece(T, b + 0, P)
      <4>1. 0 \in Nat
        OBVIOUS
      <4> QED
        BY <1>10, <1>12, <1>13, <1>14, <2>2, <3>2, <4>1, PieceOfPiece, Zenon
    <3>4. b + 0 = b
      BY <1>10
    <3> QED
      BY <3>3, <3>4
  <2>6. /\ Len(P) <= Len(D)
        /\ T[b + Len(P) + 1] = IF n = 1 THEN Eof ELSE Database
    <3>1. CASE n = 1
      <4>1. Len(D) = Len(P)
        BY <2>4, <3>1, Zenon DEF D
      <4> QED
        BY <1>15, <2>2, <3>1, <4>1
    <3>2. CASE n # 1
      <4>1. 1 \in 0 .. n - 1 /\ 1 + 1 = 2 /\ 2 \in 1 .. n
        BY <1>2, <2>1, <3>2
      <4> DEFINE Q == t[2]
      <4>2. Len(Q) \in Nat /\ Len(Q) >= 1 /\ Q[1] = Database
        <5>1. Len(Q) \in Nat /\ Len(Q) = 5 + Len(Flat(EntryPieces(s.dbs[2]), Len(s.dbs[2]))) /\ Q[1] = Database
              /\ Len(Flat(EntryPieces(s.dbs[2]), Len(s.dbs[2]))) \in Nat
          BY <1>4, <4>1, Zenon DEF DatabaseShape
        <5> QED
          BY <5>1
      <4>3. Piece(D, Len(P), Q)
        <5>1. Piece(D, Len(Flat(t, 1)), t[1 + 1])
          BY <1>2, <1>5, <1>6, <4>1, PlacedPiece, Zenon DEF D
        <5> QED
          BY <2>4, <4>1, <5>1, Zenon
      <4> HIDE DEF Q
      <4>4. Piece(T, b + Len(P), Q)
        BY <1>10, <1>12, <1>13, <1>14, <2>2, <4>2, <4>3, PieceOfPiece, Zenon
      <4>5. T[b + Len(P) + 1] = Q[1]
        <5>1. 1 \in 1 .. Len(Q)
          BY <4>2
        <5> QED
          BY <4>4, <5>1, Zenon DEF Piece
      <4>6. Len(P) <= Len(D)
        <5>1. Len(P) + Len(Q) <= Len(D)
          BY <4>3 DEF Piece
        <5> QED
          BY <1>12, <2>2, <4>2, <5>1
      <4> QED
        BY <3>2, <4>2, <4>5, <4>6, Zenon
    <3> QED
      BY <3>1, <3>2, Zenon
  <2>7. b + Len(P) + 9 <= Len(T)
    BY <1>10, <1>12, <1>13, <2>2, <2>6
  <2>8. \A k \in 1 .. Len(s.dbs[1]) : EntryPieces(s.dbs[1])[k] = EntryBytes(s.dbs[1][k])
    <3>1. s.dbs[1] \in Seq(Entries)
      <4>1. 1 \in 1 .. n
        BY <1>2, <2>1
      <4> QED
        BY <1>1, <4>1, ElementOfSeq, Zenon DEF n
    <3>2. DOMAIN s.dbs[1] = 1 .. Len(s.dbs[1])
      BY <3>1, LenProperties, Zenon
    <3> QED
      BY <3>2, Zenon DEF EntryPieces
  <2>9. EntryLayout(s, T)
    BY <1>10, <1>13, <2>2, <2>5, <2>6, <2>7, <2>8, EntriesPlaces, Zenon DEF P, b, n
  <2> QED
    BY <2>1, <2>9
<1> QED
  BY <1>2, <1>11, <1>12, <1>13, <1>16, <1>17, <1>18, Zenon DEF Layout, b, n

-----------------------------------------------------------------------------
(* The reader *)

\* A reader is inside of the file, and a file that fits into the buffer is in it.
Reader(rd) ==
  /\ rd \in [ok : BOOLEAN, pos : Nat, hi : Nat]
  /\ rd.pos <= rd.hi /\ rd.hi <= Len(file)
  /\ Len(file) <= BufSize => rd.hi = Len(file)

\* The fields of a reader.
LEMMA ReaderWith ==
  ASSUME NEW o \in BOOLEAN, NEW p \in Nat, NEW h \in Nat, NEW x, x = [ok |-> o, pos |-> p, hi |-> h],
         p <= h, h <= Len(file), Len(file) <= BufSize => h = Len(file)
  PROVE  Reader(x) /\ x.ok = o /\ x.pos = p
BY DEF Reader

\* An error is returned by a reader.
LEMMA FailedIs ==
  ASSUME NEW rd, Reader(rd)
  PROVE  Reader(Failed(rd)) /\ ~Failed(rd).ok
BY DEF Reader, Failed

\* Filling the buffer moves nothing.
LEMMA FilledIs ==
  ASSUME NEW rd, Reader(rd), Len(file) \in Nat, NEW n \in Nat
  PROVE  Reader(Filled(rd, n)) /\ Filled(rd, n).ok = rd.ok /\ Filled(rd, n).pos = rd.pos
<1> DEFINE h == Smaller(rd.pos + BufSize, Len(file))
<1>1. /\ h \in Nat /\ rd.pos <= h /\ h <= Len(file)
      /\ Len(file) <= BufSize => h = Len(file)
  BY BufSizeAssumption DEF Reader, Smaller
<1>2. Filled(rd, n) = IF rd.hi - rd.pos >= n THEN rd ELSE [rd EXCEPT !.hi = h]
  BY DEF Filled
<1> HIDE DEF h
<1> QED
  BY <1>1, <1>2 DEF Reader

\* ReadByte succeeds exactly if there is a byte, and moves by one.
LEMMA ReadByteIs ==
  ASSUME NEW rd, Reader(rd), Len(file) \in Nat
  PROVE  LET x == ReadByte(rd) IN
         /\ Reader(x) /\ (x.ok <=> HasByte(rd))
         /\ HasByte(rd) => x.pos = rd.pos + 1 /\ x.pos <= Len(file)
<1>1. CASE HasByte(rd)
  <2> DEFINE h == IF rd.hi - rd.pos >= 1 THEN rd.hi ELSE Smaller(rd.pos + BufSize, Len(file))
  <2>1. /\ rd.ok /\ rd.pos < Len(file)
        /\ h \in Nat /\ rd.pos + 1 <= h /\ h <= Len(file)
        /\ Len(file) <= BufSize => h = Len(file)
    BY <1>1, BufSizeAssumption DEF Reader, Smaller, HasByte
  <2> DEFINE f == IF rd.hi - rd.pos >= 1 THEN rd ELSE [rd EXCEPT !.hi = Smaller(rd.pos + BufSize, Len(file))]
             p == rd.pos + 1
             o == rd.ok
  <2>2. ReadByte(rd) = [f EXCEPT !.pos = f.pos + 1]
    <3>1. Filled(rd, 1) = f
      BY Zenon DEF Filled
    <3>2. ReadByte(rd) = [Filled(rd, 1) EXCEPT !.pos = Filled(rd, 1).pos + 1]
      BY <1>1, Zenon DEF ReadByte
    <3> HIDE DEF f
    <3> QED
      BY <3>1, <3>2
  <2>3. f = [ok |-> o, pos |-> rd.pos, hi |-> h]
    BY DEF Reader
  <2>4. o \in BOOLEAN /\ p \in Nat /\ p <= h /\ h \in Nat /\ o /\ p <= Len(file)
    BY <2>1 DEF Reader
  <2> HIDE DEF h, f
  <2>5. ReadByte(rd) = [ok |-> o, pos |-> p, hi |-> h]
    BY <2>2, <2>3
  <2> HIDE DEF o, p
  <2>6. Reader(ReadByte(rd)) /\ ReadByte(rd).ok = o /\ ReadByte(rd).pos = p
    <3>1. h <= Len(file) /\ (Len(file) <= BufSize => h = Len(file))
      BY <2>1
    <3> HIDE DEF o, p, h
    <3> QED
      BY <2>4, <2>5, <3>1, ReaderWith, ZenonT(120)
  <2> QED
    BY <1>1, <2>4, <2>6, Zenon DEF p
<1>2. CASE ~HasByte(rd)
  BY <1>2, FailedIs DEF ReadByte
<1> QED
  BY <1>1, <1>2

\* Discard moves by n, or to the end of the file.
LEMMA DiscardIs ==
  ASSUME NEW rd, Reader(rd), Len(file) \in Nat, NEW n \in 0 .. 16
  PROVE  LET x == Discard(rd, n) IN
         /\ Reader(x) /\ x.ok = rd.ok
         /\ rd.pos + n <= Len(file) => x.pos = rd.pos + n
         /\ rd.pos + n > Len(file) => x.pos = Len(file)
<1> DEFINE q == Smaller(rd.pos + n, Len(file))
           h == IF q <= rd.hi THEN rd.hi ELSE Smaller(rd.hi + BufSize, Len(file))
<1>1. /\ q \in Nat /\ q <= Len(file)
      /\ rd.pos + n <= Len(file) => q = rd.pos + n
      /\ rd.pos + n > Len(file) => q = Len(file)
  BY DEF Reader, Smaller
<1>2. q <= rd.pos + n /\ rd.pos \in Nat /\ rd.hi \in Nat /\ rd.pos <= rd.hi /\ rd.hi <= Len(file)
  BY DEF Reader, Smaller
<1>3. /\ h \in Nat /\ q <= h /\ h <= Len(file)
      /\ Len(file) <= BufSize => h = Len(file)
  <2> HIDE DEF q
  <2> QED
    BY <1>1, <1>2, BufSizeAssumption DEF Reader, Smaller
<1>4. Discard(rd, n) = [rd EXCEPT !.pos = q, !.hi = h]
  BY DEF Discard, Reader
<1> HIDE DEF q, h
<1> QED
  BY <1>1, <1>3, <1>4 DEF Reader

\* A Read that is accepted moves by n; in a file that fits the buffer it is accepted.
LEMMA ReadFullIs ==
  ASSUME NEW rd, Reader(rd), Len(file) \in Nat, NEW n \in Nat
  PROVE  LET x == ReadFull(rd, n) IN
         /\ Reader(x)
         /\ x.ok => rd.ok /\ x.pos = rd.pos + n /\ x.pos <= Len(file)
         /\ rd.ok /\ rd.pos + n <= Len(file) /\ Len(file) <= BufSize => x.ok
<1> DEFINE k == IF n < BufSize THEN BufSize ELSE n
           h == IF rd.hi > rd.pos \/ n = 0 THEN rd.hi ELSE Smaller(rd.pos + k, Len(file))
           one == [rd EXCEPT !.hi = h]
<1>1. /\ rd.pos \in Nat /\ rd.hi \in Nat /\ rd.pos <= rd.hi /\ rd.hi <= Len(file)
      /\ Len(file) <= BufSize => rd.hi = Len(file)
  BY DEF Reader
<1>2. k \in Nat /\ k >= BufSize
  BY BufSizeAssumption
<1>3. /\ h \in Nat /\ rd.pos <= h /\ h <= Len(file)
      /\ Len(file) <= BufSize => h = Len(file)
  <2> HIDE DEF k
  <2> QED
    BY <1>1, <1>2, BufSizeAssumption DEF Smaller
<1>4. OneRead(rd, n) = one
  BY DEF OneRead, Reader
<1>5. one \in [ok : BOOLEAN, pos : Nat, hi : Nat] /\ one.ok = rd.ok /\ one.pos = rd.pos /\ one.hi = h
  <2> HIDE DEF h
  <2> QED
    BY <1>3 DEF Reader
<1> HIDE DEF one, h
<1>6. ReadFull(rd, n) = IF rd.ok /\ h - rd.pos >= n THEN [one EXCEPT !.pos = rd.pos + n] ELSE Failed(rd)
  BY <1>4, <1>5 DEF ReadFull
<1>7. CASE rd.ok /\ h - rd.pos >= n
  <2>1. ReadFull(rd, n) = [one EXCEPT !.pos = rd.pos + n]
    BY <1>6, <1>7
  <2>2. rd.pos + n <= h /\ rd.pos + n \in Nat
    BY <1>1, <1>3, <1>7
  <2> DEFINE p == rd.pos + n
             o == rd.ok
  <2>3. ReadFull(rd, n) = [ok |-> o, pos |-> p, hi |-> h]
    BY <1>5, <2>1
  <2>4. o \in BOOLEAN /\ o
    BY <1>7 DEF Reader
  <2> HIDE DEF o, p
  <2>5. p <= Len(file)
    BY <1>3, <2>2 DEF p
  <2>6. Reader(ReadFull(rd, n)) /\ ReadFull(rd, n).ok = o /\ ReadFull(rd, n).pos = p
    <3>1. p \in Nat /\ p <= h
      BY <2>2 DEF p
    <3>2. h \in Nat /\ h <= Len(file) /\ (Len(file) <= BufSize => h = Len(file))
      BY <1>3
    <3> QED
      BY <2>3, <2>4, <3>1, <3>2, ReaderWith, ZenonT(120)
  <2> QED
    BY <2>4, <2>5, <2>6, Zenon DEF p, o
<1>8. CASE ~(rd.ok /\ h - rd.pos >= n)
  <2>1. ReadFull(rd, n) = Failed(rd)
    BY <1>6, <1>8
  <2>2. ~(rd.ok /\ rd.pos + n <= Len(file) /\ Len(file) <= BufSize)
    BY <1>1, <1>3, <1>8
  <2> QED
    BY <2>1, <2>2, FailedIs
<1> QED
  BY <1>7, <1>8

\* What readStringValue reads, if it does not fail.
LEMMA StringValueIs ==
  ASSUME NEW rd, Reader(rd), file \in Seq(Nat)
  PROVE  LET x == readStringValue(rd)
             n == file[rd.pos + 1]
         IN /\ Reader(x)
            /\ x.ok => HasByte(rd) /\ x.pos = rd.pos + 1 + n /\ x.pos <= Len(file)
            /\ HasByte(rd) /\ rd.pos + 1 + n <= Len(file) /\ Len(file) <= BufSize => x.ok
<1>0. Len(file) \in Nat
  BY LenProperties
<1>1. CASE HasByte(rd)
  <2> DEFINE n == Byte(rd)
             y == ReadByte(rd)
             x == ReadFull(y, n)
  <2>1. n \in Nat /\ n = file[rd.pos + 1] /\ rd.pos \in Nat
    <3>1. rd.pos + 1 \in 1 .. Len(file) /\ rd.pos \in Nat
      BY <1>0, <1>1 DEF HasByte, Reader
    <3> QED
      BY <3>1, ElementOfSeq DEF Byte
  <2>2. Reader(y) /\ y.ok /\ y.pos = rd.pos + 1
    BY <1>0, <1>1, ReadByteIs, Zenon
  <2>3. readStringValue(rd) = x
    BY <1>1 DEF readStringValue
  <2> HIDE DEF n, y
  <2>4. /\ Reader(x)
        /\ x.ok => y.ok /\ x.pos = y.pos + n /\ x.pos <= Len(file)
        /\ y.ok /\ y.pos + n <= Len(file) /\ Len(file) <= BufSize => x.ok
    BY <1>0, <2>1, <2>2, ReadFullIs, Zenon
  <2> HIDE DEF x
  <2> QED
    BY <1>1, <2>1, <2>2, <2>3, <2>4, Zenon
<1>2. CASE ~HasByte(rd)
  <2>1. readStringValue(rd) = Failed(rd)
    BY <1>2 DEF readStringValue
  <2> QED
    BY <1>2, <2>1, FailedIs, Zenon
<1> QED
  BY <1>1, <1>2

\* It returns the string that is there.
LEMMA StringAtIs ==
  ASSUME NEW rd, Reader(rd), file \in Seq(Nat), readStringValue(rd).ok,
         NEW s \in Seq(Nat), file[rd.pos + 1] = Len(s),
         \A j \in 1 .. Len(s) : rd.pos + 1 + j <= Len(file) => file[rd.pos + 1 + j] = s[j]
  PROVE  StringAt(rd) = s
<1> DEFINE m == rd.pos + 2
           n == readStringValue(rd).pos
           a == StringAt(rd)
<1>1. /\ n = rd.pos + 1 + Len(s) /\ n <= Len(file)
  BY StringValueIs, Zenon
<1>2. rd.pos \in Nat /\ Len(s) \in Nat /\ Len(file) \in Nat
  BY LenProperties DEF Reader
<1> HIDE DEF n
<1>3. m \in Int /\ n \in Int /\ \A i \in m .. n : file[i] \in Nat
  <2>1. \A i \in m .. n : i \in 1 .. Len(file)
    BY <1>1, <1>2, SMTT(60)
  <2>2. m \in Int /\ n \in Int
    BY <1>1, <1>2, SMTT(60)
  <2> HIDE DEF m
  <2> QED
    BY <2>1, <2>2, ElementOfSeq
<1>4. a = SubSeq(file, m, n)
  BY DEF StringAt, n
<1> DEFINE p == rd.pos
<1>5. m = p + 2 /\ n = p + 1 + Len(s) /\ p \in Nat
  BY <1>1, <1>2
<1> HIDE DEF a, m, p
<1>6. /\ a \in Seq(Nat) /\ Len(a) = IF m <= n THEN n - m + 1 ELSE 0
      /\ \A i \in 1 .. n - m + 1 : a[i] = file[m + i - 1]
  <2> DEFINE b == SubSeq(file, m, n)
  <2>1. /\ b \in Seq(Nat) /\ Len(b) = IF m <= n THEN n - m + 1 ELSE 0
        /\ \A i \in 1 .. n - m + 1 : b[i] = file[m + i - 1]
    BY <1>3, SubSeqProperties
  <2> QED
    BY <1>4, <2>1
<1>7. Len(a) = Len(s)
  <2>1. Len(a) = IF m <= n THEN n - m + 1 ELSE 0
    BY <1>6
  <2> QED
    BY <1>2, <1>5, <2>1
<1>8. ASSUME NEW i \in 1 .. Len(a) PROVE a[i] = s[i]
  <2>1. i \in 1 .. Len(s) /\ i \in 1 .. n - m + 1 /\ m + i - 1 = p + 1 + i /\ p + 1 + i <= Len(file)
    BY <1>1, <1>2, <1>5, <1>7, SMTT(60)
  <2>2. a[i] = file[p + 1 + i]
    BY <1>6, <2>1
  <2> QED
    BY <2>1, <2>2 DEF p
<1> QED
  <2>1. a = s
    BY <1>6, <1>7, <1>8, SeqEqual, Zenon
  <2> QED
    BY <2>1 DEF a

-----------------------------------------------------------------------------
(* The inductive invariant *)

\* The file is a prefix of what was saved.
FileInv ==
  /\ snapshot \in Snapshots
  /\ file \in Seq(Nat) /\ Len(file) \in Nat
  /\ Len(file) <= Len(Saved(snapshot))
  /\ \A j \in 1 .. Len(file) : file[j] = Saved(snapshot)[j]

\* What WholeFileLoads is about.
Good == Supported(snapshot) /\ ~IsCut /\ Len(file) <= BufSize

First == snapshot.dbs[1]
Deadline(e) == IF e.unit = "none" THEN <<>> ELSE <<e.deadline>>

\* The first n entries of the first database are in the maps.
KeysHold(m, n) == Pairs(m) = {<< <<First[j].key>>, First[j].value.text >> : j \in 1 .. n}
ExpiriesHold(m, n) ==
  Pairs(m) = {<< <<First[j].key>>, First[j].deadline >> : j \in {i \in 1 .. n : First[i].unit # "none"}}
Loaded(n) ==
  /\ snapshot.dbs # <<>>
  /\ \E ks, es : /\ databases = << [Keys |-> ks, Expiries |-> es] >>
                 /\ KeysHold(ks, n) /\ ExpiriesHold(es, n)

\* What is read next is one of the metadata, or the first database, or nothing more.
AtMeta ==
  /\ pc = "section" /\ databases = <<>> /\ text = <<>>
  /\ \/ \E k \in 0 .. Len(snapshot.meta) : r.pos = MetaAt(snapshot, k)
     \/ r.pos = Len(file) /\ Len(file) <= Start(snapshot)

InMeta ==
  /\ pc = "metadata" /\ databases = <<>>
  /\ \E k \in 0 .. Len(snapshot.meta) - 1 :
       r.pos = MetaAt(snapshot, k) + 3 /\ text = << <<snapshot.meta[k + 1]>> >>

\* The entry that is read has n before it.
AtEntry(n) ==
  /\ pc = "entry" /\ Loaded(n) /\ left = Len(First) - n
  /\ r.pos = EntryAt(snapshot, n) /\ text = <<>>
AtKey(n) ==
  /\ pc = "key" /\ Loaded(n) /\ left = Len(First) - n
  /\ r.pos = EntryAt(snapshot, n) + DeadlineLen(First[n + 1]) /\ text = Deadline(First[n + 1])
AtValue(n) ==
  /\ pc = "value" /\ Loaded(n) /\ left = Len(First) - n
  /\ r.pos = EntryAt(snapshot, n) + DeadlineLen(First[n + 1]) + 3
  /\ text = << <<First[n + 1].key>> >> \o Deadline(First[n + 1])

\* The first database is read.
AtEnd ==
  /\ pc = "section" /\ Loaded(Len(First)) /\ text = <<>>
  /\ r.pos = EntryAt(snapshot, Len(First))

AtLoad ==
  /\ pc = "load"
  /\ \/ databases = <<>> /\ (snapshot.dbs = <<>> \/ Len(file) <= Start(snapshot))
     \/ Loaded(Len(First)) /\ (Len(snapshot.dbs) = 1 \/ IsCut)

Served == pc = "serving" /\ AllOrNothing
Refused == pc = "exited" /\ ~Good

\* Of several databases the second was begun: nothing will be served.
Many ==
  /\ \E T : databases \in Seq(T)
  /\ Len(databases) >= 2 /\ Len(snapshot.dbs) > 1 /\ pc # "serving"

Reads ==
  /\ Reader(r) /\ r.ok
  /\ \/ AtMeta \/ InMeta \/ AtEnd
     \/ /\ snapshot.dbs # <<>>
        /\ \/ \E n \in 0 .. Len(First) : AtEntry(n)
           \/ \E n \in 0 .. Len(First) - 1 : AtKey(n) \/ AtValue(n)

PlaceInv == Reads \/ AtLoad \/ Served \/ Refused \/ Many

StoreInv == pc # "serving" => values = <<>> /\ expiries = <<>>

IInv == /\ snapshot \in Snapshots
        /\ Short(snapshot) => FileInv /\ PlaceInv /\ StoreInv

\* What the bytes of the next metadata are.
LEMMA MetaHere ==
  ASSUME FileInv, Short(snapshot), NEW k \in 0 .. Len(snapshot.meta) - 1
  PROVE  LET q == MetaAt(snapshot, k)
             name == snapshot.meta[k + 1]
             P == MetaBytes(name)
         IN /\ q \in Nat /\ MetaShape(P, name)
            /\ \A j \in 1 .. Len(P) : q + j <= Len(file) => file[q + j] = P[j]
            /\ k + 1 \in 0 .. Len(snapshot.meta)
            /\ MetaAt(snapshot, k + 1) = q + Len(P) /\ q + Len(P) <= Start(snapshot)
            /\ ~IsCut => q + Len(P) <= Len(file)
<1> DEFINE q == MetaAt(snapshot, k)
           name == snapshot.meta[k + 1]
           P == MetaBytes(name)
           T == Saved(snapshot)
           n == Len(snapshot.meta)
<1>1. Layout(snapshot, T)
  BY SavedIs, Zenon DEF FileInv
<1>2. MetaLayout(snapshot, T) /\ Len(T) \in Nat
  BY <1>1, Zenon DEF Layout
<1>3. n \in Nat
  BY <1>2, Zenon DEF MetaLayout
<1>4. k \in 0 .. n /\ k + 1 \in 0 .. n /\ k \in 0 .. n - 1
  BY <1>3
<1>5. /\ q \in Nat /\ MetaAt(snapshot, k + 1) \in Nat /\ MetaAt(snapshot, k + 1) <= Start(snapshot)
      /\ MetaShape(P, name) /\ Piece(T, q, P) /\ MetaAt(snapshot, k + 1) = q + Len(P)
  BY <1>2, <1>4, Zenon DEF MetaLayout
<1>6. Len(P) \in Nat
  BY <1>5, Zenon DEF MetaShape
<1> HIDE DEF q, P, name, T
<1>7. ASSUME NEW j \in 1 .. Len(P), q + j <= Len(file) PROVE file[q + j] = P[j]
  <2>1. q + j \in 1 .. Len(file)
    BY <1>5, <1>6, <1>7 DEF FileInv
  <2>2. file[q + j] = T[q + j] /\ T[q + j] = P[j]
    BY <1>5, <2>1, Zenon DEF FileInv, T, Piece
  <2> QED
    BY <2>2
<1>8. ~IsCut => q + Len(P) <= Len(file)
  <2>1. q + Len(P) <= Len(T)
    BY <1>5 DEF Piece
  <2>2. ~IsCut => Len(file) = Len(T)
    BY <1>2 DEF IsCut, FileInv, T
  <2> QED
    BY <2>1, <2>2
<1>9. q + Len(P) <= Start(snapshot)
  BY <1>5, Zenon
<1> QED
  BY <1>4, <1>5, <1>7, <1>8, <1>9, Zenon DEF q, P, name, n

\* What the bytes of the next entry are.
LEMMA EntryHere ==
  ASSUME FileInv, Short(snapshot), snapshot.dbs # <<>>, NEW k \in 0 .. Len(First) - 1
  PROVE  LET q == EntryAt(snapshot, k)
             P == EntryBytes(First[k + 1])
         IN /\ q \in Nat /\ EntryShape(P, First[k + 1])
            /\ \A j \in 1 .. Len(P) : q + j <= Len(file) => file[q + j] = P[j]
            /\ k + 1 \in 0 .. Len(First) /\ EntryAt(snapshot, k + 1) = q + Len(P)
            /\ ~IsCut => q + Len(P) <= Len(file)
            /\ First[k + 1] \in Entries /\ Len(First) \in Nat
<1> DEFINE q == EntryAt(snapshot, k)
           P == EntryBytes(First[k + 1])
           T == Saved(snapshot)
           n == Len(First)
<1>1. Layout(snapshot, T)
  BY SavedIs, Zenon DEF FileInv
<1>2. EntryLayout(snapshot, T) /\ Len(T) \in Nat /\ Len(snapshot.dbs) \in Nat /\ Len(snapshot.dbs) >= 1
  BY <1>1, Zenon DEF Layout
<1>3. n \in Nat
  BY <1>2, Zenon DEF EntryLayout, First
<1>4. k \in 0 .. n /\ k + 1 \in 0 .. n /\ k \in 0 .. n - 1 /\ k + 1 \in 1 .. n
  BY <1>3
<1>5. /\ q \in Nat /\ EntryShape(P, First[k + 1]) /\ Piece(T, q, P)
      /\ EntryAt(snapshot, k + 1) = q + Len(P)
  BY <1>2, <1>4, Zenon DEF EntryLayout, First
<1>6. Len(P) \in Nat
  BY <1>5, Zenon DEF EntryShape
<1> HIDE DEF q, P, T
<1>7. ASSUME NEW j \in 1 .. Len(P), q + j <= Len(file) PROVE file[q + j] = P[j]
  <2>1. q + j \in 1 .. Len(file)
    BY <1>5, <1>6, <1>7 DEF FileInv
  <2>2. file[q + j] = T[q + j] /\ T[q + j] = P[j]
    BY <1>5, <2>1, Zenon DEF FileInv, T, Piece
  <2> QED
    BY <2>2
<1>8. ~IsCut => q + Len(P) <= Len(file)
  <2>1. q + Len(P) <= Len(T)
    BY <1>5 DEF Piece
  <2>2. ~IsCut => Len(file) = Len(T)
    BY <1>2 DEF IsCut, FileInv, T
  <2> QED
    BY <2>1, <2>2
<1>9. First[k + 1] \in Entries
  <2>1. snapshot.dbs \in Seq(Seq(Entries))
    BY SnapshotsAssumption DEF FileInv
  <2>2. 1 \in 1 .. Len(snapshot.dbs)
    BY <1>2
  <2>3. First \in Seq(Entries)
    BY <2>1, <2>2, ElementOfSeq, Zenon DEF First
  <2> QED
    BY <1>4, <2>3, ElementOfSeq, Zenon
<1> QED
  BY <1>3, <1>4, <1>5, <1>7, <1>8, <1>9, Zenon DEF q, P, n

\* The byte that is read is the saved one.
LEMMA ByteIs ==
  ASSUME FileInv, NEW rd, Reader(rd), HasByte(rd)
  PROVE  rd.pos + 1 \in 1 .. Len(file) /\ Byte(rd) = Saved(snapshot)[rd.pos + 1]
<1>1. rd.pos + 1 \in 1 .. Len(file)
  BY DEF FileInv, Reader, HasByte
<1> QED
  BY <1>1, Zenon DEF FileInv, Byte

\* The five kinds of sections.
LEMMA Separators == Meta # Database /\ Meta # Eof /\ Database # Eof
BY DEF Meta, Database, Eof

\* The section before the first database.
LEMMA MetaByte ==
  ASSUME FileInv, Short(snapshot), Reader(r), AtMeta, HasByte(r)
  PROVE  \E k \in 0 .. Len(snapshot.meta) :
           /\ r.pos = MetaAt(snapshot, k) /\ Len(snapshot.meta) \in Nat
           /\ k \in 0 .. Len(snapshot.meta) - 1 => Byte(r) = Meta
           /\ k \notin 0 .. Len(snapshot.meta) - 1 =>
                /\ r.pos = Start(snapshot)
                /\ Byte(r) = IF snapshot.dbs = <<>> THEN Eof ELSE Database
<1> DEFINE T == Saved(snapshot)
           n == Len(snapshot.meta)
<1>1. Layout(snapshot, T)
  BY SavedIs, Zenon DEF FileInv
<1>2. n \in Nat
  BY <1>1, Zenon DEF Layout, MetaLayout
<1>3. r.pos < Len(file) /\ r.pos \in Nat /\ Len(file) \in Nat
  BY DEF HasByte, Reader, FileInv
<1>4. PICK k \in 0 .. n : r.pos = MetaAt(snapshot, k)
  <2>1. ~(r.pos = Len(file))
    BY <1>3
  <2> QED
    BY <2>1, Zenon DEF AtMeta
<1>5. ASSUME k \in 0 .. n - 1 PROVE Byte(r) = Meta
  <2> DEFINE q == MetaAt(snapshot, k)
             P == MetaBytes(snapshot.meta[k + 1])
  <2>1. q \in Nat /\ MetaShape(P, snapshot.meta[k + 1]) /\ \A j \in 1 .. Len(P) : q + j <= Len(file) => file[q + j] = P[j]
    BY <1>5, MetaHere, Zenon
  <2> HIDE DEF P
  <2>2. Len(P) \in Nat /\ Len(P) >= 3 /\ P[1] = Meta
    BY <2>1, Zenon DEF MetaShape
  <2>3. 1 \in 1 .. Len(P) /\ q + 1 <= Len(file)
    BY <1>3, <1>4, <2>2
  <2>4. file[q + 1] = Meta
    BY <2>1, <2>2, <2>3, Zenon
  <2> QED
    BY <1>4, <2>4, Zenon DEF Byte
<1>6. ASSUME k \notin 0 .. n - 1
      PROVE  r.pos = Start(snapshot) /\ Byte(r) = IF snapshot.dbs = <<>> THEN Eof ELSE Database
  <2>1. k = n
    BY <1>2, <1>6
  <2>2. r.pos = Start(snapshot)
    BY <1>4, <2>1, Zenon DEF Start
  <2>3. Byte(r) = T[Start(snapshot) + 1]
    BY <2>2, ByteIs, Zenon
  <2>4. T[Start(snapshot) + 1] = IF snapshot.dbs = <<>> THEN Eof ELSE Database
    <3>1. snapshot.dbs = <<>> => T[Start(snapshot) + 1] = Eof
      BY <1>1, Zenon DEF Layout
    <3>2. snapshot.dbs # <<>> => T[Start(snapshot) + 1] = Database
      BY <1>1, Zenon DEF Layout, EntryLayout
    <3> QED
      BY <3>1, <3>2
  <2> QED
    BY <2>2, <2>3, <2>4
<1> QED
  BY <1>2, <1>4, <1>5, <1>6, Zenon

\* The section after the first database.
LEMMA EndByte ==
  ASSUME FileInv, Short(snapshot), Reader(r), AtEnd
  PROVE  /\ EntryAt(snapshot, Len(First)) + 9 <= Len(Saved(snapshot)) /\ Len(Saved(snapshot)) \in Nat
         /\ Len(snapshot.dbs) \in Nat /\ Len(snapshot.dbs) >= 1
         /\ HasByte(r) => Byte(r) = IF Len(snapshot.dbs) = 1 THEN Eof ELSE Database
<1>1. Layout(snapshot, Saved(snapshot))
  BY SavedIs, Zenon DEF FileInv
<1>2. snapshot.dbs # <<>> /\ r.pos = EntryAt(snapshot, Len(First))
  BY DEF AtEnd, Loaded
<1>3. EntryLayout(snapshot, Saved(snapshot)) /\ Len(Saved(snapshot)) \in Nat
      /\ Len(snapshot.dbs) \in Nat /\ Len(snapshot.dbs) >= 1
  BY <1>1, <1>2, Zenon DEF Layout
<1>4. /\ EntryAt(snapshot, Len(First)) + 9 <= Len(Saved(snapshot))
      /\ Saved(snapshot)[EntryAt(snapshot, Len(First)) + 1] = IF Len(snapshot.dbs) = 1 THEN Eof ELSE Database
  BY <1>3, Zenon DEF EntryLayout, First
<1>5. HasByte(r) => Byte(r) = Saved(snapshot)[r.pos + 1]
  BY ByteIs, Zenon
<1> QED
  BY <1>2, <1>3, <1>4, <1>5, Zenon

-----------------------------------------------------------------------------
(* The steps *)

\* A reader that a step leaves behind.
LEMMA GotoIs ==
  ASSUME NEW x, Reader(x), NEW label, Goto(label, x), file' = file
  PROVE  /\ Reader(r)' /\ r' = x
         /\ x.ok => r'.ok /\ pc' = label /\ r'.pos = x.pos
         /\ ~x.ok => pc' = "exited"
BY DEF Goto, Reader

\* A file that must not be refused.
LEMMA GoodIs ==
  ASSUME FileInv, Short(snapshot), Good
  PROVE  /\ ~IsCut /\ Len(file) <= BufSize /\ Len(file) = Len(Saved(snapshot))
         /\ Len(snapshot.dbs) <= 1 /\ Range(snapshot.meta) \subseteq Known
<1>1. Len(Saved(snapshot)) \in Nat
  BY SavedIs, Zenon DEF FileInv, Layout
<1> QED
  BY <1>1 DEF Good, Supported, IsCut, FileInv

\* Ending on an error is right for any file that is cut, not supported or too long.
LEMMA Refusal ==
  ASSUME UNCHANGED <<snapshot, file>>, pc' = "exited", ~Good
  PROVE  PlaceInv'
BY DEF PlaceInv, Refused, Good, Supported, IsCut

\* A string of one byte.
LEMMA OneByteString ==
  ASSUME file \in Seq(Nat), NEW y, Reader(y), y.ok, NEW b \in Nat,
         y.pos + 1 <= Len(file) => file[y.pos + 1] = 1,
         y.pos + 2 <= Len(file) => file[y.pos + 2] = b
  PROVE  LET x == readStringValue(y) IN
         /\ Reader(x)
         /\ x.ok => x.pos = y.pos + 2 /\ StringAt(y) = <<b>>
         /\ y.pos + 2 <= Len(file) /\ Len(file) <= BufSize => x.ok
<1> DEFINE x == readStringValue(y)
           n == file[y.pos + 1]
           s == <<b>>
<1>1. /\ Reader(x)
      /\ x.ok => HasByte(y) /\ x.pos = y.pos + 1 + n /\ x.pos <= Len(file)
      /\ HasByte(y) /\ y.pos + 1 + n <= Len(file) /\ Len(file) <= BufSize => x.ok
  BY StringValueIs, Zenon
<1>2. y.pos \in Nat /\ Len(file) \in Nat
  BY LenProperties DEF Reader
<1>3. HasByte(y) <=> y.pos + 1 <= Len(file)
  BY <1>2 DEF HasByte
<1>4. y.pos + 1 <= Len(file) => n = 1
  OBVIOUS
<1>5. s \in Seq(Nat) /\ Len(s) = 1 /\ s[1] = b
  OBVIOUS
<1> HIDE DEF x, s, n
<1>6. x.ok => x.pos = y.pos + 2 /\ n = 1
  BY <1>1, <1>2, <1>3, <1>4
<1>7. y.pos + 2 <= Len(file) /\ Len(file) <= BufSize => x.ok
  BY <1>1, <1>2, <1>3, <1>4
<1>8. ASSUME x.ok PROVE StringAt(y) = s
  <2>1. n = Len(s)
    BY <1>5, <1>6, <1>8
  <2>2. ASSUME NEW j \in 1 .. Len(s), y.pos + 1 + j <= Len(file) PROVE file[y.pos + 1 + j] = s[j]
    <3>1. j = 1 /\ y.pos + 1 + j = y.pos + 2
      BY <1>2, <1>5
    <3> QED
      BY <1>5, <2>2, <3>1
  <2> QED
    BY <1>5, <1>8, <2>1, <2>2, StringAtIs, Zenon DEF x, n
<1> QED
  BY <1>1, <1>6, <1>7, <1>8, Zenon DEF x, s

\* The name of a metadata.
LEMMA MetadataNameStep ==
  ASSUME FileInv, Short(snapshot), Reader(r), r.ok, AtMeta, MetadataName
  PROVE  PlaceInv'
<1> DEFINE y == ReadByte(r)
           x == readStringValue(y)
<1>1. /\ HasByte(r) /\ Byte(r) = Meta /\ Goto("metadata", x) /\ text' = <<StringAt(y)>>
      /\ UNCHANGED <<snapshot, file, databases>>
  BY DEF MetadataName, Separator
<1>2. PICK k \in 0 .. Len(snapshot.meta) :
        /\ r.pos = MetaAt(snapshot, k) /\ Len(snapshot.meta) \in Nat
        /\ k \in 0 .. Len(snapshot.meta) - 1 => Byte(r) = Meta
        /\ k \notin 0 .. Len(snapshot.meta) - 1 =>
             /\ r.pos = Start(snapshot)
             /\ Byte(r) = IF snapshot.dbs = <<>> THEN Eof ELSE Database
  BY <1>1, MetaByte, Zenon
<1>3. k \in 0 .. Len(snapshot.meta) - 1
  BY <1>1, <1>2, Separators
<1> DEFINE q == MetaAt(snapshot, k)
           name == snapshot.meta[k + 1]
           P == MetaBytes(name)
<1>4. /\ q \in Nat /\ MetaShape(P, name)
      /\ \A j \in 1 .. Len(P) : q + j <= Len(file) => file[q + j] = P[j]
      /\ ~IsCut => q + Len(P) <= Len(file)
  BY <1>3, MetaHere, Zenon
<1> HIDE DEF P, name
<1>5. P \in Seq(Nat) /\ Len(P) \in Nat /\ Len(P) >= 3 /\ P[2] = 1 /\ P[3] = name
  BY <1>4, Zenon DEF MetaShape
<1>6. /\ 2 \in 1 .. Len(P) /\ 3 \in 1 .. Len(P)
      /\ Len(file) \in Nat /\ file \in Seq(Nat)
  BY <1>5 DEF FileInv
<1>7. Reader(y) /\ y.ok /\ y.pos = q + 1
  BY <1>1, <1>2, <1>6, ReadByteIs, Zenon
<1>8. /\ y.pos + 1 = q + 2 /\ y.pos + 2 = q + 3 /\ name \in Nat
  <2>1. name \in Nat
    BY <1>5, <1>6, ElementOfSeq, Zenon
  <2> HIDE DEF y, q
  <2> QED
    BY <1>4, <1>7, <2>1
<1>9. /\ y.pos + 1 <= Len(file) => file[y.pos + 1] = 1
      /\ y.pos + 2 <= Len(file) => file[y.pos + 2] = name
  BY <1>4, <1>5, <1>6, <1>8, Zenon
<1> HIDE DEF y, x
<1>10. /\ Reader(x)
       /\ x.ok => x.pos = y.pos + 2 /\ StringAt(y) = <<name>>
       /\ y.pos + 2 <= Len(file) /\ Len(file) <= BufSize => x.ok
  BY <1>6, <1>7, <1>8, <1>9, OneByteString, Zenon DEF x
<1>11. /\ Reader(r)' /\ r' = x
       /\ x.ok => r'.ok /\ pc' = "metadata" /\ r'.pos = x.pos
       /\ ~x.ok => pc' = "exited"
  BY <1>1, <1>10, GotoIs, Zenon
<1>12. CASE x.ok
  <2>1. r'.pos = MetaAt(snapshot', k) + 3 /\ text' = << <<snapshot'.meta[k + 1]>> >>
    BY <1>1, <1>8, <1>10, <1>11, <1>12 DEF name
  <2>2. databases' = <<>> /\ pc' = "metadata"
    BY <1>1, <1>11, <1>12 DEF AtMeta
  <2>3. k \in 0 .. Len(snapshot'.meta) - 1
    BY <1>1, <1>3
  <2>4. InMeta'
    BY <2>1, <2>2, <2>3, Zenon DEF InMeta
  <2> QED
    BY <1>11, <1>12, <2>4, Zenon DEF PlaceInv, Reads
<1>13. CASE ~x.ok
  <2>1. ASSUME Good PROVE FALSE
    <3>1. q + Len(P) <= Len(file) /\ Len(file) <= BufSize
      BY <1>4, <2>1, GoodIs, Zenon
    <3>2. y.pos + 2 <= Len(file)
      <4> HIDE DEF q
      <4> QED
        BY <1>4, <1>5, <1>6, <1>8, <3>1, SMTT(60)
    <3> QED
      BY <1>10, <1>13, <3>1, <3>2
  <2> QED
    BY <1>1, <1>11, <1>13, <2>1, Refusal, Zenon
<1> QED
  BY <1>12, <1>13

\* What the value of a metadata is read as, by its name.
ValueRead(name) ==
  LET value == Discard(r, 1) IN
  CASE name = RedisVer -> readStringValue(r)
    [] name = Ctime \/ name = UsedMem -> ReadFull(value, 4)
    [] name = RedisBits -> IF HasByte(value) /\ Byte(value) = 64 THEN ReadByte(value) ELSE Failed(r)
    [] name = AofBase -> Discard(r, 2)
    [] OTHER -> Failed(r)

\* The names of metadata are five different ones.
LEMMA Names ==
  /\ RedisVer = 1 /\ Ctime = 2 /\ RedisBits = 3 /\ UsedMem = 4 /\ AofBase = 5
  /\ Known = {RedisVer, Ctime, RedisBits, UsedMem, AofBase}
BY DEF RedisVer, Ctime, RedisBits, UsedMem, AofBase, Known

\* The reader is after the bytes P at q, or at the end of a file that ends before.
After(x, q, P, name) ==
  /\ Reader(x)
  /\ x.ok => x.pos = q + Len(P) \/ (x.pos = Len(file) /\ Len(file) < q + Len(P))
  /\ q + Len(P) <= Len(file) /\ Len(file) <= BufSize /\ name \in Known => x.ok

\* Whatever its name, a value is read to its end, or to that of the file.
LEMMA ValueReadIs ==
  ASSUME FileInv, Reader(r), r.ok, NEW q \in Nat, r.pos = q + 3, NEW P, NEW name, MetaShape(P, name),
         \A j \in 1 .. Len(P) : q + j <= Len(file) => file[q + j] = P[j]
  PROVE  After(ValueRead(name), q, P, name)
<1> DEFINE x == ValueRead(name)
           v == Discard(r, 1)
<1>1. Len(P) \in Nat /\ Len(file) \in Nat /\ file \in Seq(Nat)
  BY Zenon DEF MetaShape, FileInv
<1>2. /\ Reader(v) /\ v.ok
      /\ r.pos + 1 <= Len(file) => v.pos = r.pos + 1
      /\ r.pos + 1 > Len(file) => v.pos = Len(file)
  <2>1. 1 \in 0 .. 16
    OBVIOUS
  <2> QED
    BY <1>1, <2>1, DiscardIs, Zenon
<1> HIDE DEF v
<1>3. CASE name = RedisVer
  <2> DEFINE n == file[r.pos + 1]
  <2>1. x = readStringValue(r) /\ Len(P) = 5 /\ P[4] = 1
    BY <1>3, Names DEF ValueRead, MetaShape
  <2>2. /\ Reader(x)
        /\ x.ok => HasByte(r) /\ x.pos = r.pos + 1 + n /\ x.pos <= Len(file)
        /\ HasByte(r) /\ r.pos + 1 + n <= Len(file) /\ Len(file) <= BufSize => x.ok
    BY <1>1, <2>1, StringValueIs, Zenon
  <2>3. HasByte(r) <=> q + 4 <= Len(file)
    BY <1>1 DEF HasByte
  <2>4. q + 4 <= Len(file) => n = 1
    <3>1. 4 \in 1 .. Len(P) /\ r.pos + 1 = q + 4
      BY <2>1
    <3> QED
      BY <2>1, <3>1, Zenon
  <2> HIDE DEF x, n
  <2>5. After(x, q, P, name)
    BY <1>1, <2>1, <2>2, <2>3, <2>4 DEF After
  <2> QED
    BY <2>5 DEF x
<1>4. CASE name = Ctime \/ name = UsedMem
  <2>1. x = ReadFull(v, 4) /\ Len(P) = 8
    BY <1>4, Names DEF ValueRead, MetaShape, v
  <2> DEFINE y == ReadFull(v, 4)
  <2>2. /\ Reader(y)
        /\ y.ok => v.ok /\ y.pos = v.pos + 4 /\ y.pos <= Len(file)
        /\ v.ok /\ v.pos + 4 <= Len(file) /\ Len(file) <= BufSize => y.ok
    <3>1. 4 \in Nat
      OBVIOUS
    <3> QED
      BY <1>1, <1>2, <3>1, ReadFullIs, Zenon
  <2> HIDE DEF x, y
  <2>3. After(x, q, P, name)
    <3>1. q + 4 <= Len(file) => v.pos = q + 4
      BY <1>1, <1>2
    <3>2. y.ok => y.pos = q + 8
      BY <1>1, <1>2, <2>2, <3>1
    <3>3. q + 8 <= Len(file) /\ Len(file) <= BufSize => y.ok
      BY <1>1, <1>2, <2>2, <3>1
    <3>4. Len(P) = 8 /\ x = y /\ Reader(y)
      BY <2>1, <2>2 DEF y
    <3> QED
      BY <3>2, <3>3, <3>4 DEF After
  <2> QED
    BY <2>3 DEF x
<1>5. CASE name = RedisBits
  <2> DEFINE y == ReadByte(v)
  <2>1. x = (IF HasByte(v) /\ Byte(v) = 64 THEN y ELSE Failed(r)) /\ Len(P) = 5 /\ P[5] = 64
    BY <1>5, Names DEF ValueRead, MetaShape, v
  <2>2. Reader(y) /\ (y.ok <=> HasByte(v)) /\ (HasByte(v) => y.pos = v.pos + 1 /\ y.pos <= Len(file))
    BY <1>1, <1>2, ReadByteIs, Zenon
  <2>3. HasByte(v) <=> q + 5 <= Len(file)
    BY <1>1, <1>2 DEF HasByte
  <2>4. q + 5 <= Len(file) => Byte(v) = 64
    <3>1. 5 \in 1 .. Len(P)
      BY <2>1
    <3>2. q + 5 <= Len(file) => v.pos + 1 = q + 5
      BY <1>1, <1>2
    <3> QED
      BY <2>1, <3>1, <3>2, Zenon DEF Byte
  <2>5. Reader(Failed(r)) /\ ~Failed(r).ok
    BY FailedIs, Zenon
  <2> HIDE DEF x, y
  <2>6. After(x, q, P, name)
    <3>1. q + 5 <= Len(file) => x = y /\ y.ok /\ y.pos = q + 5
      BY <1>1, <1>2, <2>1, <2>2, <2>3, <2>4
    <3>2. ~(q + 5 <= Len(file)) => x = Failed(r)
      BY <2>1, <2>3
    <3>3. Len(P) = 5 /\ Reader(y) /\ Reader(Failed(r)) /\ ~Failed(r).ok
      BY <2>1, <2>2, <2>5
    <3> HIDE DEF y
    <3> QED
      BY <3>1, <3>2, <3>3 DEF After
  <2> QED
    BY <2>6 DEF x
<1>6. CASE name = AofBase
  <2>1. x = Discard(r, 2) /\ Len(P) = 5
    BY <1>6, Names DEF ValueRead, MetaShape
  <2> DEFINE y == Discard(r, 2)
  <2>2. /\ Reader(y) /\ y.ok = r.ok
        /\ r.pos + 2 <= Len(file) => y.pos = r.pos + 2
        /\ r.pos + 2 > Len(file) => y.pos = Len(file)
    <3>1. 2 \in 0 .. 16
      OBVIOUS
    <3> QED
      BY <1>1, <3>1, DiscardIs, Zenon
  <2> HIDE DEF x, y
  <2>3. After(x, q, P, name)
    <3>1. y.pos = q + 5 \/ (y.pos = Len(file) /\ Len(file) < q + 5)
      BY <1>1, <2>2
    <3>2. Len(P) = 5 /\ x = y /\ Reader(y) /\ y.ok
      BY <2>1, <2>2 DEF y
    <3> QED
      BY <3>1, <3>2 DEF After
  <2> QED
    BY <2>3 DEF x
<1>7. CASE name \notin Known
  <2>1. x = Failed(r)
    BY <1>7, Names DEF ValueRead
  <2> QED
    BY <1>7, <2>1, FailedIs, Zenon DEF After
<1> QED
  BY <1>3, <1>4, <1>5, <1>6, <1>7, Names

\* After a value of metadata the reader is at the next section.
LEMMA MetadataValueStep ==
  ASSUME FileInv, Short(snapshot), Reader(r), r.ok, InMeta, MetadataValue
  PROVE  PlaceInv'
<1>1. PICK k \in 0 .. Len(snapshot.meta) - 1 :
        r.pos = MetaAt(snapshot, k) + 3 /\ text = << <<snapshot.meta[k + 1]>> >>
  BY Zenon DEF InMeta
<1> DEFINE q == MetaAt(snapshot, k)
           name == snapshot.meta[k + 1]
           P == MetaBytes(name)
           x == ValueRead(name)
<1>2. /\ q \in Nat /\ MetaShape(P, name)
      /\ \A j \in 1 .. Len(P) : q + j <= Len(file) => file[q + j] = P[j]
      /\ k + 1 \in 0 .. Len(snapshot.meta)
      /\ MetaAt(snapshot, k + 1) = q + Len(P) /\ q + Len(P) <= Start(snapshot)
      /\ ~IsCut => q + Len(P) <= Len(file)
  BY MetaHere, Zenon
<1> HIDE DEF q, P
<1>3. \A m : (text = << <<m>> >>) <=> name = m
  <2> HIDE DEF name
  <2>1. text = << <<name>> >>
    BY <1>1 DEF name
  <2> QED
    BY <2>1
<1>4. Goto("section", x) /\ text' = <<>> /\ UNCHANGED <<snapshot, file, databases>>
  <2> HIDE DEF name
  <2>1. Goto("section", ValueRead(name)) /\ text' = <<>> /\ UNCHANGED <<snapshot, file, databases>>
    BY <1>3 DEF MetadataValue, ValueRead
  <2> QED
    BY <2>1
<1> HIDE DEF x, name
<1>5. /\ Reader(x)
      /\ x.ok => x.pos = q + Len(P) \/ (x.pos = Len(file) /\ Len(file) < q + Len(P))
      /\ q + Len(P) <= Len(file) /\ Len(file) <= BufSize /\ name \in Known => x.ok
  <2>1. r.pos = q + 3
    BY <1>1 DEF q
  <2> QED
    BY <1>2, <2>1, ValueReadIs, Zenon DEF x, After
<1>6. /\ Reader(r)' /\ r' = x
      /\ x.ok => r'.ok /\ pc' = "section" /\ r'.pos = x.pos
      /\ ~x.ok => pc' = "exited"
  BY <1>4, <1>5, GotoIs, Zenon
<1>7. CASE x.ok
  <2>1. \/ \E i \in 0 .. Len(snapshot.meta) : r'.pos = MetaAt(snapshot, i)
        \/ r'.pos = Len(file) /\ Len(file) <= Start(snapshot)
    <3>1. CASE x.pos = q + Len(P)
      BY <1>2, <1>6, <1>7, <3>1, Zenon
    <3>2. CASE x.pos = Len(file) /\ Len(file) < q + Len(P)
      <4>1. Start(snapshot) \in Nat /\ Len(P) \in Nat /\ Len(file) \in Nat
        <5>1. Layout(snapshot, Saved(snapshot))
          BY SavedIs, Zenon DEF FileInv
        <5> QED
          BY <1>2, <5>1, Zenon DEF Layout, MetaLayout, MetaShape, FileInv
      <4>2. Len(file) <= Start(snapshot)
        BY <1>2, <3>2, <4>1
      <4> QED
        BY <1>6, <1>7, <3>2, <4>2, Zenon
    <3> QED
      BY <1>5, <1>7, <3>1, <3>2
  <2>2. databases' = <<>> /\ pc' = "section" /\ text' = <<>>
    BY <1>4, <1>6, <1>7 DEF InMeta
  <2>3. \/ \E i \in 0 .. Len(snapshot'.meta) : r'.pos = MetaAt(snapshot', i)
        \/ r'.pos = Len(file') /\ Len(file') <= Start(snapshot')
    BY <1>4, <2>1
  <2>4. AtMeta'
    BY <2>2, <2>3, Zenon DEF AtMeta
  <2> QED
    BY <1>6, <1>7, <2>4, Zenon DEF PlaceInv, Reads
<1>8. CASE ~x.ok
  <2>1. ASSUME Good PROVE FALSE
    <3>1. q + Len(P) <= Len(file) /\ Len(file) <= BufSize /\ Range(snapshot.meta) \subseteq Known
      BY <1>2, <2>1, GoodIs, Zenon
    <3>2. name \in Range(snapshot.meta)
      <4>1. k + 1 \in DOMAIN snapshot.meta
        <5>1. snapshot.meta \in Seq(ByteValues)
          BY SnapshotsAssumption DEF FileInv
        <5>2. k + 1 \in 1 .. Len(snapshot.meta) /\ DOMAIN snapshot.meta = 1 .. Len(snapshot.meta)
          BY <5>1, LenProperties
        <5> QED
          BY <5>2
      <4> QED
        BY <4>1 DEF Range, name
    <3> QED
      BY <1>5, <1>8, <3>1, <3>2
  <2> QED
    BY <1>4, <1>6, <1>8, <2>1, Refusal, Zenon
<1> QED
  BY <1>7, <1>8

\* The header of the first database.
LEMMA FirstHeader ==
  ASSUME FileInv, Short(snapshot), Reader(r), r.ok, AtMeta, DatabaseHeader
  PROVE  PlaceInv'
<1> DEFINE one == ReadByte(r)
           mark == ReadByte(one)
           sizes == ReadByte(mark)
           four == ReadByte(sizes)
           end == ReadByte(four)
           x == IF HasByte(mark) /\ Byte(mark) = HashTableInfo THEN end ELSE Failed(mark)
           b == Start(snapshot)
           T == Saved(snapshot)
<1>1. /\ HasByte(r) /\ Byte(r) = Database /\ Goto("entry", x)
      /\ left' = (IF HasByte(sizes) THEN Byte(sizes) ELSE 0)
      /\ databases' = Append(databases, NoDatabase) /\ databases = <<>>
      /\ text' = <<>> /\ UNCHANGED <<snapshot, file>>
  BY DEF DatabaseHeader, Separator, AtMeta
<1>2. r.pos = b /\ snapshot.dbs # <<>>
  <2>1. PICK k \in 0 .. Len(snapshot.meta) :
          /\ r.pos = MetaAt(snapshot, k) /\ Len(snapshot.meta) \in Nat
          /\ k \in 0 .. Len(snapshot.meta) - 1 => Byte(r) = Meta
          /\ k \notin 0 .. Len(snapshot.meta) - 1 =>
               /\ r.pos = Start(snapshot)
               /\ Byte(r) = IF snapshot.dbs = <<>> THEN Eof ELSE Database
    BY <1>1, MetaByte, Zenon
  <2>2. k \notin 0 .. Len(snapshot.meta) - 1
    BY <1>1, <2>1, Separators
  <2> QED
    BY <1>1, <2>1, <2>2, Separators
<1>3. /\ EntryLayout(snapshot, T) /\ b \in Nat /\ b + 9 <= Len(T) /\ Len(T) \in Nat
  <2>1. Layout(snapshot, T)
    BY SavedIs, Zenon DEF FileInv
  <2> QED
    BY <1>2, <2>1, Zenon DEF Layout, MetaLayout
<1>4. /\ T[b + 3] = HashTableInfo /\ T[b + 4] = Len(First) /\ EntryAt(snapshot, 0) = b + 5 /\ Len(First) \in Nat
  BY <1>3, Zenon DEF EntryLayout, First
<1>5. Len(file) \in Nat
  BY DEF FileInv
<1>6. Reader(one) /\ (one.ok <=> HasByte(r)) /\ (HasByte(r) => one.pos = r.pos + 1)
  BY <1>5, ReadByteIs, Zenon
<1>7. Reader(mark) /\ (mark.ok <=> HasByte(one)) /\ (HasByte(one) => mark.pos = one.pos + 1)
  BY <1>5, <1>6, ReadByteIs, Zenon
<1>8. Reader(sizes) /\ (sizes.ok <=> HasByte(mark)) /\ (HasByte(mark) => sizes.pos = mark.pos + 1)
  BY <1>5, <1>7, ReadByteIs, Zenon
<1>9. Reader(four) /\ (four.ok <=> HasByte(sizes)) /\ (HasByte(sizes) => four.pos = sizes.pos + 1)
  BY <1>5, <1>8, ReadByteIs, Zenon
<1>10. Reader(end) /\ (end.ok <=> HasByte(four)) /\ (HasByte(four) => end.pos = four.pos + 1)
  BY <1>5, <1>9, ReadByteIs, Zenon
<1> HIDE DEF one, mark, sizes, four, end, T, b
<1>11. one.ok /\ one.pos = b + 1
  BY <1>1, <1>2, <1>6
<1>12. /\ HasByte(one) <=> b + 1 < Len(file)
       /\ HasByte(one) => mark.ok /\ mark.pos = b + 2
  BY <1>3, <1>5, <1>7, <1>11 DEF HasByte
<1>13. /\ HasByte(mark) <=> b + 2 < Len(file)
       /\ HasByte(mark) => sizes.ok /\ sizes.pos = b + 3
  BY <1>3, <1>5, <1>7, <1>8, <1>12 DEF HasByte
<1>14. /\ HasByte(sizes) <=> b + 3 < Len(file)
       /\ HasByte(sizes) => four.ok /\ four.pos = b + 4
  BY <1>3, <1>5, <1>8, <1>9, <1>13 DEF HasByte
<1>15. /\ HasByte(four) <=> b + 4 < Len(file)
       /\ HasByte(four) => end.ok /\ end.pos = b + 5
  BY <1>3, <1>5, <1>9, <1>10, <1>14 DEF HasByte
<1>16. HasByte(mark) => Byte(mark) = HashTableInfo
  <2>1. HasByte(mark) => Byte(mark) = T[mark.pos + 1]
    BY <1>7, ByteIs, Zenon DEF T
  <2>2. HasByte(mark) => mark.pos + 1 = b + 3
    BY <1>3, <1>5, <1>12, <1>13
  <2> QED
    BY <1>4, <2>1, <2>2
<1>17. Reader(x)
  <2>1. Reader(Failed(mark))
    BY <1>7, FailedIs, Zenon
  <2> QED
    BY <1>10, <2>1
<1>18. x.ok => x = end /\ end.ok /\ HasByte(mark)
  <2>1. ~Failed(mark).ok
    BY <1>7, FailedIs, Zenon
  <2> QED
    BY <2>1
<1>19. b + 5 <= Len(file) => x.ok
  <2>1. b + 5 <= Len(file) => HasByte(mark) /\ end.ok
    BY <1>3, <1>5, <1>13, <1>15
  <2> QED
    BY <1>16, <2>1
<1> HIDE DEF x
<1>20. /\ Reader(r)' /\ r' = x
       /\ x.ok => r'.ok /\ pc' = "entry" /\ r'.pos = x.pos
       /\ ~x.ok => pc' = "exited"
  BY <1>1, <1>17, GotoIs, Zenon
<1>21. CASE x.ok
  <2>1. HasByte(four) /\ HasByte(sizes) /\ r'.pos = b + 5
    BY <1>3, <1>5, <1>10, <1>14, <1>15, <1>18, <1>20, <1>21
  <2>2. Byte(sizes) = Len(First)
    <3>1. Byte(sizes) = T[sizes.pos + 1]
      BY <1>8, <2>1, ByteIs, Zenon DEF T
    <3>2. sizes.pos + 1 = b + 4
      BY <1>3, <1>5, <1>13, <1>14, <2>1
    <3> QED
      BY <1>4, <3>1, <3>2
  <2>3. left' = Len(First)
    BY <1>1, <2>1, <2>2
  <2>4. databases' = << NoDatabase >>
    BY <1>1
  <2>5. KeysHold(<<>>, 0)' /\ ExpiriesHold(<<>>, 0)'
    BY DEF KeysHold, ExpiriesHold, Pairs
  <2>6. Loaded(0)'
    <3>1. NoDatabase = [Keys |-> <<>>, Expiries |-> <<>>]
      BY DEF NoDatabase
    <3>2. snapshot'.dbs # <<>>
      BY <1>1, <1>2
    <3>3. \E ks, es : databases' = << [Keys |-> ks, Expiries |-> es] >> /\ KeysHold(ks, 0)' /\ ExpiriesHold(es, 0)'
      BY <2>4, <2>5, <3>1
    <3> QED
      BY <3>2, <3>3, Zenon DEF Loaded
  <2>7. AtEntry(0)'
    <3>1. pc' = "entry" /\ text' = <<>>
      BY <1>1, <1>20, <1>21
    <3>2. left' = Len(First') - 0
      BY <1>1, <1>4, <2>3 DEF First
    <3>3. r'.pos = EntryAt(snapshot', 0)
      BY <1>1, <1>4, <2>1
    <3> QED
      BY <2>6, <3>1, <3>2, <3>3, Zenon DEF AtEntry
  <2>8. 0 \in 0 .. Len(First') /\ snapshot'.dbs # <<>>
    BY <1>1, <1>2, <1>4 DEF First
  <2> QED
    BY <1>20, <1>21, <2>7, <2>8, Zenon DEF PlaceInv, Reads
<1>22. CASE ~x.ok
  <2>1. ASSUME Good PROVE FALSE
    <3>1. Len(file) = Len(T)
      BY <2>1, GoodIs, Zenon DEF T
    <3> QED
      BY <1>3, <1>19, <1>22, <3>1
  <2> QED
    BY <1>1, <1>20, <1>22, <2>1, Refusal, Zenon
<1> QED
  BY <1>21, <1>22

\* The header of a second database.
LEMMA SecondHeader ==
  ASSUME FileInv, Short(snapshot), Reader(r), AtEnd, DatabaseHeader
  PROVE  Many'
<1>1. HasByte(r) /\ Byte(r) = Database /\ databases' = Append(databases, NoDatabase) /\ snapshot' = snapshot
  BY DEF DatabaseHeader, Separator
<1>2. pc' # "serving"
  BY DEF DatabaseHeader, Goto
<1>3. Len(snapshot.dbs) \in Nat /\ Len(snapshot.dbs) >= 1
      /\ Byte(r) = IF Len(snapshot.dbs) = 1 THEN Eof ELSE Database
  BY <1>1, EndByte, Zenon
<1>4. Len(snapshot.dbs) > 1
  <2>1. Len(snapshot.dbs) # 1
    BY <1>1, <1>3, Separators, Zenon
  <2> QED
    BY <1>3, <2>1, SMTT(60)
<1>5. PICK ks, es : databases = << [Keys |-> ks, Expiries |-> es] >>
  BY Zenon DEF AtEnd, Loaded
<1> DEFINE a == [Keys |-> ks, Expiries |-> es]
<1> HIDE DEF a
<1>6. databases \in Seq({a, NoDatabase}) /\ Len(databases) = 1
  BY <1>5 DEF a
<1>7. databases' \in Seq({a, NoDatabase}) /\ Len(databases') = 2
  <2>1. /\ Append(databases, NoDatabase) \in Seq({a, NoDatabase})
        /\ Len(Append(databases, NoDatabase)) = Len(databases) + 1
    <3>1. NoDatabase \in {a, NoDatabase}
      OBVIOUS
    <3> QED
      BY <1>6, <3>1, AppendProperties, Zenon
  <2> QED
    BY <1>1, <1>6, <2>1
<1> QED
  BY <1>1, <1>2, <1>4, <1>7 DEF Many

\* The end of the file, marked or not.
LEMMA EndOfFileStep ==
  ASSUME FileInv, Short(snapshot), Reader(r), r.ok, AtMeta \/ AtEnd, EndOfFile
  PROVE  PlaceInv'
<1>1. UNCHANGED <<snapshot, file, databases>>
  BY DEF EndOfFile
<1>2. Len(file) \in Nat /\ r.pos \in Nat /\ r.pos <= Len(file)
  BY DEF FileInv, Reader
<1>3. CASE ~HasByte(r)
  <2>1. pc' = "load"
    BY <1>3 DEF EndOfFile, Separator, Goto
  <2>2. r.pos = Len(file)
    BY <1>2, <1>3 DEF HasByte
  <2>3. CASE AtMeta
    <3>1. Len(file) <= Start(snapshot)
      <4>1. ASSUME NEW k \in 0 .. Len(snapshot.meta), r.pos = MetaAt(snapshot, k)
            PROVE  Len(file) <= Start(snapshot)
        <5>1. Layout(snapshot, Saved(snapshot))
          BY SavedIs, Zenon DEF FileInv
        <5> QED
          BY <2>2, <4>1, <5>1, Zenon DEF Layout, MetaLayout
      <4> QED
        BY <2>3, <4>1, Zenon DEF AtMeta
    <3>2. databases' = <<>> /\ Len(file') <= Start(snapshot')
      BY <1>1, <2>3, <3>1 DEF AtMeta
    <3> QED
      BY <2>1, <3>2, Zenon DEF PlaceInv, AtLoad
  <2>4. CASE AtEnd
    <3>1. EntryAt(snapshot, Len(First)) + 9 <= Len(Saved(snapshot)) /\ Len(Saved(snapshot)) \in Nat
      BY <2>4, EndByte, Zenon
    <3>2. Len(file) = EntryAt(snapshot, Len(First)) /\ Loaded(Len(First))
      BY <2>2, <2>4 DEF AtEnd
    <3>3. IsCut
      BY <1>2, <3>1, <3>2 DEF IsCut
    <3>4. Loaded(Len(First))' /\ IsCut'
      BY <1>1, <3>2, <3>3 DEF Loaded, KeysHold, ExpiriesHold, First, IsCut
    <3> QED
      BY <2>1, <3>4, Zenon DEF PlaceInv, AtLoad
  <2> QED
    BY <2>3, <2>4
<1>4. CASE HasByte(r)
  <2> DEFINE one == ReadByte(r)
             x == ReadByte(one)
  <2>1. Byte(r) = Eof /\ Goto("load", x)
    BY <1>4 DEF EndOfFile, Separator
  <2>2. Reader(one) /\ one.ok /\ one.pos = r.pos + 1
    BY <1>2, <1>4, ReadByteIs, Zenon
  <2>3. Reader(x) /\ (x.ok <=> HasByte(one))
    BY <1>2, <2>2, ReadByteIs, Zenon
  <2> HIDE DEF one, x
  <2>4. (x.ok => pc' = "load") /\ (~x.ok => pc' = "exited")
    BY <1>1, <2>1, <2>3, GotoIs, Zenon
  <2>5. CASE AtMeta
    <3>1. PICK k \in 0 .. Len(snapshot.meta) :
            /\ r.pos = MetaAt(snapshot, k) /\ Len(snapshot.meta) \in Nat
            /\ k \in 0 .. Len(snapshot.meta) - 1 => Byte(r) = Meta
            /\ k \notin 0 .. Len(snapshot.meta) - 1 =>
                 /\ r.pos = Start(snapshot)
                 /\ Byte(r) = IF snapshot.dbs = <<>> THEN Eof ELSE Database
      BY <1>4, <2>5, MetaByte, Zenon
    <3>2. k \notin 0 .. Len(snapshot.meta) - 1
      BY <2>1, <3>1, Separators
    <3>3. snapshot.dbs = <<>> /\ r.pos = Start(snapshot)
      BY <2>1, <3>1, <3>2, Separators
    <3>4. CASE x.ok
      <4>1. databases' = <<>> /\ snapshot'.dbs = <<>> /\ pc' = "load"
        BY <1>1, <2>4, <2>5, <3>3, <3>4 DEF AtMeta
      <4> QED
        BY <4>1, Zenon DEF PlaceInv, AtLoad
    <3>5. CASE ~x.ok
      <4>1. ASSUME Good PROVE FALSE
        <5>1. Layout(snapshot, Saved(snapshot))
          BY SavedIs, Zenon DEF FileInv
        <5>2. Start(snapshot) + 9 <= Len(Saved(snapshot))
          BY <5>1, Zenon DEF Layout
        <5>3. Len(file) = Len(Saved(snapshot))
          BY <4>1, GoodIs, Zenon
        <5> QED
          BY <1>2, <2>2, <2>3, <3>3, <3>5, <5>2, <5>3 DEF HasByte
      <4> QED
        BY <1>1, <2>4, <3>5, <4>1, Refusal, Zenon
    <3> QED
      BY <3>4, <3>5
  <2>6. CASE AtEnd
    <3>1. /\ EntryAt(snapshot, Len(First)) + 9 <= Len(Saved(snapshot)) /\ Len(Saved(snapshot)) \in Nat
          /\ Byte(r) = IF Len(snapshot.dbs) = 1 THEN Eof ELSE Database
      BY <1>4, <2>6, EndByte, Zenon
    <3>2. r.pos = EntryAt(snapshot, Len(First)) /\ Loaded(Len(First))
      BY <2>6 DEF AtEnd
    <3>3. Len(snapshot.dbs) = 1
      BY <2>1, <3>1, Separators
    <3>4. CASE x.ok
      <4>1. Loaded(Len(First))' /\ Len(snapshot'.dbs) = 1 /\ pc' = "load"
        BY <1>1, <2>4, <3>2, <3>3, <3>4 DEF Loaded, KeysHold, ExpiriesHold, First
      <4> QED
        BY <4>1, Zenon DEF PlaceInv, AtLoad
    <3>5. CASE ~x.ok
      <4>1. ASSUME Good PROVE FALSE
        <5>1. Len(file) = Len(Saved(snapshot))
          BY <4>1, GoodIs, Zenon
        <5> QED
          BY <1>2, <2>2, <2>3, <3>1, <3>2, <3>5, <5>1 DEF HasByte
      <4> QED
        BY <1>1, <2>4, <3>5, <4>1, Refusal, Zenon
    <3> QED
      BY <3>4, <3>5
  <2> QED
    BY <2>5, <2>6
<1> QED
  BY <1>3, <1>4

\* No other byte is where a section begins, and no metadata after a database.
LEMMA NoOtherSeparator ==
  ASSUME FileInv, Short(snapshot), Reader(r), AtMeta \/ AtEnd
  PROVE  ~OtherSeparator /\ (AtEnd => ~MetadataName)
<1>1. CASE ~HasByte(r)
  BY <1>1 DEF OtherSeparator, MetadataName, Separator
<1>2. CASE HasByte(r) /\ AtMeta
  <2>1. PICK k \in 0 .. Len(snapshot.meta) :
          /\ r.pos = MetaAt(snapshot, k) /\ Len(snapshot.meta) \in Nat
          /\ k \in 0 .. Len(snapshot.meta) - 1 => Byte(r) = Meta
          /\ k \notin 0 .. Len(snapshot.meta) - 1 =>
               /\ r.pos = Start(snapshot)
               /\ Byte(r) = IF snapshot.dbs = <<>> THEN Eof ELSE Database
    BY <1>2, MetaByte, Zenon
  <2>2. Byte(r) \in {Meta, Database, Eof}
    BY <2>1
  <2>3. AtEnd => FALSE
    BY <1>2 DEF AtEnd, AtMeta, Loaded
  <2> QED
    BY <2>2, <2>3 DEF OtherSeparator
<1>3. CASE HasByte(r) /\ AtEnd
  <2>1. Byte(r) = IF Len(snapshot.dbs) = 1 THEN Eof ELSE Database
    BY <1>3, EndByte, Zenon
  <2>2. Byte(r) \in {Database, Eof}
    BY <2>1
  <2> QED
    BY <2>2, Separators DEF OtherSeparator, MetadataName, Separator
<1> QED
  BY <1>1, <1>2, <1>3

\* A map with one key more.
LEMMA PairsWith ==
  ASSUME NEW m, NEW k, NEW v, k \notin DOMAIN m
  PROVE  Pairs(With(m, k, v)) = Pairs(m) \cup {<<k, v>>}
<1> DEFINE f == With(m, k, v)
<1>1. /\ DOMAIN f = {k} \cup DOMAIN m
      /\ f[k] = v /\ \A x \in DOMAIN m : f[x] = m[x]
  BY DEF With
<1> HIDE DEF f
<1>2. Pairs(f) = Pairs(m) \cup {<<k, v>>}
  BY <1>1 DEF Pairs
<1> QED
  BY <1>2 DEF f

\* The key of an entry is not one of those before it.
LEMMA NewKey ==
  ASSUME FileInv, snapshot.dbs # <<>>, Len(First) \in Nat, NEW n \in 0 .. Len(First) - 1, NEW j \in 1 .. n
  PROVE  First[j].key # First[n + 1].key
<1>1. snapshot.dbs \in Seq(Seq(Entries)) /\ snapshot \in Snapshots
  BY SnapshotsAssumption DEF FileInv
<1>2. 1 \in DOMAIN snapshot.dbs /\ 1 \in 1 .. Len(snapshot.dbs)
  <2> DEFINE d == snapshot.dbs
  <2>1. d \in Seq(Seq(Entries)) /\ d # <<>>
    BY <1>1
  <2> HIDE DEF d
  <2>2. Len(d) \in Nat /\ Len(d) # 0 /\ DOMAIN d = 1 .. Len(d)
    BY <2>1, LenProperties, EmptySeq
  <2>3. 1 \in DOMAIN d /\ 1 \in 1 .. Len(d)
    BY <2>2
  <2> QED
    BY <2>3 DEF d
<1>3. First \in Seq(Entries)
  BY <1>1, <1>2, ElementOfSeq, Zenon DEF First
<1>4. DOMAIN First = 1 .. Len(First)
  BY <1>3, LenProperties, Zenon
<1>5. j \in DOMAIN First /\ n + 1 \in DOMAIN First /\ j # n + 1
  BY <1>4
<1>6. \A a, b \in DOMAIN First : First[a].key = First[b].key => a = b
  BY <1>1, <1>2, SnapshotsAssumption, Zenon DEF First
<1> QED
  BY <1>5, <1>6, Zenon

\* The maps with the next entry.
LEMMA KeysGrow ==
  ASSUME FileInv, snapshot.dbs # <<>>, Len(First) \in Nat, NEW n \in 0 .. Len(First) - 1,
         NEW m, KeysHold(m, n)
  PROVE  KeysHold(With(m, <<First[n + 1].key>>, First[n + 1].value.text), n + 1)
<1> DEFINE k == <<First[n + 1].key>>
           v == First[n + 1].value.text
           F(i) == << <<First[i].key>>, First[i].value.text >>
<1>1. k \notin DOMAIN m
  <2>1. ASSUME k \in DOMAIN m PROVE FALSE
    <3>1. <<k, m[k]>> \in Pairs(m)
      BY <2>1, Zenon DEF Pairs
    <3>2. PICK j \in 1 .. n : <<k, m[k]>> = F(j)
      BY <3>1, Zenon DEF KeysHold
    <3>3. First[j].key = First[n + 1].key
      BY <3>2
    <3> QED
      BY <3>3, NewKey, Zenon
  <2> QED
    BY <2>1
<1> DEFINE f == With(m, k, v)
<1>2. Pairs(f) = Pairs(m) \cup {<<k, v>>}
  BY <1>1, PairsWith, Zenon
<1>3. Pairs(m) = {F(j) : j \in 1 .. n} /\ <<k, v>> = F(n + 1)
  BY Zenon DEF KeysHold
<1> HIDE DEF f, k, v, F
<1>4. 1 .. n + 1 = (1 .. n) \cup {n + 1}
  OBVIOUS
<1>5. Pairs(f) = {F(j) : j \in 1 .. n + 1}
  BY <1>2, <1>3, <1>4, Zenon
<1> QED
  BY <1>5, Zenon DEF KeysHold, f, k, v, F

\* Storing the deadline of entry n + 1, if it has one, keeps the first n deadlines.
LEMMA ExpiriesGrow ==
  ASSUME FileInv, snapshot.dbs # <<>>, Len(First) \in Nat, NEW n \in 0 .. Len(First) - 1,
         NEW m, ExpiriesHold(m, n)
  PROVE  ExpiriesHold(IF First[n + 1].unit = "none" THEN m
                      ELSE With(m, <<First[n + 1].key>>, First[n + 1].deadline), n + 1)
<1> DEFINE k == <<First[n + 1].key>>
           v == First[n + 1].deadline
           F(i) == << <<First[i].key>>, First[i].deadline >>
           D(i) == {j \in 1 .. i : First[j].unit # "none"}
<1>1. k \notin DOMAIN m
  <2>1. ASSUME k \in DOMAIN m PROVE FALSE
    <3>1. <<k, m[k]>> \in Pairs(m)
      BY <2>1, Zenon DEF Pairs
    <3>2. PICK j \in D(n) : <<k, m[k]>> = F(j)
      BY <3>1, Zenon DEF ExpiriesHold
    <3>3. First[j].key = First[n + 1].key /\ j \in 1 .. n
      BY <3>2
    <3> QED
      BY <3>3, NewKey, Zenon
  <2> QED
    BY <2>1
<1>2. Pairs(m) = {F(j) : j \in D(n)} /\ <<k, v>> = F(n + 1)
  BY Zenon DEF ExpiriesHold
<1>3. CASE First[n + 1].unit = "none"
  <2>1. D(n + 1) = D(n)
    BY <1>3
  <2> HIDE DEF F, D
  <2>2. Pairs(m) = {F(j) : j \in D(n + 1)}
    BY <1>2, <2>1, Zenon
  <2> QED
    BY <1>3, <2>2, Zenon DEF ExpiriesHold, F, D
<1>4. CASE First[n + 1].unit # "none"
  <2> DEFINE f == With(m, k, v)
  <2>1. Pairs(f) = Pairs(m) \cup {<<k, v>>}
    BY <1>1, PairsWith, Zenon
  <2>2. D(n + 1) = D(n) \cup {n + 1}
    BY <1>4
  <2> HIDE DEF f, k, v, F, D
  <2>3. Pairs(f) = {F(j) : j \in D(n + 1)}
    BY <1>2, <2>1, <2>2, Zenon
  <2> QED
    BY <1>4, <2>3, Zenon DEF ExpiriesHold, f, k, v, F, D
<1> QED
  BY <1>3, <1>4

\* The update of the only database.
LEMMA OnlyWith ==
  ASSUME NEW p, NEW q
  PROVE  [<<p>> EXCEPT ![1] = q] = <<q>>
<1>1. <<p>> = [i \in 1 .. 1 |-> p] /\ <<q>> = [i \in 1 .. 1 |-> q]
  OBVIOUS
<1> QED
  BY <1>1

Stored(d, k, v, t) ==
  [d EXCEPT ![1].Keys = With(@, k, v),
            ![1].Expiries = IF Len(t) = 1 THEN @ ELSE With(@, t[1], t[2])]

\* EntryValue changes the only database.
LEMMA DatabaseWith ==
  ASSUME NEW ks, NEW es, NEW k, NEW v, NEW t
  PROVE  Stored(<< [Keys |-> ks, Expiries |-> es] >>, k, v, t)
         = << [Keys |-> With(ks, k, v), Expiries |-> IF Len(t) = 1 THEN es ELSE With(es, t[1], t[2])] >>
<1> DEFINE p == [Keys |-> ks, Expiries |-> es]
           d == <<p>>
           y == With(ks, k, v)
           z == IF Len(t) = 1 THEN es ELSE With(es, t[1], t[2])
           p1 == [d[1] EXCEPT !.Keys = With(d[1].Keys, k, v)]
           f == [d EXCEPT ![1] = p1]
           p2 == [f[1] EXCEPT !.Expiries = IF Len(t) = 1 THEN f[1].Expiries ELSE With(f[1].Expiries, t[1], t[2])]
<1>1. Stored(d, k, v, t) = [f EXCEPT ![1] = p2]
  BY DEF Stored
<1>2. d = <<p>> /\ d[1] = p /\ p.Keys = ks
  OBVIOUS
<1>3. p1 = [Keys |-> y, Expiries |-> es]
  <2>1. p1 = [p EXCEPT !.Keys = y]
    BY <1>2
  <2> HIDE DEF y, p1
  <2> QED
    BY <2>1
<1> HIDE DEF p1, y
<1>4. f = <<p1>>
  <2> HIDE DEF p
  <2> QED
    BY <1>2, OnlyWith, Zenon
<1>5. f[1] = p1 /\ p1.Expiries = es
  BY <1>3, <1>4
<1> HIDE DEF f
<1>6. p2 = [Keys |-> y, Expiries |-> z]
  <2>1. p2 = [p1 EXCEPT !.Expiries = z]
    BY <1>5
  <2> HIDE DEF z, p2
  <2> QED
    BY <1>3, <2>1
<1> HIDE DEF p2, z
<1>7. [f EXCEPT ![1] = p2] = <<p2>>
  BY <1>4, OnlyWith, Zenon
<1>8. [f EXCEPT ![1] = p2] = << [Keys |-> y, Expiries |-> z] >>
  BY <1>6, <1>7
<1> QED
  BY <1>1, <1>8 DEF y, z, f, p1, p2

\* The types of an entry's fields.
LEMMA EntryTypes ==
  ASSUME NEW e \in Entries
  PROVE  /\ e.key \in Nat /\ e.deadline \in Nat /\ e.unit \in {"none", "ms", "s"}
         /\ e.value.text \in Seq(Nat)
<1>1. /\ e.key \in ByteValues /\ e.deadline \in ByteValues /\ e.unit \in {"none", "ms", "s"}
      /\ e.value.text \in Seq(ByteValues)
  BY DEF Entries, Values
<1>2. ByteValues \subseteq Nat
  BY DEF ByteValues
<1>3. e.value.text \in Seq(Nat)
  BY <1>1, <1>2, SeqMonotonic, Zenon
<1> QED
  BY <1>1, <1>2, <1>3

\* The first database has a length.
LEMMA FirstIs ==
  ASSUME FileInv, Short(snapshot), snapshot.dbs # <<>>
  PROVE  Len(First) \in Nat
<1>1. Layout(snapshot, Saved(snapshot))
  BY SavedIs, Zenon DEF FileInv
<1> QED
  BY <1>1, Zenon DEF Layout, EntryLayout, First

\* What was loaded stays loaded.
LEMMA LoadedStays ==
  ASSUME NEW n, Loaded(n), UNCHANGED <<snapshot, databases>>
  PROVE  Loaded(n)'
BY DEF Loaded, KeysHold, ExpiriesHold, First

\* All entries are read.
LEMMA EntriesReadStep ==
  ASSUME FileInv, Short(snapshot), Reader(r), r.ok, NEW n \in 0 .. Len(First), AtEntry(n), EntriesRead
  PROVE  PlaceInv'
<1>1. Loaded(n) /\ left = Len(First) - n /\ left = 0 /\ snapshot.dbs # <<>>
  BY DEF AtEntry, EntriesRead, Loaded
<1>2. Len(First) \in Nat
  BY <1>1, FirstIs
<1>3. n = Len(First)
  BY <1>1, <1>2
<1>4. UNCHANGED <<snapshot, databases, file, r, text>> /\ pc' = "section"
  BY DEF EntriesRead
<1>6. Len(First') = n /\ r'.pos = EntryAt(snapshot', n) /\ text' = <<>>
  BY <1>3, <1>4 DEF AtEntry, First
<1>7. AtEnd'
  <2>1. Loaded(Len(First))
    BY <1>1, <1>3, Zenon
  <2>2. Loaded(Len(First))'
    BY <1>4, <2>1, SMTT(60) DEF Loaded, KeysHold, ExpiriesHold, First
  <2>3. r'.pos = EntryAt(snapshot', Len(First'))
    BY <1>6
  <2> QED
    BY <1>4, <1>6, <2>2, <2>3, Zenon DEF AtEnd
<1>8. Reader(r)' /\ r'.ok
  BY <1>4 DEF Reader
<1> QED
  BY <1>7, <1>8, Zenon DEF PlaceInv, Reads

\* The deadline of an entry that has one, and the byte after that of one that has none.
LEMMA EntryDeadlineStep ==
  ASSUME FileInv, Short(snapshot), Reader(r), r.ok, NEW n \in 0 .. Len(First), AtEntry(n), EntryDeadline
  PROVE  PlaceInv'
<1> DEFINE e == First[n + 1]
           q == EntryAt(snapshot, n)
           P == EntryBytes(e)
           d == DeadlineLen(e)
           number == Discard(Filled(r, 1), 1)
           bytes == IF HasByte(r) THEN ExpiryBytes(Byte(r)) ELSE 0
           x == IF bytes = 0 THEN (IF HasByte(r) THEN Filled(r, 1) ELSE Failed(r)) ELSE ReadFull(number, bytes)
<1>1. /\ Loaded(n) /\ left = Len(First) - n /\ left > 0 /\ snapshot.dbs # <<>>
      /\ r.pos = q /\ text = <<>> /\ UNCHANGED <<snapshot, file, left, databases>>
  BY DEF AtEntry, EntryDeadline, Loaded
<1>2. Len(First) \in Nat
  BY <1>1, FirstIs
<1>3. n \in 0 .. Len(First) - 1
  BY <1>1, <1>2
<1>4. /\ q \in Nat /\ EntryShape(P, e) /\ e \in Entries
      /\ \A j \in 1 .. Len(P) : q + j <= Len(file) => file[q + j] = P[j]
      /\ ~IsCut => q + Len(P) <= Len(file)
  BY <1>1, <1>3, EntryHere, Zenon
<1>5. e.unit \in {"none", "ms", "s"}
  BY <1>4, EntryTypes
<1>6. /\ Goto("key", x)
      /\ text' = IF bytes = 0 THEN text ELSE IF HasByte(number) THEN <<Byte(number)>> ELSE <<>>
  BY DEF EntryDeadline
<1>7. Len(file) \in Nat /\ file \in Seq(Nat) /\ r.pos \in Nat
  BY DEF FileInv, Reader
<1> HIDE DEF e, q, P, d
<1>8. /\ Len(P) \in Nat /\ d \in Nat /\ Len(P) >= d + 4
      /\ P[1] = (CASE e.unit = "ms" -> ExpiryMs [] e.unit = "s" -> ExpiryS [] OTHER -> 0)
      /\ e.unit # "none" => P[2] = e.deadline
  <2>1. /\ Len(P) \in Nat /\ d \in Nat /\ Len(e.value.text) \in Nat
        /\ Len(P) = d + 4 + Len(e.value.text)
        /\ P[1] = (CASE e.unit = "ms" -> ExpiryMs [] e.unit = "s" -> ExpiryS [] OTHER -> 0)
        /\ e.unit # "none" => P[2] = e.deadline
    BY <1>4, Zenon DEF EntryShape, d
  <2>2. Len(P) >= d + 4
    BY <2>1
  <2> QED
    BY <2>1, <2>2, Zenon
<1>9. HasByte(r) <=> q + 1 <= Len(file)
  BY <1>1, <1>7 DEF HasByte
<1>10. HasByte(r) => Byte(r) = P[1]
  <2>1. 1 \in 1 .. Len(P)
    BY <1>8
  <2> QED
    BY <1>1, <1>4, <1>9, <2>1, Zenon DEF Byte
<1>11. HasByte(r) => bytes = IF e.unit = "none" THEN 0 ELSE d - 1
  BY <1>5, <1>8, <1>10 DEF ExpiryBytes, ExpiryMs, ExpiryS, DeadlineLen, d, bytes
<1>12. e.unit = "none" => d = 0
  BY DEF DeadlineLen, d
<1>13. e.unit # "none" => d - 1 \in Nat /\ d - 1 > 0
  BY <1>5 DEF DeadlineLen, d
<1>14. Reader(Filled(r, 1)) /\ Filled(r, 1).ok /\ Filled(r, 1).pos = q
  <2>1. 1 \in Nat
    OBVIOUS
  <2> QED
    BY <1>1, <1>7, <2>1, FilledIs, Zenon
<1>15. /\ Reader(number) /\ number.ok
       /\ q + 1 <= Len(file) => number.pos = q + 1
  <2>1. 1 \in 0 .. 16
    OBVIOUS
  <2> QED
    BY <1>7, <1>14, <2>1, DiscardIs, Zenon
<1> HIDE DEF number, bytes
<1>16. /\ Reader(x)
       /\ x.ok => HasByte(r) /\ x.pos = q + d /\ text' = Deadline(e)
       /\ q + Len(P) <= Len(file) /\ Len(file) <= BufSize => x.ok
  <2>1. CASE ~HasByte(r)
    <3>1. x = Failed(r)
      BY <2>1 DEF bytes
    <3>2. ~(q + Len(P) <= Len(file))
      BY <1>4, <1>7, <1>8, <1>9, <2>1
    <3>3. Reader(Failed(r)) /\ ~Failed(r).ok
      BY FailedIs, Zenon
    <3> QED
      BY <3>1, <3>2, <3>3
  <2>2. CASE HasByte(r) /\ e.unit = "none"
    <3>1. x = Filled(r, 1) /\ text' = <<>> /\ d = 0
      BY <1>1, <1>6, <1>11, <1>12, <2>2
    <3>2. Deadline(e) = <<>> /\ q + d = q
      BY <1>4, <2>2, <3>1 DEF Deadline
    <3> HIDE DEF x
    <3> QED
      BY <1>14, <2>2, <3>1, <3>2
  <2>3. CASE HasByte(r) /\ e.unit # "none"
    <3> DEFINE y == ReadFull(number, d - 1)
    <3>1. x = y /\ bytes = d - 1 /\ bytes # 0
      BY <1>11, <1>13, <2>3
    <3>2. number.pos = q + 1
      BY <1>9, <1>15, <2>3
    <3>3. /\ Reader(y)
          /\ y.ok => number.ok /\ y.pos = number.pos + (d - 1) /\ y.pos <= Len(file)
          /\ number.ok /\ number.pos + (d - 1) <= Len(file) /\ Len(file) <= BufSize => y.ok
      BY <1>7, <1>13, <1>15, <2>3, ReadFullIs, Zenon
    <3> HIDE DEF x, y
    <3>4. y.ok => y.pos = q + d /\ q + 2 <= Len(file)
      <4>1. q \in Nat /\ d \in Nat /\ d - 1 > 0
        BY <1>4, <1>8, <1>13, <2>3
      <4>2. y.ok => y.pos = (q + 1) + (d - 1) /\ y.pos <= Len(file)
        BY <3>2, <3>3
      <4> QED
        BY <1>7, <4>1, <4>2
    <3>5. q + Len(P) <= Len(file) /\ Len(file) <= BufSize => y.ok
      BY <1>4, <1>7, <1>8, <1>15, <3>2, <3>3
    <3>6. y.ok => text' = <<e.deadline>>
      <4>1. 2 \in 1 .. Len(P)
        BY <1>8
      <4>2. ASSUME y.ok PROVE HasByte(number) /\ Byte(number) = e.deadline
        <5>1. number.pos + 1 = q + 2
          BY <1>4, <3>2
        <5>2. HasByte(number)
          BY <1>4, <1>7, <1>15, <3>2, <3>4, <4>2 DEF HasByte
        <5> QED
          BY <1>4, <1>8, <2>3, <3>4, <4>1, <4>2, <5>1, <5>2, Zenon DEF Byte
      <4> QED
        BY <1>6, <3>1, <4>2
    <3>7. Deadline(e) = <<e.deadline>>
      BY <2>3 DEF Deadline
    <3> QED
      BY <2>3, <3>1, <3>3, <3>4, <3>5, <3>6, <3>7
  <2> QED
    BY <2>1, <2>2, <2>3
<1> HIDE DEF x
<1>17. /\ Reader(r)' /\ r' = x
       /\ x.ok => r'.ok /\ pc' = "key" /\ r'.pos = x.pos
       /\ ~x.ok => pc' = "exited"
  BY <1>1, <1>6, <1>16, GotoIs, Zenon
<1>18. CASE x.ok
  <2>1. Loaded(n)'
    BY <1>1, LoadedStays
  <2>2. First' = First /\ left' = Len(First) - n
    BY <1>1 DEF First
  <2>3. r'.pos = EntryAt(snapshot', n) + DeadlineLen(First'[n + 1]) /\ text' = Deadline(First'[n + 1])
    <3>1. r'.pos = q + d /\ text' = Deadline(e) /\ snapshot' = snapshot
      BY <1>1, <1>16, <1>17, <1>18
    <3> QED
      BY <2>2, <3>1 DEF q, d, e
  <2>4. AtKey(n)'
    BY <1>17, <1>18, <2>1, <2>2, <2>3, Zenon DEF AtKey
  <2>5. n \in 0 .. Len(First') - 1 /\ snapshot'.dbs # <<>>
    BY <1>1, <1>3, <2>2
  <2> QED
    BY <1>17, <1>18, <2>4, <2>5, Zenon DEF PlaceInv, Reads
<1>19. CASE ~x.ok
  <2>1. ASSUME Good PROVE FALSE
    <3>1. ~IsCut /\ Len(file) <= BufSize
      BY <2>1, GoodIs, Zenon
    <3> QED
      BY <1>4, <1>16, <1>19, <3>1, Zenon
  <2> QED
    BY <1>1, <1>17, <1>19, <2>1, Refusal, Zenon
<1> QED
  BY <1>18, <1>19

\* Where the bytes of an entry are that follow its deadline.
LEMMA EntryPlaces ==
  ASSUME NEW P, NEW e, EntryShape(P, e), NEW q \in Nat, NEW p, p = q + DeadlineLen(e)
  PROVE  LET d == DeadlineLen(e)
             m == Len(e.value.text)
         IN /\ d + 1 \in 1 .. Len(P) /\ d + 2 \in 1 .. Len(P) /\ d + 3 \in 1 .. Len(P) /\ d + 4 \in 1 .. Len(P)
            /\ q + (d + 1) = p + 1 /\ q + (d + 2) = p + 2 /\ q + (d + 3) = p + 3 /\ q + (d + 4) = p + 4
            /\ p \in Nat /\ q + Len(P) = p + 4 + m /\ m \in Nat
<1> DEFINE d == DeadlineLen(e)
           m == Len(e.value.text)
           l == Len(P)
<1>1. d \in Nat /\ m \in Nat /\ l \in Nat /\ l = d + 4 + m
  BY Zenon DEF EntryShape
<1>2. p = q + d
  OBVIOUS
<1> HIDE DEF d, m, l
<1>3. /\ d + 1 \in 1 .. l /\ d + 2 \in 1 .. l /\ d + 3 \in 1 .. l /\ d + 4 \in 1 .. l
      /\ q + (d + 1) = p + 1 /\ q + (d + 2) = p + 2 /\ q + (d + 3) = p + 3 /\ q + (d + 4) = p + 4
      /\ p \in Nat /\ q + l = p + 4 + m /\ m \in Nat
  BY <1>1, <1>2
<1> QED
  BY <1>3, Zenon DEF d, m, l

\* The type of an entry, and its key.
LEMMA EntryKeyStep ==
  ASSUME FileInv, Short(snapshot), Reader(r), r.ok, NEW n \in 0 .. Len(First) - 1, AtKey(n), EntryKey
  PROVE  PlaceInv'
<1> DEFINE e == First[n + 1]
           q == EntryAt(snapshot, n)
           P == EntryBytes(e)
           d == DeadlineLen(e)
           y == ReadByte(r)
           z == readStringValue(y)
           x == IF HasByte(r) /\ Byte(r) = 0 THEN z ELSE Failed(r)
           b == e.key
<1>1. /\ Loaded(n) /\ left = Len(First) - n /\ snapshot.dbs # <<>>
      /\ r.pos = q + d /\ text = Deadline(e) /\ UNCHANGED <<snapshot, file, left, databases>>
  BY DEF AtKey, EntryKey, Loaded
<1>2. Goto("value", x) /\ text' = <<StringAt(y)>> \o text
  BY DEF EntryKey
<1>3. /\ q \in Nat /\ EntryShape(P, e) /\ e \in Entries
      /\ \A j \in 1 .. Len(P) : q + j <= Len(file) => file[q + j] = P[j]
      /\ ~IsCut => q + Len(P) <= Len(file)
  BY <1>1, EntryHere, Zenon
<1>4. Len(file) \in Nat /\ file \in Seq(Nat) /\ r.pos \in Nat
  BY DEF FileInv, Reader
<1>5. b \in Nat
  BY <1>3, EntryTypes
<1> HIDE DEF e, q, P, d, b
<1>6. P[d + 1] = 0 /\ P[d + 2] = 1 /\ P[d + 3] = b
  BY <1>3, Zenon DEF EntryShape, d, b
<1>7. /\ d + 1 \in 1 .. Len(P) /\ d + 2 \in 1 .. Len(P) /\ d + 3 \in 1 .. Len(P)
      /\ q + (d + 1) = r.pos + 1 /\ q + (d + 2) = r.pos + 2 /\ q + (d + 3) = r.pos + 3
      /\ q + Len(P) = r.pos + 4 + Len(e.value.text) /\ Len(e.value.text) \in Nat
  <2>1. EntryShape(P, e) /\ q \in Nat /\ r.pos = q + DeadlineLen(e)
    BY <1>1, <1>3, Zenon DEF d
  <2> DEFINE c == DeadlineLen(e)
             m == Len(e.value.text)
  <2>2. /\ c + 1 \in 1 .. Len(P) /\ c + 2 \in 1 .. Len(P) /\ c + 3 \in 1 .. Len(P) /\ c + 4 \in 1 .. Len(P)
        /\ q + (c + 1) = r.pos + 1 /\ q + (c + 2) = r.pos + 2 /\ q + (c + 3) = r.pos + 3 /\ q + (c + 4) = r.pos + 4
        /\ r.pos \in Nat /\ q + Len(P) = r.pos + 4 + m /\ m \in Nat
    BY <2>1, EntryPlaces, Zenon
  <2> QED
    BY <2>2, Zenon DEF d
<1>8. /\ r.pos + 1 <= Len(file) => file[r.pos + 1] = 0
      /\ r.pos + 2 <= Len(file) => file[r.pos + 2] = 1
      /\ r.pos + 3 <= Len(file) => file[r.pos + 3] = b
  <2>1. ASSUME NEW i \in 1 .. Len(P), NEW p, q + i = p, p <= Len(file) PROVE file[p] = P[i]
    BY <1>3, <2>1
  <2>2. r.pos + 1 <= Len(file) => file[r.pos + 1] = P[d + 1]
    BY <1>7, <2>1
  <2>3. r.pos + 2 <= Len(file) => file[r.pos + 2] = P[d + 2]
    BY <1>7, <2>1
  <2>4. r.pos + 3 <= Len(file) => file[r.pos + 3] = P[d + 3]
    BY <1>7, <2>1
  <2> QED
    BY <1>6, <2>2, <2>3, <2>4, Zenon
<1>9. HasByte(r) <=> r.pos + 1 <= Len(file)
  BY <1>4 DEF HasByte
<1>10. HasByte(r) => Byte(r) = 0
  BY <1>8, <1>9 DEF Byte
<1>11. Reader(y) /\ (y.ok <=> HasByte(r)) /\ (HasByte(r) => y.pos = r.pos + 1)
  BY <1>4, ReadByteIs, Zenon
<1> HIDE DEF y, z
<1>12. ASSUME HasByte(r)
       PROVE  /\ x = z /\ Reader(z)
              /\ z.ok => z.pos = r.pos + 3 /\ StringAt(y) = <<b>>
              /\ r.pos + 3 <= Len(file) /\ Len(file) <= BufSize => z.ok
  <2>1. y.ok /\ y.pos + 1 = r.pos + 2 /\ y.pos + 2 = r.pos + 3
    <3> DEFINE i == r.pos
               l == y.pos
    <3>1. y.ok /\ l = i + 1 /\ i \in Nat
      BY <1>4, <1>11, <1>12, Zenon
    <3> HIDE DEF i, l
    <3>2. l + 1 = i + 2 /\ l + 2 = i + 3
      BY <3>1
    <3> QED
      BY <3>1, <3>2, Zenon DEF i, l
  <2>2. /\ Reader(z)
        /\ z.ok => z.pos = y.pos + 2 /\ StringAt(y) = <<b>>
        /\ y.pos + 2 <= Len(file) /\ Len(file) <= BufSize => z.ok
    <3>1. /\ y.pos + 1 <= Len(file) => file[y.pos + 1] = 1
          /\ y.pos + 2 <= Len(file) => file[y.pos + 2] = b
      BY <1>8, <2>1
    <3> QED
      BY <1>4, <1>5, <1>11, <2>1, <3>1, OneByteString, Zenon DEF z
  <2>3. x = z
    BY <1>10, <1>12
  <2> HIDE DEF x
  <2> QED
    BY <2>1, <2>2, <2>3
<1>13. /\ Reader(x)
       /\ x.ok => x.pos = r.pos + 3 /\ StringAt(y) = <<b>>
       /\ r.pos + 3 <= Len(file) /\ Len(file) <= BufSize => x.ok
  <2>1. CASE HasByte(r)
    <3> HIDE DEF x
    <3> QED
      BY <1>12, <2>1
  <2>2. CASE ~HasByte(r)
    <3>1. x = Failed(r) /\ Reader(Failed(r)) /\ ~Failed(r).ok
      BY <2>2, FailedIs
    <3>2. ~(r.pos + 3 <= Len(file))
      BY <1>4, <1>9, <2>2
    <3> HIDE DEF x
    <3> QED
      BY <3>1, <3>2
  <2> QED
    BY <2>1, <2>2
<1> HIDE DEF x
<1>14. /\ Reader(r)' /\ r' = x
       /\ x.ok => r'.ok /\ pc' = "value" /\ r'.pos = x.pos
       /\ ~x.ok => pc' = "exited"
  BY <1>1, <1>2, <1>13, GotoIs, Zenon
<1>15. CASE x.ok
  <2>1. Loaded(n)'
    BY <1>1, LoadedStays
  <2>2. First' = First /\ left' = Len(First) - n
    BY <1>1 DEF First
  <2>3. r'.pos = EntryAt(snapshot', n) + DeadlineLen(First'[n + 1]) + 3
    <3>1. r'.pos = q + d + 3 /\ snapshot' = snapshot
      BY <1>1, <1>13, <1>14, <1>15
    <3> QED
      BY <2>2, <3>1 DEF q, d, e
  <2>4. text' = << <<First'[n + 1].key>> >> \o Deadline(First'[n + 1])
    <3>1. text' = << <<b>> >> \o Deadline(e)
      BY <1>1, <1>2, <1>13, <1>15
    <3> QED
      BY <2>2, <3>1 DEF b, e
  <2>5. AtValue(n)'
    BY <1>14, <1>15, <2>1, <2>2, <2>3, <2>4, Zenon DEF AtValue
  <2>6. n \in 0 .. Len(First') - 1 /\ snapshot'.dbs # <<>>
    BY <1>1, <2>2
  <2> QED
    BY <1>14, <1>15, <2>5, <2>6, Zenon DEF PlaceInv, Reads
<1>16. CASE ~x.ok
  <2>1. ASSUME Good PROVE FALSE
    <3>1. q + Len(P) <= Len(file) /\ Len(file) <= BufSize
      BY <1>3, <2>1, GoodIs, Zenon
    <3>2. r.pos + 3 <= Len(file)
      <4> DEFINE i == r.pos
                 m == Len(e.value.text)
                 t == q + Len(P)
      <4>1. i \in Nat /\ m \in Nat /\ t = i + 4 + m /\ t <= Len(file) /\ Len(file) \in Nat
        BY <1>4, <1>7, <3>1, Zenon
      <4> HIDE DEF i, m, t
      <4>2. i + 3 <= Len(file)
        BY <4>1
      <4> QED
        BY <4>2, Zenon DEF i
    <3> QED
      BY <1>13, <1>16, <3>1, <3>2, Zenon
  <2> QED
    BY <1>1, <1>14, <1>16, <2>1, Refusal, Zenon
<1> QED
  BY <1>15, <1>16

\* Its value.
LEMMA EntryValueStep ==
  ASSUME FileInv, Short(snapshot), Reader(r), r.ok, NEW n \in 0 .. Len(First) - 1, AtValue(n), EntryValue
  PROVE  PlaceInv'
<1> DEFINE e == First[n + 1]
           q == EntryAt(snapshot, n)
           P == EntryBytes(e)
           d == DeadlineLen(e)
           y == Filled(r, 2)
           x == readStringValue(y)
           s == e.value.text
           k == << e.key >>
           p == q + d + 3
<1>1. /\ Loaded(n) /\ left = Len(First) - n /\ snapshot.dbs # <<>>
      /\ r.pos = p /\ text = <<k>> \o Deadline(e) /\ UNCHANGED <<snapshot, file>>
  BY DEF AtValue, EntryValue, Loaded
<1>2. Goto("entry", x) /\ left' = left - 1 /\ text' = <<>>
  BY DEF EntryValue
<1>3. /\ q \in Nat /\ EntryShape(P, e) /\ e \in Entries
      /\ \A j \in 1 .. Len(P) : q + j <= Len(file) => file[q + j] = P[j]
      /\ n + 1 \in 0 .. Len(First) /\ EntryAt(snapshot, n + 1) = q + Len(P)
      /\ ~IsCut => q + Len(P) <= Len(file)
      /\ Len(First) \in Nat
  BY <1>1, EntryHere, Zenon
<1>4. Len(file) \in Nat /\ file \in Seq(Nat)
  BY DEF FileInv
<1>5. s \in Seq(Nat) /\ Len(s) \in Nat
  BY <1>3, EntryTypes, LenProperties
<1>6. PICK ks, es : databases = << [Keys |-> ks, Expiries |-> es] >> /\ KeysHold(ks, n) /\ ExpiriesHold(es, n)
  BY <1>1, Zenon DEF Loaded
<1> HIDE DEF q, P, d, s, k
<1>7. /\ Len(P) \in Nat /\ d \in Nat /\ Len(P) = d + 4 + Len(s) /\ P[d + 4] = Len(s)
      /\ Piece(P, d + 4, s)
  BY <1>3, Zenon DEF EntryShape, d, s
<1>8. Reader(y) /\ y.ok /\ y.pos = p
  <2>1. 2 \in Nat
    OBVIOUS
  <2> HIDE DEF p
  <2> QED
    BY <1>1, <1>4, <2>1, FilledIs, Zenon
<1>9. p \in Nat /\ q + (d + 4) = p + 1 /\ d + 4 \in 1 .. Len(P) /\ p + 1 + Len(s) = q + Len(P)
  <2>1. q \in Nat /\ d \in Nat /\ Len(s) \in Nat /\ Len(P) = d + 4 + Len(s)
    BY <1>3, <1>5, <1>7, Zenon
  <2> QED
    BY <2>1
<1> HIDE DEF p, y, x, e
<1>10. p + 1 <= Len(file) => file[p + 1] = Len(s)
  BY <1>3, <1>7, <1>9, Zenon
<1>11. ASSUME NEW j \in 1 .. Len(s), p + 1 + j <= Len(file) PROVE file[p + 1 + j] = s[j]
  <2>1. d + 4 + j \in 1 .. Len(P) /\ q + (d + 4 + j) = p + 1 + j
    BY <1>3, <1>5, <1>7, <1>9
  <2>2. P[d + 4 + j] = s[j]
    BY <1>7, Zenon DEF Piece
  <2> QED
    BY <1>3, <1>11, <2>1, <2>2, Zenon
<1>12. /\ Reader(x)
       /\ x.ok => HasByte(y) /\ x.pos = y.pos + 1 + file[y.pos + 1] /\ x.pos <= Len(file)
       /\ HasByte(y) /\ y.pos + 1 + file[y.pos + 1] <= Len(file) /\ Len(file) <= BufSize => x.ok
  BY <1>4, <1>8, StringValueIs, Zenon DEF x
<1>13. HasByte(y) <=> p + 1 <= Len(file)
  BY <1>4, <1>8, <1>9 DEF HasByte
<1>14. /\ Reader(r)' /\ r' = x
       /\ x.ok => r'.ok /\ pc' = "entry" /\ r'.pos = x.pos
       /\ ~x.ok => pc' = "exited"
  BY <1>1, <1>2, <1>12, GotoIs, Zenon
<1>15. CASE x.ok
  <2>1. /\ p + 1 <= Len(file) /\ file[y.pos + 1] = Len(s) /\ x.pos = p + 1 + Len(s)
    BY <1>8, <1>10, <1>12, <1>13, <1>15
  <2>2. StringAt(y) = s
    <3>1. readStringValue(y).ok
      BY <1>15 DEF x
    <3>2. \A j \in 1 .. Len(s) : y.pos + 1 + j <= Len(file) => file[y.pos + 1 + j] = s[j]
      BY <1>8, <1>11, Zenon
    <3> QED
      BY <1>4, <1>5, <1>8, <2>1, <3>1, <3>2, StringAtIs, Zenon
  <2>3. r'.pos = EntryAt(snapshot, n + 1)
    BY <1>3, <1>9, <1>14, <1>15, <2>1, Zenon
  <2> DEFINE ks2 == With(ks, k, s)
             es2 == IF Len(text) = 1 THEN es ELSE With(es, text[1], text[2])
  <2>4. databases' = << [Keys |-> ks2, Expiries |-> es2] >>
    <3>1. Len(databases) = 1
      BY <1>6
    <3>2. text[1] = k
      BY <1>1 DEF Deadline
    <3>3. databases' = Stored(databases, k, s, text)
      BY <2>2, <3>1, <3>2 DEF EntryValue, y, Stored
    <3>4. databases = << [Keys |-> ks, Expiries |-> es] >>
      BY <1>6
    <3>5. databases' = Stored(<< [Keys |-> ks, Expiries |-> es] >>, k, s, text)
      BY <3>3, <3>4, Zenon
    <3> QED
      BY <3>5, DatabaseWith
  <2>5. KeysHold(ks2, n + 1)
    BY <1>1, <1>3, <1>6, KeysGrow, Zenon DEF k, s, e
  <2>6. es2 = IF e.unit = "none" THEN es ELSE With(es, k, e.deadline)
    <3>1. CASE e.unit = "none"
      <4>1. text = <<k>> \o <<>>
        BY <1>1, <3>1 DEF Deadline
      <4>2. Len(text) = 1
        BY <4>1
      <4> QED
        BY <3>1, <4>2
    <3>2. CASE e.unit # "none"
      <4>1. text = <<k>> \o <<e.deadline>>
        BY <1>1, <3>2 DEF Deadline
      <4>2. Len(text) = 2 /\ text[1] = k /\ text[2] = e.deadline
        BY <4>1
      <4> QED
        BY <3>2, <4>2
    <3> QED
      BY <3>1, <3>2
  <2>7. ExpiriesHold(es2, n + 1)
    <3> HIDE DEF es2
    <3>1. ExpiriesHold(IF e.unit = "none" THEN es ELSE With(es, k, e.deadline), n + 1)
      BY <1>1, <1>3, <1>6, ExpiriesGrow, Zenon DEF k, e
    <3> QED
      BY <2>6, <3>1
  <2> HIDE DEF ks2, es2
  <2>8. First' = First /\ snapshot'.dbs # <<>>
    BY <1>1 DEF First
  <2>9. Loaded(n + 1)'
    <3>1. \E a, b : databases' = << [Keys |-> a, Expiries |-> b] >> /\ KeysHold(a, n + 1) /\ ExpiriesHold(b, n + 1)
      BY <2>4, <2>5, <2>7
    <3> QED
      BY <2>8, <3>1 DEF Loaded, KeysHold, ExpiriesHold
  <2>10. AtEntry(n + 1)'
    <3>1. left' = Len(First') - (n + 1)
      BY <1>1, <1>2, <1>3, <2>8
    <3>2. r'.pos = EntryAt(snapshot', n + 1)
      BY <1>1, <2>3
    <3> QED
      BY <1>2, <1>14, <1>15, <2>9, <3>1, <3>2, Zenon DEF AtEntry
  <2>11. n + 1 \in 0 .. Len(First')
    BY <1>3, <2>8
  <2> QED
    BY <1>14, <1>15, <2>8, <2>10, <2>11, Zenon DEF PlaceInv, Reads
<1>16. CASE ~x.ok
  <2>1. ASSUME Good PROVE FALSE
    <3>1. q + Len(P) <= Len(file) /\ Len(file) <= BufSize
      BY <1>3, <2>1, GoodIs, Zenon
    <3>3. p + 1 <= Len(file)
      <4>1. p \in Nat /\ Len(s) \in Nat /\ Len(file) \in Nat /\ p + 1 + Len(s) <= Len(file)
        BY <1>4, <1>5, <1>9, <3>1, Zenon
      <4> QED
        BY <4>1
    <3>4. y.pos + 1 + file[y.pos + 1] = q + Len(P)
      BY <1>8, <1>9, <1>10, <3>3
    <3> QED
      BY <1>12, <1>13, <1>16, <3>1, <3>3, <3>4
  <2> QED
    BY <1>1, <1>14, <1>16, <2>1, Refusal, Zenon
<1> QED
  BY <1>15, <1>16

-----------------------------------------------------------------------------
(* The specification *)

\* No step changes the file.
LEMMA SameFile ==
  ASSUME Next
  PROVE  UNCHANGED <<snapshot, file>>
BY DEF Next, MetadataName, MetadataValue, DatabaseHeader, EntryDeadline, EntryKey, EntryValue,
       EntriesRead, EndOfFile, OtherSeparator, Load

\* With a second database the server only exits.
LEMMA ManyStays ==
  ASSUME Many, Next
  PROVE  Many'
<1>1. PICK T : databases \in Seq(T)
  BY DEF Many
<1>2. Len(databases) >= 2 /\ Len(snapshot.dbs) > 1 /\ Len(databases) \in Nat
  BY <1>1, LenProperties DEF Many
<1>3. snapshot' = snapshot
  BY SameFile
<1>4. pc' # "serving"
  BY <1>2 DEF Next, MetadataName, MetadataValue, DatabaseHeader, EntryDeadline, EntryKey, EntryValue,
              EntriesRead, EndOfFile, OtherSeparator, Load, Goto
<1>5. CASE databases' = databases
  BY <1>1, <1>2, <1>3, <1>4, <1>5, Zenon DEF Many
<1>6. CASE databases' = Append(databases, NoDatabase)
  <2> DEFINE S == T \cup {NoDatabase}
  <2>1. databases \in Seq(S) /\ NoDatabase \in S
    <3>1. T \subseteq S
      OBVIOUS
    <3> QED
      BY <1>1, <3>1, SeqMonotonic, Zenon
  <2>2. databases' \in Seq(S) /\ Len(databases') = Len(databases) + 1
    BY <1>6, <2>1, AppendProperties, Zenon
  <2>3. Len(databases') >= 2
    BY <1>2, <2>2
  <2> QED
    BY <1>2, <1>3, <1>4, <2>2, <2>3, Zenon DEF Many
<1>7. CASE EntryValue
  <2> DEFINE n == Len(databases)
             k == text[1]
             v == StringAt(Filled(r, 2))
             f == [databases EXCEPT ![n] = [databases[n] EXCEPT !.Keys = With(databases[n].Keys, k, v)]]
             e == [f[n] EXCEPT !.Expiries = IF Len(text) = 1 THEN f[n].Expiries
                                            ELSE With(f[n].Expiries, text[1], text[2])]
  <2>1. databases' = [f EXCEPT ![n] = e]
    BY <1>7 DEF EntryValue
  <2> DEFINE d == [databases[n] EXCEPT !.Keys = With(databases[n].Keys, k, v)]
             S == T \cup {d, e}
  <2>2. databases \in Seq(S) /\ d \in S /\ e \in S /\ n \in 1 .. Len(databases) /\ n >= 2
    <3> HIDE DEF d, e
    <3>1. T \subseteq S /\ d \in S /\ e \in S
      OBVIOUS
    <3>2. n \in 1 .. Len(databases) /\ n >= 2
      BY <1>2
    <3> QED
      BY <1>1, <3>1, <3>2, SeqMonotonic, Zenon
  <2>3. f = [databases EXCEPT ![n] = d]
    OBVIOUS
  <2> HIDE DEF d, e, f, S, n
  <2>4. f \in Seq(S) /\ Len(f) = n
    <3>1. databases \in Seq(S) /\ d \in S /\ n \in 1 .. Len(databases)
      BY <2>2
    <3>2. f \in Seq(S) /\ Len(f) = Len(databases)
      BY <2>3, <3>1, ExceptSeq
    <3> QED
      BY <3>2 DEF n
  <2>5. databases' \in Seq(S) /\ Len(databases') = n
    <3>1. n \in 1 .. Len(f)
      BY <2>2, <2>4
    <3>2. databases' \in Seq(S) /\ Len(databases') = Len(f)
      <4>1. f \in Seq(S) /\ e \in S /\ databases' = [f EXCEPT ![n] = e]
        BY <2>1, <2>2, <2>4
      <4> QED
        BY <3>1, <4>1, ExceptSeq
    <3> QED
      BY <2>4, <3>2
  <2> QED
    BY <1>2, <1>3, <1>4, <2>2, <2>5, Zenon DEF Many, n
<1> QED
  BY <1>5, <1>6, <1>7 DEF Next, MetadataName, MetadataValue, DatabaseHeader, EntryDeadline, EntryKey,
     EntriesRead, EndOfFile, OtherSeparator, Load

\* The store is filled from all of the first database, or not at all.
LEMMA LoadStep ==
  ASSUME FileInv, Short(snapshot), AtLoad, StoreInv, Load
  PROVE  Served'
<1>1. UNCHANGED <<snapshot, file>> /\ values = <<>> /\ expiries = <<>>
  BY DEF Load, StoreInv, AtLoad
<1>2. CASE databases = <<>> /\ (snapshot.dbs = <<>> \/ Len(file) <= Start(snapshot))
  <2>1. pc' = "serving" /\ UNCHANGED <<values, expiries>>
    BY <1>2 DEF Load, store
  <2>2. Start(snapshot) = Len(BeforeDatabases(snapshot))
    <3>1. Layout(snapshot, Saved(snapshot))
      BY SavedIs, Zenon DEF FileInv
    <3> QED
      BY <3>1, Zenon DEF Layout, MetaLayout
  <2>3. /\ snapshot'.dbs = <<>> \/ Len(file') <= Len(BeforeDatabases(snapshot'))
        /\ values' = <<>> /\ expiries' = <<>>
    BY <1>1, <1>2, <2>1, <2>2
  <2> QED
    BY <2>1, <2>3, Zenon DEF Served, AllOrNothing
<1>3. CASE Loaded(Len(First)) /\ (Len(snapshot.dbs) = 1 \/ IsCut)
  <2> DEFINE n == Len(First)
  <2>1. PICK ks, es : databases = << [Keys |-> ks, Expiries |-> es] >> /\ KeysHold(ks, n) /\ ExpiriesHold(es, n)
    BY <1>3, Zenon DEF Loaded
  <2>2. Len(databases) = 1 /\ databases[1].Keys = ks /\ databases[1].Expiries = es
    BY <2>1
  <2>3. pc' = "serving" /\ values' = ks /\ expiries' = es
    BY <2>2 DEF Load
  <2>4. snapshot.dbs # <<>> /\ Len(snapshot.dbs) \in Nat /\ Len(snapshot.dbs) >= 1
    <3>1. Layout(snapshot, Saved(snapshot))
      BY SavedIs, Zenon DEF FileInv
    <3>2. snapshot.dbs # <<>>
      BY <1>3 DEF Loaded
    <3> QED
      BY <3>1, <3>2, Zenon DEF Layout
  <2>5. DOMAIN First = 1 .. n
    <3>1. snapshot.dbs \in Seq(Seq(Entries))
      BY SnapshotsAssumption DEF FileInv
    <3>2. 1 \in 1 .. Len(snapshot.dbs)
      BY <2>4
    <3>3. First \in Seq(Entries)
      BY <3>1, <3>2, ElementOfSeq, Zenon DEF First
    <3> QED
      BY <3>3, LenProperties, Zenon
  <2>6. Pairs(ks) = SavedValues(First)
    BY <2>1, <2>5, Zenon DEF KeysHold, SavedValues
  <2>7. /\ DOMAIN es = {<<First[j].key>> : j \in {i \in DOMAIN First : First[i].unit # "none"}}
        /\ \A j \in DOMAIN First : First[j].unit = "ms" => es[<<First[j].key>>] = First[j].deadline
    <3> DEFINE timed == {i \in 1 .. n : First[i].unit # "none"}
    <3>1. Pairs(es) = {<< <<First[j].key>>, First[j].deadline >> : j \in timed}
      BY <2>1, Zenon DEF ExpiriesHold
    <3>2. ASSUME NEW x PROVE x \in DOMAIN es <=> \E j \in timed : x = <<First[j].key>>
      <4>1. ASSUME x \in DOMAIN es PROVE \E j \in timed : x = <<First[j].key>>
        <5>1. << x, es[x] >> \in Pairs(es)
          BY <4>1, Zenon DEF Pairs
        <5>2. PICK j \in timed : << x, es[x] >> = << <<First[j].key>>, First[j].deadline >>
          BY <3>1, <5>1, Zenon
        <5> QED
          BY <5>2, Zenon
      <4>2. ASSUME NEW j \in timed PROVE <<First[j].key>> \in DOMAIN es
        <5>1. << <<First[j].key>>, First[j].deadline >> \in Pairs(es)
          BY <3>1, Zenon
        <5> QED
          BY <5>1, Zenon DEF Pairs
      <4> QED
        BY <4>1, <4>2, Zenon
    <3>3. ASSUME NEW j \in timed PROVE es[<<First[j].key>>] = First[j].deadline
      <4>1. << <<First[j].key>>, First[j].deadline >> \in Pairs(es)
        BY <3>1, Zenon
      <4>2. PICK x \in DOMAIN es : << <<First[j].key>>, First[j].deadline >> = << x, es[x] >>
        BY <4>1, Zenon DEF Pairs
      <4> QED
        BY <4>2, Zenon
    <3>4. \A j \in DOMAIN First : First[j].unit = "ms" => j \in timed
      BY <2>5
    <3>5. timed = {i \in DOMAIN First : First[i].unit # "none"}
      BY <2>5, Zenon
    <3> HIDE DEF timed
    <3>6. DOMAIN es = {<<First[j].key>> : j \in timed}
      BY <3>2, Zenon
    <3> QED
      BY <3>3, <3>4, <3>5, <3>6, Zenon
  <2>8. Len(snapshot.dbs) = 1 \/ (Len(snapshot.dbs) > 1 /\ IsCut)
    <3> DEFINE l == Len(snapshot.dbs)
    <3>1. (l = 1 \/ IsCut) /\ l \in Nat /\ l >= 1
      BY <1>3, <2>4, Zenon
    <3> HIDE DEF l
    <3>2. l = 1 \/ (l > 1 /\ IsCut)
      BY <3>1
    <3> QED
      BY <3>2, Zenon DEF l
  <2>9. /\ Len(snapshot'.dbs) = 1 \/ (Len(snapshot'.dbs) > 1 /\ IsCut')
        /\ Pairs(values') = SavedValues(snapshot'.dbs[1])
        /\ MsDeadlinesHold(snapshot.dbs[1])'
    <3>1. /\ Len(snapshot'.dbs) = 1 \/ (Len(snapshot'.dbs) > 1 /\ IsCut')
          /\ Pairs(values') = SavedValues(snapshot'.dbs[1])
      BY <1>1, <2>3, <2>6, <2>8 DEF IsCut, First
    <3>2. expiries' = es /\ snapshot'.dbs[1] = First
      BY <1>1, <2>3 DEF First
    <3>3. MsDeadlinesHold(snapshot.dbs[1])'
      BY <2>7, <3>2, Zenon DEF MsDeadlinesHold
    <3> QED
      BY <3>1, <3>3, Zenon
  <2> QED
    BY <2>3, <2>9, Zenon DEF Served, AllOrNothing
<1> QED
  BY <1>2, <1>3, Zenon DEF AtLoad

\* The reader of a new file has discarded the header.
LEMMA InitReader ==
  ASSUME Len(file) \in Nat, r = Discard([ok |-> TRUE, pos |-> 0, hi |-> 0], 9)
  PROVE  /\ Reader(r) /\ r.ok
         /\ Len(file) >= 9 => r.pos = 9
         /\ Len(file) < 9 => r.pos = Len(file)
<1> DEFINE p == Smaller(0 + 9, Len(file))
           h == IF p <= 0 THEN 0 ELSE Smaller(0 + BufSize, Len(file))
           o == TRUE
<1>1. /\ p \in Nat /\ h \in Nat /\ p <= h /\ h <= Len(file)
      /\ Len(file) <= BufSize => h = Len(file)
      /\ Len(file) >= 9 => p = 9
      /\ Len(file) < 9 => p = Len(file)
  <2> DEFINE l == Len(file)
  <2>1. l \in Nat /\ BufSize \in Nat /\ BufSize >= 16
    BY BufSizeAssumption
  <2>2. p = (IF 9 < l THEN 9 ELSE l) /\ h = (IF p <= 0 THEN 0 ELSE IF BufSize < l THEN BufSize ELSE l)
    BY <2>1 DEF Smaller
  <2> HIDE DEF l, p, h
  <2>3. /\ p \in Nat /\ h \in Nat /\ p <= h /\ h <= l
        /\ l <= BufSize => h = l
        /\ l >= 9 => p = 9
        /\ l < 9 => p = l
    BY <2>1, <2>2
  <2> QED
    BY <2>3, Zenon DEF l
<1>2. r = [ok |-> o, pos |-> p, hi |-> h]
  BY DEF Discard
<1> HIDE DEF p, h
<1>3. o \in BOOLEAN
  OBVIOUS
<1>4. Reader(r) /\ r.ok = o /\ r.pos = p
  BY <1>1, <1>2, <1>3, ReaderWith, Zenon
<1> QED
  BY <1>1, <1>4

\* The initial states satisfy the invariant.
LEMMA InitIInv ==
  ASSUME Init
  PROVE  IInv
<1>1. snapshot \in Snapshots /\ values = <<>> /\ expiries = <<>> /\ databases = <<>> /\ text = <<>>
  BY DEF Init
<1>2. ASSUME Short(snapshot) PROVE FileInv /\ PlaceInv /\ StoreInv
  <2> DEFINE T == Saved(snapshot)
  <2>1. Layout(snapshot, T)
    BY <1>1, <1>2, SavedIs, Zenon
  <2>2. /\ T \in Seq(Nat) /\ Len(T) \in Nat
        /\ MetaAt(snapshot, 0) = 9 /\ Len(snapshot.meta) \in Nat
        /\ Start(snapshot) \in Nat /\ Start(snapshot) >= 9 /\ Start(snapshot) = Len(BeforeDatabases(snapshot))
    BY <2>1, Zenon DEF Layout, MetaLayout
  <2>3. PICK n \in 0 .. Len(T) : file = SubSeq(T, 1, n)
    BY DEF Init
  <2> HIDE DEF T
  <2>4. file \in Seq(Nat) /\ Len(file) = n /\ \A j \in 1 .. n : file[j] = T[j]
    <3>1. \A i \in 1 .. n : T[i] \in Nat
      BY <2>2, ElementOfSeq
    <3>2. n \in Int /\ 1 \in Int
      BY <2>2
    <3>3. /\ SubSeq(T, 1, n) \in Seq(Nat)
          /\ Len(SubSeq(T, 1, n)) = IF 1 <= n THEN n - 1 + 1 ELSE 0
          /\ \A i \in 1 .. n - 1 + 1 : SubSeq(T, 1, n)[i] = T[1 + i - 1]
      BY <3>1, <3>2, SubSeqProperties
    <3>4. n \in Nat /\ n - 1 + 1 = n /\ \A i \in 1 .. n : 1 + i - 1 = i
      BY <2>2
    <3>5. Len(file) = n
      BY <2>3, <3>3, <3>4
    <3>6. \A j \in 1 .. n : file[j] = T[j]
      BY <2>3, <3>3, <3>4
    <3> QED
      BY <2>3, <3>3, <3>5, <3>6
  <2>5. FileInv
    <3>1. Len(file) \in Nat /\ Len(file) <= Len(T)
      BY <2>2, <2>4
    <3> QED
      BY <1>1, <2>4, <3>1, Zenon DEF FileInv, T
  <2>6. CASE pc = "section"
    <3>1. /\ Reader(r) /\ r.ok
          /\ Len(file) >= 9 => r.pos = 9
          /\ Len(file) < 9 => r.pos = Len(file)
      <4>1. Len(file) \in Nat /\ r = Discard([ok |-> TRUE, pos |-> 0, hi |-> 0], 9)
        BY <2>5 DEF Init, FileInv
      <4> QED
        BY <4>1, InitReader, Zenon
    <3>2. r.pos = MetaAt(snapshot, 0) \/ (r.pos = Len(file) /\ Len(file) <= Start(snapshot))
      <4>1. Len(file) \in Nat
        BY <2>5 DEF FileInv
      <4> QED
        BY <2>2, <3>1, <4>1
    <3>3. 0 \in 0 .. Len(snapshot.meta)
      BY <2>2
    <3>4. AtMeta
      BY <1>1, <2>6, <3>2, <3>3, Zenon DEF AtMeta
    <3> QED
      BY <1>1, <2>5, <3>1, <3>4, Zenon DEF PlaceInv, Reads, StoreInv
  <2>7. CASE pc = "serving" /\ file = <<>>
    <3>1. Len(file) = 0
      BY <2>7
    <3>2. Len(file) <= Len(BeforeDatabases(snapshot))
      BY <2>2, <3>1
    <3>3. AllOrNothing
      BY <1>1, <3>2, Zenon DEF AllOrNothing
    <3> QED
      BY <2>5, <2>7, <3>3, Zenon DEF PlaceInv, Served, StoreInv
  <2> QED
    BY <2>6, <2>7 DEF Init
<1> QED
  BY <1>1, <1>2, Zenon DEF IInv

\* One step of each place.
LEMMA NextPlace ==
  ASSUME FileInv, Short(snapshot), PlaceInv, StoreInv, Next
  PROVE  PlaceInv'
<1>1. ASSUME Reads PROVE PlaceInv'
  <2>0. Reader(r) /\ r.ok
    BY <1>1 DEF Reads
  <2>1. CASE AtMeta
    <3>1. MetadataName \/ DatabaseHeader \/ EndOfFile \/ OtherSeparator
      BY <2>1 DEF Next, AtMeta, MetadataValue, EntryDeadline, EntryKey, EntryValue, EntriesRead, Load
    <3> QED
      BY <2>0, <2>1, <3>1, MetadataNameStep, FirstHeader, EndOfFileStep, NoOtherSeparator, Zenon
  <2>2. CASE InMeta
    <3>1. MetadataValue
      BY <2>2 DEF Next, InMeta, MetadataName, DatabaseHeader, EndOfFile, OtherSeparator, Separator,
                  EntryDeadline, EntryKey, EntryValue, EntriesRead, Load
    <3> QED
      BY <2>0, <2>2, <3>1, MetadataValueStep, Zenon
  <2>3. CASE AtEnd
    <3>1. MetadataName \/ DatabaseHeader \/ EndOfFile \/ OtherSeparator
      BY <2>3 DEF Next, AtEnd, MetadataValue, EntryDeadline, EntryKey, EntryValue, EntriesRead, Load
    <3>2. ~OtherSeparator /\ ~MetadataName
      BY <2>0, <2>3, NoOtherSeparator, Zenon
    <3>3. DatabaseHeader => PlaceInv'
      BY <2>0, <2>3, SecondHeader, Zenon DEF PlaceInv
    <3>4. EndOfFile => PlaceInv'
      BY <2>0, <2>3, EndOfFileStep, Zenon
    <3> QED
      BY <3>1, <3>2, <3>3, <3>4
  <2>4. ASSUME NEW n \in 0 .. Len(First), AtEntry(n) PROVE PlaceInv'
    <3>1. EntryDeadline \/ EntriesRead
      BY <2>4 DEF Next, AtEntry, MetadataName, DatabaseHeader, EndOfFile, OtherSeparator, Separator,
                  MetadataValue, EntryKey, EntryValue, Load
    <3> QED
      BY <2>0, <2>4, <3>1, EntryDeadlineStep, EntriesReadStep, Zenon
  <2>5. ASSUME NEW n \in 0 .. Len(First) - 1, AtKey(n) PROVE PlaceInv'
    <3>1. EntryKey
      BY <2>5 DEF Next, AtKey, MetadataName, DatabaseHeader, EndOfFile, OtherSeparator, Separator,
                  MetadataValue, EntryDeadline, EntryValue, EntriesRead, Load
    <3> QED
      BY <2>0, <2>5, <3>1, EntryKeyStep, Zenon
  <2>6. ASSUME NEW n \in 0 .. Len(First) - 1, AtValue(n) PROVE PlaceInv'
    <3>1. EntryValue
      BY <2>6 DEF Next, AtValue, MetadataName, DatabaseHeader, EndOfFile, OtherSeparator, Separator,
                  MetadataValue, EntryDeadline, EntryKey, EntriesRead, Load
    <3> QED
      BY <2>0, <2>6, <3>1, EntryValueStep, Zenon
  <2> QED
    BY <1>1, <2>1, <2>2, <2>3, <2>4, <2>5, <2>6, Zenon DEF Reads
<1>2. ASSUME AtLoad PROVE PlaceInv'
  <2>1. Load
    BY <1>2 DEF Next, AtLoad, MetadataName, DatabaseHeader, EndOfFile, OtherSeparator, Separator,
                MetadataValue, EntryDeadline, EntryKey, EntryValue, EntriesRead
  <2> QED
    BY <1>2, <2>1, LoadStep, Zenon DEF PlaceInv
<1>3. ASSUME Many PROVE PlaceInv'
  BY <1>3, ManyStays, Zenon DEF PlaceInv
<1>4. ~Served /\ ~Refused
  BY DEF Served, Refused, Next, MetadataName, DatabaseHeader, EndOfFile, OtherSeparator, Separator,
         MetadataValue, EntryDeadline, EntryKey, EntryValue, EntriesRead, Load
<1> QED
  BY <1>1, <1>2, <1>3, <1>4, Zenon DEF PlaceInv

\* Nothing but Load changes the store.
LEMMA NextStore ==
  ASSUME StoreInv, Next, pc # "serving"
  PROVE  StoreInv'
<1>1. CASE Load
  <2>1. Len(databases) = 1 => pc' = "serving"
    BY <1>1 DEF Load
  <2>2. Len(databases) # 1 => UNCHANGED <<values, expiries>>
    BY <1>1 DEF Load, store
  <2> QED
    BY <2>1, <2>2 DEF StoreInv
<1>2. CASE ~Load
  <2>1. UNCHANGED <<values, expiries>>
    BY <1>2 DEF Next, store, MetadataName, MetadataValue, DatabaseHeader, EntryDeadline, EntryKey, EntryValue,
                EntriesRead, EndOfFile, OtherSeparator
  <2> QED
    BY <2>1 DEF StoreInv
<1> QED
  BY <1>1, <1>2

\* A step that changes nothing.
LEMMA SameIInv ==
  ASSUME IInv, UNCHANGED vars
  PROVE  IInv'
<1>1. UNCHANGED <<snapshot, file, r, pc, text, left, databases, values, expiries>>
  BY DEF vars
<1>2. FileInv => FileInv'
  BY <1>1 DEF FileInv
<1>3. StoreInv => StoreInv'
  BY <1>1 DEF StoreInv
<1>4. ASSUME Reads PROVE Reads'
  <2>1. Reader(r)' /\ r'.ok /\ First' = First
    BY <1>1, <1>4 DEF Reads, Reader, First
  <2>2. ASSUME NEW n, Loaded(n) PROVE Loaded(n)'
    BY <1>1, <2>2, LoadedStays
  <2>3. AtMeta => AtMeta'
    BY <1>1 DEF AtMeta
  <2>4. InMeta => InMeta'
    BY <1>1 DEF InMeta
  <2>5. AtEnd => AtEnd'
    BY <1>1 DEF AtEnd, Loaded, KeysHold, ExpiriesHold, First
  <2>6. ASSUME NEW n, AtEntry(n) PROVE AtEntry(n)'
    BY <1>1, <2>2, <2>6 DEF AtEntry, First
  <2>7. ASSUME NEW n, AtKey(n) PROVE AtKey(n)'
    BY <1>1, <2>2, <2>7 DEF AtKey, First
  <2>8. ASSUME NEW n, AtValue(n) PROVE AtValue(n)'
    BY <1>1, <2>2, <2>8 DEF AtValue, First
  <2>9. CASE AtMeta \/ InMeta \/ AtEnd
    BY <2>1, <2>3, <2>4, <2>5, <2>9, Zenon DEF Reads
  <2>10. CASE snapshot.dbs # <<>> /\ \E n \in 0 .. Len(First) : AtEntry(n)
    <3>1. PICK n \in 0 .. Len(First) : AtEntry(n)
      BY <2>10, Zenon
    <3>2. AtEntry(n)' /\ n \in 0 .. Len(First') /\ snapshot'.dbs # <<>>
      BY <1>1, <2>1, <2>6, <2>10, <3>1
    <3> QED
      BY <2>1, <3>2, Zenon DEF Reads
  <2>11. CASE snapshot.dbs # <<>> /\ \E n \in 0 .. Len(First) - 1 : AtKey(n) \/ AtValue(n)
    <3>1. PICK n \in 0 .. Len(First) - 1 : AtKey(n) \/ AtValue(n)
      BY <2>11, Zenon
    <3>2. (AtKey(n)' \/ AtValue(n)') /\ n \in 0 .. Len(First') - 1 /\ snapshot'.dbs # <<>>
      BY <1>1, <2>1, <2>7, <2>8, <2>11, <3>1
    <3> QED
      BY <2>1, <3>2, Zenon DEF Reads
  <2> QED
    BY <1>4, <2>9, <2>10, <2>11, Zenon DEF Reads
<1>5. AtLoad => AtLoad'
  <2>1. Loaded(Len(First)) => Loaded(Len(First))'
    BY <1>1 DEF Loaded, KeysHold, ExpiriesHold, First
  <2>2. IsCut' <=> IsCut
    BY <1>1 DEF IsCut
  <2> QED
    BY <1>1, <2>1, <2>2 DEF AtLoad
<1>6. Served => Served'
  BY <1>1 DEF Served, AllOrNothing, IsCut, MsDeadlinesHold
<1>7. Refused => Refused'
  BY <1>1 DEF Refused, Good, IsCut, Supported
<1>8. Many => Many'
  BY <1>1 DEF Many
<1> QED
  BY <1>1, <1>2, <1>3, <1>4, <1>5, <1>6, <1>7, <1>8, Zenon DEF IInv, PlaceInv

\* Every step keeps the invariant.
LEMMA NextIInv ==
  ASSUME IInv, [Next]_vars
  PROVE  IInv'
<1>1. CASE UNCHANGED vars
  BY <1>1, SameIInv
<1>2. CASE Next
  <2>1. UNCHANGED <<snapshot, file>>
    BY <1>2, SameFile
  <2>2. snapshot' \in Snapshots
    BY <2>1 DEF IInv
  <2>3. ASSUME Short(snapshot') PROVE FileInv' /\ PlaceInv' /\ StoreInv'
    <3>1. Short(snapshot)
      BY <2>1, <2>3
    <3>2. FileInv /\ PlaceInv /\ StoreInv
      BY <3>1 DEF IInv
    <3>3. FileInv'
      BY <2>1, <3>2 DEF FileInv
    <3>4. PlaceInv'
      BY <1>2, <3>1, <3>2, NextPlace, Zenon
    <3>5. pc # "serving"
      BY <1>2 DEF Next, MetadataName, DatabaseHeader, EndOfFile, OtherSeparator, Separator,
                  MetadataValue, EntryDeadline, EntryKey, EntryValue, EntriesRead, Load
    <3>6. StoreInv'
      BY <1>2, <3>2, <3>5, NextStore, Zenon
    <3> QED
      BY <3>3, <3>4, <3>6
  <2> QED
    BY <2>2, <2>3, Zenon DEF IInv
<1> QED
  BY <1>1, <1>2

\* A server that starts has loaded all of the database that was saved or nothing, for
\* every snapshot whose lengths fit into six bits, wherever its file was cut and
\* whatever the size of the reader's buffer (ReadRdbFromFile, InitialiseFromRdbFile).
\* Of a deadline that was saved in seconds it says only that there is one: the store
\* has the number for milliseconds.
THEOREM ServesAllOrNothing == Spec => []AllOrNothing
<1>1. Init => IInv
  BY InitIInv
<1>2. IInv /\ [Next]_vars => IInv'
  BY NextIInv
<1>3. IInv => AllOrNothing
  <2> SUFFICES ASSUME IInv, pc = "serving", Short(snapshot) PROVE AllOrNothing
    BY DEF AllOrNothing
  <2>1. PlaceInv
    BY DEF IInv
  <2>2. ~Reads /\ ~AtLoad /\ ~Refused /\ ~Many
    BY DEF Reads, AtMeta, InMeta, AtEnd, AtEntry, AtKey, AtValue, AtLoad, Refused, Many
  <2> QED
    BY <2>1, <2>2 DEF PlaceInv, Served
<1> QED
  BY <1>1, <1>2, <1>3, PTL DEF Spec

\* A whole file of one database that fits into the buffer is never refused, whichever
\* of its entries have deadlines and in what unit (the counts of bytes in ReadRdbFromFile).
THEOREM LoadsWholeFiles == Spec => []WholeFileLoads
<1>1. Init => IInv
  BY InitIInv
<1>2. IInv /\ [Next]_vars => IInv'
  BY NextIInv
<1>3. IInv => WholeFileLoads
  <2> SUFFICES ASSUME IInv, pc = "exited", ~IsCut, Supported(snapshot), ~(Len(file) > BufSize) PROVE FALSE
    BY DEF WholeFileLoads
  <2>1. Short(snapshot) /\ Len(snapshot.dbs) <= 1
    BY DEF Supported
  <2>2. PlaceInv /\ FileInv
    BY <2>1 DEF IInv
  <2>3. ~Reads /\ ~AtLoad /\ ~Served
    BY DEF Reads, AtMeta, InMeta, AtEnd, AtEntry, AtKey, AtValue, AtLoad, Served
  <2>4. ~Many
    <3>1. Layout(snapshot, Saved(snapshot))
      BY <2>1, <2>2, SavedIs, Zenon DEF FileInv
    <3>2. Len(snapshot.dbs) \in Nat
      BY <3>1, Zenon DEF Layout
    <3> QED
      BY <2>1, <3>2 DEF Many
  <2>5. Good
    BY <2>2, BufSizeAssumption DEF Good, FileInv
  <2> QED
    BY <2>2, <2>3, <2>4, <2>5 DEF PlaceInv, Refused
<1> QED
  BY <1>1, <1>2, <1>3, PTL DEF Spec

=============================================================================
