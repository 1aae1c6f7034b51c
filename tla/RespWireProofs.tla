--------------------------- MODULE RespWireProofs ----------------------------
(***************************************************************************)
(* Proofs about RespWire, for commands of any number and any sequence of   *)
(* them: what is parsed is what was sent, the replica's offset, and when   *)
(* the process panics.                                                     *)
(***************************************************************************)
EXTENDS RespWire, SequenceTheorems, WellFoundedInduction, TLAPS

-----------------------------------------------------------------------------
(* Induction, as a least counterexample *)

\* Every set of naturals that is not empty has a least element.
LEMMA Least ==
  ASSUME NEW T, T \subseteq Nat, T # {}
  PROVE  \E m \in T : \A k \in T : m <= k
<1> DEFINE R == OpToRel(<, Nat)
<1>1. IsWellFoundedOn(R, Nat)
  BY NatLessThanWellFounded, Zenon
<1>2. \A x, y \in Nat : <<y, x>> \in R <=> y < x
  BY DEF OpToRel
<1> HIDE DEF R
<1>3. PICK m \in T : \A k \in T : ~(<<k, m>> \in R)
  BY <1>1, WFMin
<1>4. ASSUME NEW k \in T PROVE m <= k
  <2>1. m \in Nat /\ k \in Nat
    OBVIOUS
  <2>2. ~(k < m)
    BY <1>2, <1>3, <2>1
  <2> QED
    BY <2>1, <2>2
<1> QED
  BY <1>4

\* A set of naturals with 0 and with each number's successor is all of them.
LEMMA Induct ==
  ASSUME NEW S, 0 \in S, \A n \in Nat : n \in S => n + 1 \in S
  PROVE  Nat \subseteq S
<1> DEFINE T == Nat \ S
<1>1. SUFFICES ASSUME T # {} PROVE FALSE
  OBVIOUS
<1>2. PICK m \in T : \A k \in T : m <= k
  <2>1. T \subseteq Nat
    OBVIOUS
  <2> HIDE DEF T
  <2> QED
    BY <1>1, <2>1, Least
<1>3. m \in Nat /\ m # 0
  OBVIOUS
<1>4. m - 1 \in Nat /\ ~(m <= m - 1) /\ m - 1 + 1 = m
  BY <1>3
<1>5. m - 1 \in S
  BY <1>2, <1>4
<1> QED
  BY <1>4, <1>5

-----------------------------------------------------------------------------
(* FlattenSeq *)

\* The first n of a family of sequences, one after another.
Flat(t, n) == FlattenSeq([i \in 1 .. n |-> t[i]])

\* The equation of FlattenSeq's recursive function.
Flattens(f, t, n) == f = [i \in 1 .. n |-> IF i = 1 THEN t[i] ELSE f[i - 1] \o t[i]]

\* It has a solution.
LEMMA FlattensExists ==
  ASSUME NEW t
  PROVE  \A n \in Nat : \E f : Flattens(f, t, n)
<1> DEFINE S == {n \in Nat : \E f : Flattens(f, t, n)}
<1>1. 0 \in S
  <2> DEFINE f == [i \in 1 .. 0 |-> t[i]]
  <2>1. Flattens(f, t, 0)
    BY DEF Flattens
  <2> QED
    BY <2>1
<1>2. ASSUME NEW n \in Nat, n \in S PROVE n + 1 \in S
  <2>1. PICK f : Flattens(f, t, n)
    BY <1>2
  <2> DEFINE g == [i \in 1 .. n + 1 |-> IF i <= n THEN f[i]
                                        ELSE IF i = 1 THEN t[i] ELSE f[i - 1] \o t[i]]
  <2>2. ASSUME NEW i \in 1 .. n + 1
        PROVE  g[i] = IF i = 1 THEN t[i] ELSE g[i - 1] \o t[i]
    <3>1. \A j \in 1 .. n : f[j] = IF j = 1 THEN t[j] ELSE f[j - 1] \o t[j]
      BY <2>1 DEF Flattens
    <3>2. i # 1 => i - 1 \in 1 .. n /\ g[i - 1] = f[i - 1]
      OBVIOUS
    <3>3. CASE i <= n
      <4>1. i \in 1 .. n /\ g[i] = f[i]
        BY <3>3
      <4> HIDE DEF g
      <4> QED
        BY <3>1, <3>2, <4>1
    <3>4. CASE ~(i <= n)
      <4>1. g[i] = IF i = 1 THEN t[i] ELSE f[i - 1] \o t[i]
        BY <3>4
      <4> HIDE DEF g
      <4> QED
        BY <3>2, <4>1
    <3> QED
      BY <3>3, <3>4
  <2>3. Flattens(g, t, n + 1)
    <3> DEFINE h == [i \in 1 .. n + 1 |-> IF i = 1 THEN t[i] ELSE g[i - 1] \o t[i]]
    <3>1. DOMAIN g = 1 .. n + 1 /\ g = [i \in 1 .. n + 1 |-> g[i]]
      OBVIOUS
    <3> HIDE DEF g
    <3>2. \A i \in 1 .. n + 1 : g[i] = h[i]
      BY <2>2
    <3>3. g = h
      BY <3>1, <3>2
    <3> QED
      BY <3>3 DEF Flattens
  <2> QED
    BY <2>3
<1>3. Nat \subseteq S
  <2> HIDE DEF S
  <2> QED
    BY <1>1, <1>2, Induct
<1> QED
  BY <1>3

\* Solutions agree where both are defined.
LEMMA FlattensUnique ==
  ASSUME NEW t, NEW n \in Nat, NEW m \in Nat, NEW f, NEW g, Flattens(f, t, n), Flattens(g, t, m)
  PROVE  \A i \in 1 .. n : i <= m => f[i] = g[i]
<1> DEFINE T == {i \in 1 .. n : i <= m /\ f[i] # g[i]}
<1>1. SUFFICES ASSUME T # {} PROVE FALSE
  OBVIOUS
<1>2. PICK j \in T : \A k \in T : j <= k
  <2>1. T \subseteq Nat
    OBVIOUS
  <2> HIDE DEF T
  <2> QED
    BY <1>1, <2>1, Least
<1>3. /\ \A i \in 1 .. n : f[i] = IF i = 1 THEN t[i] ELSE f[i - 1] \o t[i]
      /\ \A i \in 1 .. m : g[i] = IF i = 1 THEN t[i] ELSE g[i - 1] \o t[i]
  BY DEF Flattens
<1>4. j \in 1 .. n /\ j \in 1 .. m /\ f[j] # g[j]
  OBVIOUS
<1>5. j # 1
  BY <1>3, <1>4
<1>6. j - 1 \in 1 .. n /\ j - 1 <= m /\ ~(j <= j - 1)
  BY <1>4, <1>5
<1>7. f[j - 1] = g[j - 1]
  BY <1>2, <1>6
<1> QED
  BY <1>3, <1>4, <1>5, <1>7

\* One more sequence.
LEMMA FlatStep ==
  ASSUME NEW t, NEW n \in Nat
  PROVE  /\ Flat(t, 0) = <<>>
         /\ Flat(t, n + 1) = IF n = 0 THEN t[n + 1] ELSE Flat(t, n) \o t[n + 1]
<1>1. Flat(t, 0) = <<>>
  <2>1. [i \in 1 .. 0 |-> t[i]] = <<>>
    OBVIOUS
  <2>2. Len(<<>>) = 0
    OBVIOUS
  <2> QED
    BY <2>1, <2>2 DEF Flat, FlattenSeq
<1>2. ASSUME NEW m \in Nat, m # 0, NEW f, Flattens(f, t, m) PROVE Flat(t, m) = f[m]
  <2> DEFINE s == [i \in 1 .. m |-> t[i]]
             Is(g) == g = [i \in 1 .. m |-> IF i = 1 THEN s[i] ELSE g[i - 1] \o s[i]]
             h == CHOOSE g : Is(g)
  <2>1. Len(s) = m
    BY <1>2
  <2>2. \A g : Is(g) <=> Flattens(g, t, m)
    BY DEF Flattens
  <2>3. Flat(t, m) = FlattenSeq(s)
    BY DEF Flat
  <2> HIDE DEF s
  <2>4. Flat(t, m) = h[m]
    <3>1. Len(s) # 0
      BY <1>2, <2>1
    <3>2. FlattenSeq(s) = (CHOOSE g : g = [i \in 1 .. Len(s) |->
                             IF i = 1 THEN s[i] ELSE g[i - 1] \o s[i]])[Len(s)]
      BY <3>1, Zenon DEF FlattenSeq
    <3> QED
      BY <2>1, <2>3, <3>2
  <2> HIDE DEF Is
  <2>5. Is(h)
    <3>1. Is(f)
      BY <1>2, <2>2
    <3> QED
      BY <3>1, Zenon
  <2> HIDE DEF h
  <2>6. Flattens(h, t, m)
    BY <2>2, <2>5
  <2>7. h[m] = f[m]
    <3>1. m \in 1 .. m /\ m <= m
      BY <1>2
    <3> QED
      BY <1>2, <2>6, <3>1, FlattensUnique
  <2> QED
    BY <2>4, <2>7
<1>3. PICK f : Flattens(f, t, n + 1)
  <2>1. n + 1 \in Nat
    OBVIOUS
  <2> QED
    BY <2>1, FlattensExists
<1>4. PICK g : Flattens(g, t, n)
  BY FlattensExists
<1>5. n + 1 \in Nat /\ n + 1 # 0
  OBVIOUS
<1>6. Flat(t, n + 1) = f[n + 1]
  BY <1>2, <1>3, <1>5
<1>7. f[n + 1] = IF n = 0 THEN t[n + 1] ELSE f[n] \o t[n + 1]
  <2>1. n + 1 \in 1 .. n + 1 /\ (n + 1 = 1 <=> n = 0) /\ n + 1 - 1 = n
    OBVIOUS
  <2>2. ASSUME NEW i \in 1 .. n + 1 PROVE f[i] = IF i = 1 THEN t[i] ELSE f[i - 1] \o t[i]
    BY <1>3 DEF Flattens
  <2>3. f[n + 1] = IF n + 1 = 1 THEN t[n + 1] ELSE f[n + 1 - 1] \o t[n + 1]
    <3> DEFINE k == n + 1
    <3>1. k \in 1 .. n + 1
      BY <2>1
    <3> HIDE DEF k
    <3>2. f[k] = IF k = 1 THEN t[k] ELSE f[k - 1] \o t[k]
      BY <2>2, <3>1
    <3> QED
      BY <3>2 DEF k
  <2> QED
    BY <2>1, <2>3
<1>8. n # 0 => f[n] = g[n] /\ Flat(t, n) = g[n]
  <2>1. ASSUME n # 0 PROVE f[n] = g[n]
    <3>1. n \in 1 .. n + 1 /\ n <= n
      BY <2>1
    <3> QED
      BY <1>3, <1>4, <1>5, <3>1, FlattensUnique
  <2> QED
    BY <1>2, <1>4, <2>1
<1> QED
  BY <1>1, <1>6, <1>7, <1>8

\* Where each of the first m is in the whole.
Placed(B, t, m) ==
  /\ Flat(t, 0) = <<>>
  /\ \A n \in 0 .. m : /\ Flat(t, n) \in Seq(B) /\ Len(Flat(t, n)) \in Nat
                       /\ Len(Flat(t, n)) <= Len(Flat(t, m))
  /\ \A n \in 0 .. m - 1 :
       /\ Len(Flat(t, n + 1)) = Len(Flat(t, n)) + Len(t[n + 1])
       /\ \A j \in 1 .. Len(t[n + 1]) : Flat(t, m)[Len(Flat(t, n)) + j] = t[n + 1][j]

\* The pieces of a flattened sequence are where the lengths before them put them.
LEMMA FlatPlaces ==
  ASSUME NEW B, NEW t, NEW m \in Nat, \A i \in 1 .. m : t[i] \in Seq(B)
  PROVE  Placed(B, t, m)
<1>0. \A i \in 1 .. m : Len(t[i]) \in Nat
  BY LenProperties
<1>1. Flat(t, 0) = <<>>
  BY FlatStep
<1>2. ASSUME NEW n \in 0 .. m - 1
      PROVE  /\ Flat(t, n + 1) = (IF n = 0 THEN t[n + 1] ELSE Flat(t, n) \o t[n + 1])
             /\ t[n + 1] \in Seq(B)
  <2>1. n \in Nat /\ n + 1 \in 1 .. m
    OBVIOUS
  <2>2. Flat(t, n + 1) = (IF n = 0 THEN t[n + 1] ELSE Flat(t, n) \o t[n + 1])
    BY <2>1, FlatStep
  <2> QED
    BY <2>1, <2>2
<1>3. \A n \in 0 .. m : Flat(t, n) \in Seq(B)
  <2> DEFINE S == {n \in Nat : n <= m => Flat(t, n) \in Seq(B)}
  <2>1. 0 \in S
    <3>1. Flat(t, 0) \in Seq(B)
      BY <1>1, EmptySeq
    <3> QED
      BY <3>1
  <2>2. ASSUME NEW n \in Nat, n \in S PROVE n + 1 \in S
    <3>1. ASSUME n + 1 <= m PROVE Flat(t, n + 1) \in Seq(B)
      <4>1. n \in 0 .. m - 1 /\ Flat(t, n) \in Seq(B)
        BY <2>2, <3>1
      <4>2. Flat(t, n) \o t[n + 1] \in Seq(B)
        BY <1>2, <4>1, ConcatProperties
      <4> QED
        BY <1>2, <4>1, <4>2
    <3> QED
      BY <3>1
  <2>3. Nat \subseteq S
    <3> HIDE DEF S
    <3> QED
      BY <2>1, <2>2, Induct
  <2> QED
    BY <2>3
<1>4. \A n \in 0 .. m : Len(Flat(t, n)) \in Nat
  BY <1>3, LenProperties
\* One step: the first n are followed by the next.
<1>5. ASSUME NEW n \in 0 .. m - 1
      PROVE  /\ Len(Flat(t, n + 1)) = Len(Flat(t, n)) + Len(t[n + 1])
             /\ \A j \in 1 .. Len(Flat(t, n)) : Flat(t, n + 1)[j] = Flat(t, n)[j]
             /\ \A j \in 1 .. Len(t[n + 1]) : Flat(t, n + 1)[Len(Flat(t, n)) + j] = t[n + 1][j]
  <2>1. n \in 0 .. m /\ n + 1 \in 1 .. m
    OBVIOUS
  <2>2. CASE n = 0
    <3>1. Len(Flat(t, n)) = 0 /\ Flat(t, n + 1) = t[n + 1] /\ Len(t[n + 1]) \in Nat
      BY <1>0, <1>1, <1>2, <2>1, <2>2
    <3> QED
      BY <3>1
  <2>3. CASE n # 0
    <3> DEFINE a == Flat(t, n)
               b == t[n + 1]
    <3>1. a \in Seq(B) /\ b \in Seq(B) /\ Flat(t, n + 1) = a \o b /\ Len(a) \in Nat /\ Len(b) \in Nat
      BY <1>0, <1>2, <1>3, <1>4, <2>1, <2>3
    <3> HIDE DEF a, b
    <3>2. /\ Len(a \o b) = Len(a) + Len(b)
          /\ \A j \in 1 .. Len(a) + Len(b) :
               (a \o b)[j] = IF j <= Len(a) THEN a[j] ELSE b[j - Len(a)]
      BY <3>1, ConcatProperties
    <3>3. \A j \in 1 .. Len(a) : (a \o b)[j] = a[j]
      BY <3>1, <3>2
    <3>4. ASSUME NEW j \in 1 .. Len(b) PROVE (a \o b)[Len(a) + j] = b[j]
      <4>1. /\ Len(a) + j \in 1 .. Len(a) + Len(b) /\ ~(Len(a) + j <= Len(a))
            /\ Len(a) + j - Len(a) = j
        BY <3>1
      <4> QED
        BY <3>2, <4>1
    <3> QED
      BY <3>1, <3>2, <3>3, <3>4 DEF a, b
  <2> QED
    BY <2>2, <2>3
\* The whole begins with the first n.
<1>6. ASSUME NEW n \in 0 .. m
      PROVE  /\ Len(Flat(t, n)) <= Len(Flat(t, m))
             /\ \A j \in 1 .. Len(Flat(t, n)) : Flat(t, m)[j] = Flat(t, n)[j]
  <2> DEFINE Begins(l) == /\ Len(Flat(t, n)) <= Len(Flat(t, l))
                          /\ \A j \in 1 .. Len(Flat(t, n)) : Flat(t, l)[j] = Flat(t, n)[j]
             S == {d \in Nat : n + d <= m => Begins(n + d)}
  <2>1. 0 \in S
    <3>1. n + 0 = n /\ Len(Flat(t, n)) \in Nat
      BY <1>4
    <3>2. Begins(n)
      BY <3>1
    <3> HIDE DEF Begins
    <3> QED
      BY <3>1, <3>2
  <2>2. ASSUME NEW d \in Nat, d \in S PROVE d + 1 \in S
    <3>1. ASSUME n + (d + 1) <= m PROVE Begins(n + (d + 1))
      <4> DEFINE l == n + d
      <4>1. l \in 0 .. m - 1 /\ n + (d + 1) = l + 1 /\ l \in 0 .. m /\ l + 1 \in 0 .. m
        BY <3>1
      <4>2. Begins(l)
        BY <2>2, <3>1
      <4> HIDE DEF l
      <4>3. Begins(l + 1)
        <5>1. /\ Len(Flat(t, n)) \in Nat /\ Len(Flat(t, l)) \in Nat /\ Len(t[l + 1]) \in Nat
          BY <1>0, <1>4, <4>1
        <5>2. /\ Len(Flat(t, l + 1)) = Len(Flat(t, l)) + Len(t[l + 1])
              /\ \A j \in 1 .. Len(Flat(t, l)) : Flat(t, l + 1)[j] = Flat(t, l)[j]
          BY <1>5, <4>1
        <5> QED
          BY <4>2, <5>1, <5>2
      <4> QED
        BY <4>1, <4>3
    <3> QED
      BY <3>1
  <2>3. Nat \subseteq S
    <3> HIDE DEF S
    <3> QED
      BY <2>1, <2>2, Induct
  <2>4. m - n \in S /\ n + (m - n) = m
    <3>1. m - n \in Nat /\ n + (m - n) = m
      OBVIOUS
    <3> HIDE DEF S
    <3> QED
      BY <2>3, <3>1
  <2>5. Begins(m)
    <3> HIDE DEF Begins
    <3> QED
      BY <2>4
  <2> QED
    BY <2>5
<1>7. ASSUME NEW n \in 0 .. m - 1, NEW j \in 1 .. Len(t[n + 1])
      PROVE  Flat(t, m)[Len(Flat(t, n)) + j] = t[n + 1][j]
  <2>1. n + 1 \in 0 .. m /\ n + 1 \in 1 .. m /\ n \in 0 .. m
    OBVIOUS
  <2>2. Len(Flat(t, n)) + j \in 1 .. Len(Flat(t, n + 1))
    BY <1>0, <1>4, <1>5, <2>1
  <2> QED
    BY <1>5, <1>6, <2>1, <2>2
<1> QED
  BY <1>1, <1>3, <1>4, <1>5, <1>6, <1>7 DEF Placed

-----------------------------------------------------------------------------
(* Headers and bulk strings *)

\* The characters that the lexer tells apart differ.
LEMMA Characters ==
  /\ CR # LF /\ CR \notin LineTypes /\ LF \notin LineTypes
  /\ \A i \in 1 .. 10 : Digit[i] # CR /\ Digit[i] # LF /\ Digit[i] # "-"
  /\ \A i \in 1 .. 10 : \A j \in 1 .. 10 : Digit[i] = Digit[j] => i = j
  /\ CR # "-" /\ LF # "-"
<1>1. CR # LF /\ CR \notin LineTypes /\ LF \notin LineTypes /\ CR # "-" /\ LF # "-"
  BY Zenon DEF CR, LF, LineTypes
<1>2. \A i \in 1 .. 10 : Digit[i] # CR /\ Digit[i] # LF /\ Digit[i] # "-"
  BY DEF Digit, CR, LF
<1>3. \A i \in 1 .. 10 : \A j \in 1 .. 10 : Digit[i] = Digit[j] => i = j
  BY DEF Digit
<1> QED
  BY <1>1, <1>2, <1>3

\* They are bytes.
LEMMA AreBytes ==
  /\ CR \in Bytes /\ LF \in Bytes /\ LineTypes \subseteq Bytes /\ "-" \in Bytes
  /\ \A i \in 1 .. 10 : Digit[i] \in Bytes
<1>1. CR \in Bytes /\ LF \in Bytes /\ LineTypes \subseteq Bytes
  BY Zenon DEF Bytes
<1>2. "-" \in LineTypes
  BY DEF LineTypes
<1>3. DOMAIN Digit = 1 .. 10
  BY DEF Digit
<1>4. \A i \in 1 .. 10 : Digit[i] \in Range(Digit)
  BY <1>3 DEF Range
<1>5. Range(Digit) \subseteq Bytes
  BY Zenon DEF Bytes
<1> QED
  BY <1>1, <1>2, <1>4, <1>5

\* One piece in front of a sequence.
LEMMA ConcatOne ==
  ASSUME NEW S, NEW a \in S, NEW s \in Seq(S)
  PROVE  /\ <<a>> \o s \in Seq(S) /\ Len(<<a>> \o s) = Len(s) + 1
         /\ (<<a>> \o s)[1] = a /\ \A i \in 1 .. Len(s) : (<<a>> \o s)[i + 1] = s[i]
<1> DEFINE t == <<a>>
<1>1. t \in Seq(S) /\ Len(t) = 1 /\ t[1] = a /\ Len(s) \in Nat
  BY LenProperties
<1> HIDE DEF t
<1>2. /\ t \o s \in Seq(S) /\ Len(t \o s) = Len(t) + Len(s)
      /\ \A i \in 1 .. Len(t) + Len(s) :
           (t \o s)[i] = IF i <= Len(t) THEN t[i] ELSE s[i - Len(t)]
  BY <1>1, ConcatProperties
<1>3. (t \o s)[1] = a
  BY <1>1, <1>2
<1>4. ASSUME NEW i \in 1 .. Len(s) PROVE (t \o s)[i + 1] = s[i]
  <2>1. i + 1 \in 1 .. Len(t) + Len(s) /\ ~(i + 1 <= Len(t)) /\ i + 1 - Len(t) = i
    BY <1>1
  <2> QED
    BY <1>2, <2>1
<1> QED
  BY <1>1, <1>2, <1>3, <1>4 DEF t

\* A header has four bytes, its number one of them.
LEMMA HeaderIs ==
  ASSUME NEW t \in LineTypes, NEW n \in 0 .. 9
  PROVE  LET h == HeaderLine(t, n) IN
         /\ h \in Seq(Bytes) /\ Len(h) = 4
         /\ h[1] = t /\ h[2] = Digit[n + 1] /\ h[3] = CR /\ h[4] = LF
<1> DEFINE d == Digit[n + 1]
           end == <<CR, LF>>
<1>1. HeaderLine(t, n) = (<<t>> \o <<d>>) \o end
  BY DEF HeaderLine, Decimal
<1>2. t \in Bytes /\ d \in Bytes /\ CR \in Bytes /\ LF \in Bytes
  BY AreBytes
<1> HIDE DEF d
<1>3. end \in Seq(Bytes) /\ Len(end) = 2 /\ end[1] = CR /\ end[2] = LF
  BY <1>2
<1>4. <<d>> \in Seq(Bytes) /\ Len(<<d>>) = 1 /\ <<d>>[1] = d
  BY <1>2
<1> DEFINE a == <<t>> \o <<d>>
<1>5. a \in Seq(Bytes) /\ Len(a) = 2 /\ a[1] = t /\ a[2] = d
  <2> DEFINE e == <<d>>
  <2>1. e \in Seq(Bytes) /\ Len(e) = 1 /\ e[1] = d
    BY <1>4
  <2> HIDE DEF e
  <2>2. /\ <<t>> \o e \in Seq(Bytes) /\ Len(<<t>> \o e) = 2
        /\ (<<t>> \o e)[1] = t /\ (<<t>> \o e)[1 + 1] = e[1]
    BY <1>2, <2>1, ConcatOne
  <2> QED
    BY <2>1, <2>2 DEF e
<1> HIDE DEF a, end
<1>6. /\ a \o end \in Seq(Bytes) /\ Len(a \o end) = Len(a) + Len(end)
      /\ \A i \in 1 .. Len(a) + Len(end) :
           (a \o end)[i] = IF i <= Len(a) THEN a[i] ELSE end[i - Len(a)]
  BY <1>3, <1>5, ConcatProperties
<1>7. /\ Len(a \o end) = 4 /\ (a \o end)[1] = t /\ (a \o end)[2] = d
      /\ (a \o end)[3] = CR /\ (a \o end)[4] = LF
  BY <1>3, <1>5, <1>6
<1> QED
  BY <1>1, <1>6, <1>7 DEF a, end, d

\* The null string has five.
LEMMA NullIs ==
  LET h == HeaderLine("$", -1) IN
  /\ h \in Seq(Bytes) /\ Len(h) = 5
  /\ h[1] = "$" /\ h[2] = "-" /\ h[3] = "1" /\ h[4] = CR /\ h[5] = LF
<1> DEFINE minus == <<"-", "1">>
           end == <<CR, LF>>
<1>0. "$" \in LineTypes /\ "1" = Digit[2]
  BY DEF LineTypes, Digit
<1>1. HeaderLine("$", -1) = (<<"$">> \o minus) \o end
  BY DEF HeaderLine, Decimal
<1>2. "$" \in Bytes /\ "-" \in Bytes /\ "1" \in Bytes /\ CR \in Bytes /\ LF \in Bytes
  BY <1>0, AreBytes
<1>3. /\ end \in Seq(Bytes) /\ Len(end) = 2 /\ end[1] = CR /\ end[2] = LF
      /\ minus \in Seq(Bytes) /\ Len(minus) = 2 /\ minus[1] = "-" /\ minus[2] = "1"
  BY <1>2
<1> HIDE DEF minus, end
<1> DEFINE a == <<"$">> \o minus
<1>4. /\ a \in Seq(Bytes) /\ Len(a) = 3 /\ a[1] = "$" /\ a[1 + 1] = minus[1] /\ a[2 + 1] = minus[2]
  <2> DEFINE t == "$"
  <2>1. t \in Bytes
    BY <1>2
  <2> HIDE DEF t
  <2>2. /\ <<t>> \o minus \in Seq(Bytes) /\ Len(<<t>> \o minus) = Len(minus) + 1
        /\ (<<t>> \o minus)[1] = t
        /\ \A i \in 1 .. Len(minus) : (<<t>> \o minus)[i + 1] = minus[i]
    <3>1. minus \in Seq(Bytes)
      BY <1>3
    <3> QED
      BY <2>1, <3>1, ConcatOne
  <2> QED
    BY <1>3, <2>2 DEF t
<1> HIDE DEF a
<1>5. /\ a \o end \in Seq(Bytes) /\ Len(a \o end) = Len(a) + Len(end)
      /\ \A i \in 1 .. Len(a) + Len(end) :
           (a \o end)[i] = IF i <= Len(a) THEN a[i] ELSE end[i - Len(a)]
  BY <1>3, <1>4, ConcatProperties
<1>6. /\ Len(a \o end) = 5 /\ (a \o end)[1] = "$" /\ (a \o end)[2] = "-"
      /\ (a \o end)[3] = "1" /\ (a \o end)[4] = CR /\ (a \o end)[5] = LF
  BY <1>3, <1>4, <1>5
<1> QED
  BY <1>1, <1>5, <1>6 DEF a

\* The payloads that this program's leader writes as the null string.
Null(w, s) == Len(s) = 0 /\ w = "leader"

\* What is written for a payload: the null string, or a header, the payload and a
\* line end.
LEMMA BulkIs ==
  ASSUME NEW w, NEW s \in Seq(Bytes), NEW len \in 0 .. 9, Len(s) = len
  PROVE  LET b == BulkAsRespString(s, w) IN
         /\ b \in Seq(Bytes) /\ Len(b) \in Nat /\ b[1] = "$"
         /\ Null(w, s) => Len(b) = 5 /\ b[2] = "-" /\ b[3] = "1" /\ b[4] = CR /\ b[5] = LF
         /\ ~Null(w, s) => /\ Len(b) = 6 + len
                           /\ b[2] = Digit[len + 1] /\ b[3] = CR /\ b[4] = LF
                           /\ \A j \in 1 .. len : b[4 + j] = s[j]
                           /\ b[5 + len] = CR /\ b[6 + len] = LF
<1>1. CASE Null(w, s)
  <2>1. BulkAsRespString(s, w) = HeaderLine("$", -1)
    BY <1>1 DEF BulkAsRespString, Null
  <2> QED
    BY <1>1, <2>1, NullIs
<1>2. CASE ~Null(w, s)
  <2> DEFINE h == HeaderLine("$", len)
             end == <<CR, LF>>
  <2>1. BulkAsRespString(s, w) = (h \o s) \o end
    BY <1>2 DEF BulkAsRespString, Null
  <2>2. h \in Seq(Bytes) /\ Len(h) = 4 /\ h[1] = "$" /\ h[2] = Digit[len + 1] /\ h[3] = CR /\ h[4] = LF
    <3>1. "$" \in LineTypes
      BY DEF LineTypes
    <3> QED
      BY <3>1, HeaderIs, Zenon
  <2>3. end \in Seq(Bytes) /\ Len(end) = 2 /\ end[1] = CR /\ end[2] = LF
    BY AreBytes
  <2> HIDE DEF h, end
  <2> DEFINE a == h \o s
  <2>4. /\ a \in Seq(Bytes) /\ Len(a) = Len(h) + Len(s)
        /\ \A i \in 1 .. Len(h) + Len(s) :
             a[i] = IF i <= Len(h) THEN h[i] ELSE s[i - Len(h)]
    BY <2>2, ConcatProperties
  <2> HIDE DEF a
  <2>a. a \in Seq(Bytes) /\ end \in Seq(Bytes)
    BY <2>3, <2>4
  <2>5. /\ a \o end \in Seq(Bytes) /\ Len(a \o end) = Len(a) + Len(end)
        /\ \A i \in 1 .. Len(a) + Len(end) :
             (a \o end)[i] = IF i <= Len(a) THEN a[i] ELSE end[i - Len(a)]
    BY <2>a, ConcatProperties
  <2>6. Len(a) = 4 + len /\ Len(a \o end) = 6 + len
    BY <2>2, <2>3, <2>4, <2>5
  <2>7. \A i \in 1 .. 4 : (a \o end)[i] = h[i]
    BY <2>2, <2>3, <2>4, <2>5, <2>6
  <2>8. ASSUME NEW j \in 1 .. len PROVE (a \o end)[4 + j] = s[j]
    <3>1. /\ 4 + j \in 1 .. Len(a) + Len(end) /\ 4 + j <= Len(a) /\ 4 + j \in 1 .. Len(h) + Len(s)
          /\ ~(4 + j <= Len(h)) /\ 4 + j - Len(h) = j
      BY <2>2, <2>3, <2>6
    <3> QED
      BY <2>4, <2>5, <3>1
  <2>9. (a \o end)[5 + len] = CR /\ (a \o end)[6 + len] = LF
    <3>1. /\ 5 + len \in 1 .. Len(a) + Len(end) /\ ~(5 + len <= Len(a)) /\ 5 + len - Len(a) = 1
          /\ 6 + len \in 1 .. Len(a) + Len(end) /\ ~(6 + len <= Len(a)) /\ 6 + len - Len(a) = 2
      BY <2>3, <2>6
    <3> QED
      BY <2>3, <2>5, <3>1
  <2> QED
    BY <1>2, <2>1, <2>2, <2>5, <2>6, <2>7, <2>8, <2>9, SMTT(60) DEF a
<1> QED
  BY <1>1, <1>2

-----------------------------------------------------------------------------
(* Where everything is in a stream *)

\* What is written for the commands cs, whole and up to the end of the nth; and
\* for the payloads of one command.
Senders == {"client", "leader", "redis"}
Pieces(w, cs) == [i \in 1 .. Len(cs) |-> ArrayAsRespString(cs[i], w)]
StreamOf(w, cs) == Flat(Pieces(w, cs), Len(cs))
Offset(w, cs, n) == Len(Flat(Pieces(w, cs), n))
Bulks(w, c) == [i \in 1 .. Len(c) |-> BulkAsRespString(c[i], w)]
ItemAt(w, cs, n, k) == Offset(w, cs, n) + 4 + Len(Flat(Bulks(w, cs[n + 1]), k))

\* What is written for s is at q in S, and e is where it ends.
BulkAt(S, w, q, s, e) ==
  /\ q \in Nat /\ e \in Nat /\ e <= Len(S) /\ S[q + 1] = "$"
  /\ Null(w, s) => /\ e = q + 5
                   /\ S[q + 2] = "-" /\ S[q + 3] = "1" /\ S[q + 4] = CR /\ S[q + 5] = LF
  /\ ~Null(w, s) => /\ e = q + 6 + Len(s)
                    /\ S[q + 2] = Digit[Len(s) + 1] /\ S[q + 3] = CR /\ S[q + 4] = LF
                    /\ \A j \in 1 .. Len(s) : S[q + 4 + j] = s[j]
                    /\ S[q + 5 + Len(s)] = CR /\ S[q + 6 + Len(s)] = LF

\* The command after the nth is where its offset says, payload by payload.
CommandAt(S, w, cs, n) ==
  LET c == cs[n + 1]
      q == Offset(w, cs, n)
  IN /\ q \in Nat /\ q + 4 <= Len(S)
     /\ S[q + 1] = "*" /\ S[q + 2] = Digit[Len(c) + 1] /\ S[q + 3] = CR /\ S[q + 4] = LF
     /\ ItemAt(w, cs, n, 0) = q + 4
     /\ ItemAt(w, cs, n, Len(c)) = Offset(w, cs, n + 1)
     /\ \A k \in 0 .. Len(c) - 1 :
          BulkAt(S, w, ItemAt(w, cs, n, k), c[k + 1], ItemAt(w, cs, n, k + 1))

\* The payloads of a command, one after another.
LEMMA PayloadPlaces ==
  ASSUME NEW w \in Senders, NEW c \in Commands
  PROVE  LET F(k) == Flat(Bulks(w, c), k) IN
         /\ Len(c) \in 1 .. 9 /\ c \in Seq(Seq(Bytes))
         /\ F(Len(c)) \in Seq(Bytes) /\ Len(F(0)) = 0
         /\ \A k \in 0 .. Len(c) : Len(F(k)) \in Nat /\ Len(F(k)) <= Len(F(Len(c)))
         /\ \A k \in 0 .. Len(c) - 1 :
              BulkAt(F(Len(c)), w, Len(F(k)), c[k + 1], Len(F(k + 1)))
<1> DEFINE t == Bulks(w, c)
           F(k) == Flat(t, k)
           m == Len(c)
<1>1. /\ m \in 1 .. 9 /\ m \in Nat /\ c \in Seq(Seq(Bytes))
      /\ \A i \in 1 .. m : c[i] \in Seq(Bytes) /\ Len(c[i]) \in 0 .. 9
  BY WireConstants
<1>2. \A i \in 1 .. m : t[i] = BulkAsRespString(c[i], w)
  BY DEF Bulks
<1>3. ASSUME NEW i \in 1 .. m
      PROVE  LET b == t[i]
                 s == c[i]
             IN /\ b \in Seq(Bytes) /\ Len(b) \in Nat /\ b[1] = "$"
                /\ Null(w, s) => Len(b) = 5 /\ b[2] = "-" /\ b[3] = "1" /\ b[4] = CR /\ b[5] = LF
                /\ ~Null(w, s) => /\ Len(b) = 6 + Len(s)
                                  /\ b[2] = Digit[Len(s) + 1] /\ b[3] = CR /\ b[4] = LF
                                  /\ \A j \in 1 .. Len(s) : b[4 + j] = s[j]
                                  /\ b[5 + Len(s)] = CR /\ b[6 + Len(s)] = LF
  <2> DEFINE s == c[i]
             len == Len(s)
  <2>1. s \in Seq(Bytes) /\ len \in 0 .. 9 /\ Len(s) = len /\ t[i] = BulkAsRespString(s, w)
    BY <1>1, <1>2
  <2> HIDE DEF s, len, t
  <2>2. LET b == BulkAsRespString(s, w) IN
         /\ b \in Seq(Bytes) /\ Len(b) \in Nat /\ b[1] = "$"
         /\ Null(w, s) => Len(b) = 5 /\ b[2] = "-" /\ b[3] = "1" /\ b[4] = CR /\ b[5] = LF
         /\ ~Null(w, s) => /\ Len(b) = 6 + len
                           /\ b[2] = Digit[len + 1] /\ b[3] = CR /\ b[4] = LF
                           /\ \A j \in 1 .. len : b[4 + j] = s[j]
                           /\ b[5 + len] = CR /\ b[6 + len] = LF
    BY <2>1, BulkIs, ZenonT(60)
  <2> QED
    BY <2>1, <2>2 DEF s
<1> HIDE DEF t, m
<1>4. \A i \in 1 .. m : t[i] \in Seq(Bytes)
  BY <1>3
<1>5. /\ F(0) = <<>>
      /\ \A n \in 0 .. m : F(n) \in Seq(Bytes) /\ Len(F(n)) \in Nat /\ Len(F(n)) <= Len(F(m))
      /\ \A n \in 0 .. m - 1 :
              /\ Len(F(n + 1)) = Len(F(n)) + Len(t[n + 1])
              /\ \A j \in 1 .. Len(t[n + 1]) : F(m)[Len(F(n)) + j] = t[n + 1][j]
  <2>1. Placed(Bytes, t, m)
    BY <1>1, <1>4, FlatPlaces
  <2> QED
    BY <2>1 DEF Placed
<1> HIDE DEF F
<1>6. ASSUME NEW k \in 0 .. m - 1
      PROVE  BulkAt(F(m), w, Len(F(k)), c[k + 1], Len(F(k + 1)))
  <2> DEFINE q == Len(F(k))
             e == Len(F(k + 1))
             b == t[k + 1]
             s == c[k + 1]
             S == F(m)
  <2>1. k \in 0 .. m /\ k + 1 \in 0 .. m /\ k + 1 \in 1 .. m
    BY <1>1
  <2>2. q \in Nat /\ e \in Nat /\ e <= Len(S) /\ Len(s) \in 0 .. 9
    BY <1>1, <1>5, <2>1
  <2>3. e = q + Len(b) /\ \A j \in 1 .. Len(b) : S[q + j] = b[j]
    BY <1>5
  <2>4. /\ Len(b) \in Nat /\ b[1] = "$"
        /\ Null(w, s) => Len(b) = 5 /\ b[2] = "-" /\ b[3] = "1" /\ b[4] = CR /\ b[5] = LF
        /\ ~Null(w, s) => /\ Len(b) = 6 + Len(s)
                          /\ b[2] = Digit[Len(s) + 1] /\ b[3] = CR /\ b[4] = LF
                          /\ \A j \in 1 .. Len(s) : b[4 + j] = s[j]
                          /\ b[5 + Len(s)] = CR /\ b[6 + Len(s)] = LF
    BY <1>3, <2>1
  <2> HIDE DEF q, e, b, s, S
  <2>a. \A j \in 1 .. Len(b) : S[q + j] = b[j]
    BY <2>3
  <2>5. S[q + 1] = "$"
    BY <2>2, <2>3, <2>4, SMTT(60)
  <2>6. ASSUME Null(w, s)
        PROVE  e = q + 5 /\ S[q + 2] = "-" /\ S[q + 3] = "1" /\ S[q + 4] = CR /\ S[q + 5] = LF
    <3>1. Len(b) = 5 /\ b[2] = "-" /\ b[3] = "1" /\ b[4] = CR /\ b[5] = LF
      BY <2>4, <2>6, Zenon
    <3>2. /\ S[q + 2] = b[2] /\ S[q + 3] = b[3] /\ S[q + 4] = b[4] /\ S[q + 5] = b[5]
          /\ e = q + 5
      BY <2>2, <2>3, <3>1
    <3> QED
      BY <3>1, <3>2
  <2>7. ASSUME ~Null(w, s)
        PROVE  /\ e = q + 6 + Len(s)
               /\ S[q + 2] = Digit[Len(s) + 1] /\ S[q + 3] = CR /\ S[q + 4] = LF
               /\ \A j \in 1 .. Len(s) : S[q + 4 + j] = s[j]
               /\ S[q + 5 + Len(s)] = CR /\ S[q + 6 + Len(s)] = LF
    <3> DEFINE len == Len(s)
    <3>1. /\ len \in 0 .. 9 /\ Len(b) = 6 + len
          /\ b[2] = Digit[len + 1] /\ b[3] = CR /\ b[4] = LF /\ b[5 + len] = CR /\ b[6 + len] = LF
          /\ \A j \in 1 .. len : b[4 + j] = s[j]
      <4>1. len \in 0 .. 9
        BY <2>2
      <4>2. /\ Len(b) = 6 + Len(s)
            /\ b[2] = Digit[Len(s) + 1] /\ b[3] = CR /\ b[4] = LF
            /\ b[5 + Len(s)] = CR /\ b[6 + Len(s)] = LF
            /\ \A j \in 1 .. Len(s) : b[4 + j] = s[j]
        BY <2>4, <2>7
      <4> HIDE DEF len
      <4>3. len = Len(s)
        BY DEF len
      <4> QED
        BY <4>1, <4>2, <4>3, Zenon
    <3> HIDE DEF len
    <3>2. e = q + 6 + len
      <4>1. len \in 0 .. 9 /\ Len(b) = 6 + len /\ e = q + Len(b) /\ q \in Nat
        BY <2>2, <2>3, <3>1, Zenon
      <4> QED
        BY <4>1
    <3>3. S[q + 2] = b[2] /\ S[q + 3] = b[3] /\ S[q + 4] = b[4]
      BY <2>2, <2>3, <3>1, SMTT(60)
    <3>4. \A j \in 1 .. len : S[q + 4 + j] = s[j]
      <4> TAKE j \in 1 .. len
      <4>1. 4 + j \in 1 .. Len(b) /\ q + (4 + j) = q + 4 + j
        BY <2>2, <3>1
      <4> QED
        BY <2>3, <3>1, <4>1
    <3>5. S[q + 5 + len] = CR /\ S[q + 6 + len] = LF
      <4>1. /\ 5 + len \in 1 .. Len(b) /\ q + (5 + len) = q + 5 + len
            /\ 6 + len \in 1 .. Len(b) /\ q + (6 + len) = q + 6 + len
        <5>1. len \in 0 .. 9 /\ Len(b) = 6 + len /\ q \in Nat
          BY <2>2, <3>1, Zenon
        <5> QED
          BY <5>1
      <4> QED
        BY <2>3, <3>1, <4>1
    <3> QED
      BY <3>1, <3>2, <3>3, <3>4, <3>5 DEF len
  <2>8. BulkAt(S, w, q, s, e)
    BY <2>2, <2>5, <2>6, <2>7 DEF BulkAt
  <2> QED
    BY <2>8 DEF q, e, s, S
<1>7. Len(F(0)) = 0
  BY <1>5
<1>8. m \in 0 .. m
  BY <1>1
<1> QED
  BY <1>1, <1>5, <1>6, <1>7, <1>8 DEF F, t, m

\* A command on the wire: its header, then its payloads.
LEMMA PacketIs ==
  ASSUME NEW w \in Senders, NEW c \in Commands
  PROVE  LET b == ArrayAsRespString(c, w)
             F(k) == Flat(Bulks(w, c), k)
         IN /\ b \in Seq(Bytes) /\ Len(b) \in Nat /\ Len(b) = 4 + Len(F(Len(c)))
            /\ b[1] = "*" /\ b[2] = Digit[Len(c) + 1] /\ b[3] = CR /\ b[4] = LF
            /\ \A j \in 1 .. Len(F(Len(c))) : b[4 + j] = F(Len(c))[j]
<1> DEFINE h == HeaderLine("*", Len(c))
           F(k) == Flat(Bulks(w, c), k)
           f == F(Len(c))
<1>1. Len(c) \in 1 .. 9 /\ c \in Seq(Seq(Bytes)) /\ f \in Seq(Bytes)
  BY PayloadPlaces
<1>2. ArrayAsRespString(c, w) = h \o f
  <2>1. DOMAIN c = 1 .. Len(c)
    BY <1>1
  <2>2. [i \in DOMAIN c |-> BulkAsRespString(c[i], w)] = Bulks(w, c)
    BY <2>1 DEF Bulks
  <2>3. [i \in 1 .. Len(c) |-> Bulks(w, c)[i]] = Bulks(w, c)
    BY DEF Bulks
  <2> QED
    BY <2>2, <2>3 DEF ArrayAsRespString, Flat
<1>3. h \in Seq(Bytes) /\ Len(h) = 4 /\ h[1] = "*" /\ h[2] = Digit[Len(c) + 1] /\ h[3] = CR /\ h[4] = LF
  <2>1. "*" \in LineTypes /\ Len(c) \in 0 .. 9
    BY <1>1 DEF LineTypes
  <2> QED
    BY <2>1, HeaderIs, Zenon
<1> HIDE DEF h, f
<1>4. f \in Seq(Bytes) /\ Len(f) \in Nat
  BY <1>1, LenProperties
<1>5. /\ h \o f \in Seq(Bytes) /\ Len(h \o f) = Len(h) + Len(f)
      /\ \A i \in 1 .. Len(h) + Len(f) :
           (h \o f)[i] = IF i <= Len(h) THEN h[i] ELSE f[i - Len(h)]
  <2>1. h \in Seq(Bytes) /\ f \in Seq(Bytes)
    BY <1>3, <1>4
  <2> QED
    BY <2>1, ConcatProperties
<1>6. Len(h \o f) = 4 + Len(f) /\ Len(h \o f) \in Nat
  BY <1>3, <1>4, <1>5
<1>7. \A i \in 1 .. 4 : (h \o f)[i] = h[i]
  BY <1>3, <1>4, <1>5
<1>8. \A j \in 1 .. Len(f) : (h \o f)[4 + j] = f[j]
  <2> TAKE j \in 1 .. Len(f)
  <2>1. 4 + j \in 1 .. Len(h) + Len(f) /\ ~(4 + j <= Len(h)) /\ 4 + j - Len(h) = j
    BY <1>3, <1>4
  <2> QED
    BY <1>5, <2>1
<1>9. (h \o f)[1] = "*" /\ (h \o f)[2] = Digit[Len(c) + 1] /\ (h \o f)[3] = CR /\ (h \o f)[4] = LF
  <2> DEFINE g == h \o f
  <2>1. \A i \in 1 .. 4 : g[i] = h[i]
    BY <1>7
  <2> HIDE DEF g
  <2>2. g[1] = h[1] /\ g[2] = h[2] /\ g[3] = h[3] /\ g[4] = h[4]
    BY <2>1
  <2> QED
    BY <1>3, <2>2, Zenon DEF g
<1> QED
  BY <1>2, <1>5, <1>6, <1>8, <1>9 DEF f

\* What is at q in a piece that is at d in the whole is at d + q in the whole.
LEMMA BulkMoves ==
  ASSUME NEW T \in Seq(Bytes), NEW S, NEW d \in Nat, d + Len(T) <= Len(S), Len(S) \in Nat,
         \A j \in 1 .. Len(T) : S[d + j] = T[j],
         NEW w, NEW q, NEW e, NEW s, Len(s) \in 0 .. 9, BulkAt(T, w, q, s, e)
  PROVE  BulkAt(S, w, d + q, s, d + e)
<1> DEFINE len == Len(s)
<1>1. /\ q \in Nat /\ e \in Nat /\ e <= Len(T) /\ T[q + 1] = "$" /\ len \in 0 .. 9
      /\ Null(w, s) => /\ e = q + 5
                       /\ T[q + 2] = "-" /\ T[q + 3] = "1" /\ T[q + 4] = CR /\ T[q + 5] = LF
      /\ ~Null(w, s) => /\ e = q + 6 + len
                        /\ T[q + 2] = Digit[len + 1] /\ T[q + 3] = CR /\ T[q + 4] = LF
                        /\ \A j \in 1 .. len : T[q + 4 + j] = s[j]
                        /\ T[q + 5 + len] = CR /\ T[q + 6 + len] = LF
  BY DEF BulkAt
<1>2. Len(T) \in Nat
  BY LenProperties
<1> HIDE DEF len
<1>3. e >= q + 5
  BY <1>1, SMTT(60)
<1>4. ASSUME NEW i \in 1 .. Len(T) PROVE S[d + i] = T[i]
  OBVIOUS
<1>5. S[d + q + 1] = "$"
  <2>1. q + 1 \in 1 .. Len(T) /\ d + (q + 1) = d + q + 1
    BY <1>1, <1>2, <1>3
  <2> QED
    BY <1>1, <1>4, <2>1
<1>6. ASSUME Null(w, s)
      PROVE  /\ d + e = d + q + 5 /\ S[d + q + 2] = "-" /\ S[d + q + 3] = "1"
             /\ S[d + q + 4] = CR /\ S[d + q + 5] = LF
  <2>1. e = q + 5 /\ T[q + 2] = "-" /\ T[q + 3] = "1" /\ T[q + 4] = CR /\ T[q + 5] = LF
    BY <1>1, <1>6, Zenon
  <2>2. /\ q + 2 \in 1 .. Len(T) /\ q + 3 \in 1 .. Len(T) /\ q + 4 \in 1 .. Len(T) /\ q + 5 \in 1 .. Len(T)
        /\ d + (q + 2) = d + q + 2 /\ d + (q + 3) = d + q + 3 /\ d + (q + 4) = d + q + 4
        /\ d + (q + 5) = d + q + 5
    <3>1. q \in Nat /\ e \in Nat /\ e <= Len(T)
      BY <1>1
    <3> QED
      BY <1>2, <2>1, <3>1
  <2> QED
    BY <1>4, <2>1, <2>2
<1>7. ASSUME ~Null(w, s)
      PROVE  /\ d + e = d + q + 6 + len
             /\ S[d + q + 2] = Digit[len + 1] /\ S[d + q + 3] = CR /\ S[d + q + 4] = LF
             /\ \A j \in 1 .. len : S[d + q + 4 + j] = s[j]
             /\ S[d + q + 5 + len] = CR /\ S[d + q + 6 + len] = LF
  <2>0. q \in Nat /\ e \in Nat /\ e <= Len(T) /\ len \in 0 .. 9
    BY <1>1
  <2>1. /\ e = q + 6 + len
        /\ T[q + 2] = Digit[len + 1] /\ T[q + 3] = CR /\ T[q + 4] = LF
        /\ \A j \in 1 .. len : T[q + 4 + j] = s[j]
        /\ T[q + 5 + len] = CR /\ T[q + 6 + len] = LF
    BY <1>1, <1>7, Zenon
  <2>2. /\ q + 2 \in 1 .. Len(T) /\ q + 3 \in 1 .. Len(T) /\ q + 4 \in 1 .. Len(T)
        /\ q + 5 + len \in 1 .. Len(T) /\ q + 6 + len \in 1 .. Len(T)
        /\ d + (q + 2) = d + q + 2 /\ d + (q + 3) = d + q + 3 /\ d + (q + 4) = d + q + 4
        /\ d + (q + 5 + len) = d + q + 5 + len /\ d + (q + 6 + len) = d + q + 6 + len
    <3>1. e = q + 6 + len
      BY <2>1
    <3> QED
      BY <1>2, <2>0, <3>1
  <2>3. ASSUME NEW j \in 1 .. len PROVE S[d + q + 4 + j] = s[j]
    <3>1. q + 4 + j \in 1 .. Len(T) /\ d + (q + 4 + j) = d + q + 4 + j
      <4>1. e = q + 6 + len
        BY <2>1
      <4> QED
        BY <1>2, <2>0, <4>1, SMTT(60)
    <3> QED
      BY <1>4, <2>1, <3>1
  <2>4. d + e = d + q + 6 + len
    <3>1. e = q + 6 + len
      BY <2>1
    <3> QED
      BY <2>0, <3>1
  <2> QED
    BY <1>4, <2>1, <2>2, <2>3, <2>4, ZenonT(60)
<1>8. d + q \in Nat /\ d + e \in Nat /\ d + e <= Len(S)
  BY <1>1, <1>2
<1> QED
  BY <1>5, <1>6, <1>7, <1>8 DEF BulkAt, len

\* A stream holds its commands.
LEMMA Framing ==
  ASSUME NEW w \in Senders, NEW cs \in Seq(Commands)
  PROVE  LET S == StreamOf(w, cs) IN
         /\ S \in Seq(Bytes) /\ Len(S) \in Nat /\ Len(cs) \in Nat
         /\ Offset(w, cs, 0) = 0 /\ Offset(w, cs, Len(cs)) = Len(S)
         /\ \A n \in 0 .. Len(cs) : Offset(w, cs, n) \in Nat /\ Offset(w, cs, n) <= Len(S)
         /\ \A n \in 0 .. Len(cs) - 1 : CommandAt(S, w, cs, n)
<1> DEFINE t == Pieces(w, cs)
           m == Len(cs)
           S == StreamOf(w, cs)
<1>1. m \in Nat /\ \A i \in 1 .. m : cs[i] \in Commands /\ t[i] = ArrayAsRespString(cs[i], w)
  <2>1. m \in Nat
    BY LenProperties
  <2> QED
    BY <2>1 DEF Pieces
<1>2. \A i \in 1 .. m : t[i] \in Seq(Bytes)
  BY <1>1, PacketIs
<1> HIDE DEF t, m
<1>3. Placed(Bytes, t, m)
  BY <1>1, <1>2, FlatPlaces
<1>4. /\ Flat(t, 0) = <<>>
      /\ \A n \in 0 .. m : /\ Flat(t, n) \in Seq(Bytes) /\ Len(Flat(t, n)) \in Nat
                           /\ Len(Flat(t, n)) <= Len(Flat(t, m))
      /\ \A n \in 0 .. m - 1 :
              /\ Len(Flat(t, n + 1)) = Len(Flat(t, n)) + Len(t[n + 1])
              /\ \A j \in 1 .. Len(t[n + 1]) : Flat(t, m)[Len(Flat(t, n)) + j] = t[n + 1][j]
  BY <1>3 DEF Placed
<1>5. S = Flat(t, m) /\ \A n \in 0 .. m : Offset(w, cs, n) = Len(Flat(t, n))
  BY DEF StreamOf, Offset, t, m
<1>6. S \in Seq(Bytes) /\ Len(S) \in Nat /\ Offset(w, cs, 0) = 0 /\ Offset(w, cs, m) = Len(S)
  <2>1. 0 \in 0 .. m /\ m \in 0 .. m /\ Len(<<>>) = 0
    BY <1>1
  <2> QED
    BY <1>4, <1>5, <2>1
<1>7. \A n \in 0 .. m : Offset(w, cs, n) \in Nat /\ Offset(w, cs, n) <= Len(S)
  BY <1>4, <1>5
<1>8. ASSUME NEW n \in 0 .. m - 1 PROVE CommandAt(S, w, cs, n)
  <2> DEFINE c == cs[n + 1]
             b == ArrayAsRespString(c, w)
             q == Offset(w, cs, n)
             F(k) == Flat(Bulks(w, c), k)
             l == Len(c)
             f == F(l)
  <2>1. n \in 0 .. m /\ n + 1 \in 0 .. m /\ n + 1 \in 1 .. m
    BY <1>1
  <2>2. c \in Commands /\ t[n + 1] = b
    BY <1>1, <2>1
  <2>3. /\ q \in Nat /\ q + Len(b) = Offset(w, cs, n + 1) /\ Offset(w, cs, n + 1) <= Len(S)
        /\ \A j \in 1 .. Len(b) : S[q + j] = b[j]
    BY <1>4, <1>5, <1>7, <2>1, <2>2
  <2> HIDE DEF c
  <2>4. /\ b \in Seq(Bytes) /\ Len(b) \in Nat /\ Len(b) = 4 + Len(f)
        /\ b[1] = "*" /\ b[2] = Digit[l + 1] /\ b[3] = CR /\ b[4] = LF
        /\ \A j \in 1 .. Len(f) : b[4 + j] = f[j]
    BY <2>2, PacketIs, Zenon
  <2>5. /\ l \in 1 .. 9 /\ c \in Seq(Seq(Bytes)) /\ f \in Seq(Bytes) /\ Len(F(0)) = 0
        /\ \A k \in 0 .. l : Len(F(k)) \in Nat /\ Len(F(k)) <= Len(f)
        /\ \A k \in 0 .. l - 1 : BulkAt(f, w, Len(F(k)), c[k + 1], Len(F(k + 1)))
    BY <2>2, PayloadPlaces, Zenon
  <2>6. \A k : ItemAt(w, cs, n, k) = q + 4 + Len(F(k))
    BY DEF ItemAt, c
  <2> HIDE DEF F, l, q, b, S, f
  <2>7. Len(f) \in Nat
    BY <2>5, LenProperties
  <2>8. q + 4 <= Len(S) /\ S[q + 1] = "*" /\ S[q + 2] = Digit[l + 1] /\ S[q + 3] = CR /\ S[q + 4] = LF
    <3>1. 1 \in 1 .. Len(b) /\ 2 \in 1 .. Len(b) /\ 3 \in 1 .. Len(b) /\ 4 \in 1 .. Len(b)
      BY <2>4, <2>7
    <3>2. q + 4 <= Len(S)
      BY <1>6, <2>3, <2>4, <2>7
    <3> QED
      BY <2>3, <2>4, <3>1, <3>2
  <2>9. ItemAt(w, cs, n, 0) = q + 4 /\ ItemAt(w, cs, n, l) = Offset(w, cs, n + 1)
    <3>1. Len(F(l)) = Len(f)
      BY DEF f
    <3>2. ItemAt(w, cs, n, 0) = q + 4 + Len(F(0)) /\ ItemAt(w, cs, n, l) = q + 4 + Len(F(l))
      BY <2>6, Zenon
    <3>3. Len(F(0)) = 0
      BY <2>5, Zenon
    <3>4. q \in Nat /\ q + Len(b) = Offset(w, cs, n + 1) /\ Len(b) = 4 + Len(f)
      BY <2>3, <2>4, Zenon
    <3> QED
      BY <2>7, <3>1, <3>2, <3>3, <3>4
  <2>10. ASSUME NEW k \in 0 .. l - 1
         PROVE  BulkAt(S, w, ItemAt(w, cs, n, k), c[k + 1], ItemAt(w, cs, n, k + 1))
    <3> DEFINE d == q + 4
               s == c[k + 1]
               i == Len(F(k))
               j == Len(F(k + 1))
    <3>1. BulkAt(f, w, i, s, j)
      BY <2>5
    <3>2. Len(s) \in 0 .. 9
      <4>1. k + 1 \in DOMAIN c
        BY <2>5 DEF l
      <4> QED
        BY <2>2, <4>1, WireConstants
    <3>3. d \in Nat /\ d + Len(f) <= Len(S)
      BY <1>6, <2>3, <2>4, <2>7
    <3>4. ASSUME NEW u \in 1 .. Len(f) PROVE S[d + u] = f[u]
      <4>1. 4 + u \in 1 .. Len(b) /\ q + (4 + u) = d + u
        BY <2>3, <2>4, <2>7
      <4> QED
        BY <2>3, <2>4, <4>1
    <3> HIDE DEF d, s, i, j
    <3>5. BulkAt(S, w, d + i, s, d + j)
      BY <1>6, <2>5, <3>1, <3>2, <3>3, <3>4, BulkMoves
    <3> QED
      BY <2>6, <3>5 DEF d, s, i, j
  <2> QED
    BY <2>3, <2>8, <2>9, <2>10 DEF CommandAt, c, l, q
<1> QED
  BY <1>1, <1>6, <1>7, <1>8 DEF m

\* One more command is written behind the others and moves nothing.
LEMMA Extends ==
  ASSUME NEW w \in Senders, NEW cs \in Seq(Commands), NEW c \in Commands
  PROVE  LET ds == Append(cs, c)
             S == StreamOf(w, cs)
             T == StreamOf(w, ds)
             b == ArrayAsRespString(c, w)
         IN /\ ds \in Seq(Commands) /\ Len(ds) = Len(cs) + 1
            /\ Len(T) = Len(S) + Len(b)
            /\ \A j \in 1 .. Len(S) : T[j] = S[j]
            /\ \A j \in 1 .. Len(b) : T[Len(S) + j] = b[j]
            /\ \A n \in 0 .. Len(cs) : Offset(w, ds, n) = Offset(w, cs, n)
            /\ \A n \in 0 .. Len(cs) - 1 :
                 ds[n + 1] = cs[n + 1] /\ \A k : ItemAt(w, ds, n, k) = ItemAt(w, cs, n, k)
<1> DEFINE ds == Append(cs, c)
           m == Len(cs)
           t == Pieces(w, cs)
           u == Pieces(w, ds)
           S == StreamOf(w, cs)
           T == StreamOf(w, ds)
           b == ArrayAsRespString(c, w)
<1>1. /\ m \in Nat /\ ds \in Seq(Commands) /\ Len(ds) = m + 1 /\ ds[m + 1] = c
      /\ \A i \in 1 .. m : ds[i] = cs[i]
  BY LenProperties, AppendProperties
<1>2. u[m + 1] = b /\ \A i \in 1 .. m : u[i] = t[i]
  <2>1. m + 1 \in 1 .. Len(ds) /\ \A i \in 1 .. m : i \in 1 .. Len(ds)
    BY <1>1
  <2>2. \A i \in 1 .. Len(ds) : u[i] = ArrayAsRespString(ds[i], w)
    BY DEF Pieces
  <2>3. \A i \in 1 .. m : t[i] = ArrayAsRespString(cs[i], w)
    BY DEF Pieces
  <2> HIDE DEF u, t, ds
  <2> QED
    BY <1>1, <2>1, <2>2, <2>3
<1>3. ASSUME NEW n \in 0 .. m PROVE Flat(u, n) = Flat(t, n)
  <2>1. ASSUME NEW i \in 1 .. n PROVE u[i] = t[i]
    <3>1. i \in 1 .. m
      BY <1>1
    <3> QED
      BY <1>2, <3>1
  <2> HIDE DEF u, t
  <2>2. [i \in 1 .. n |-> u[i]] = [i \in 1 .. n |-> t[i]]
    BY <2>1
  <2> QED
    BY <2>2 DEF Flat
<1>4. S = Flat(t, m) /\ T = Flat(u, m + 1)
  BY <1>1 DEF StreamOf
<1>5. T = IF m = 0 THEN b ELSE S \o b
  <2> HIDE DEF u, t, b, S, T, m
  <2>1. Flat(u, m + 1) = IF m = 0 THEN u[m + 1] ELSE Flat(u, m) \o u[m + 1]
    BY <1>1, FlatStep
  <2>2. Flat(u, m) = Flat(t, m)
    <3>1. m \in 0 .. m
      BY <1>1
    <3> QED
      BY <1>3, <3>1
  <2> QED
    BY <1>2, <1>4, <2>1, <2>2
<1>6. S \in Seq(Bytes) /\ Len(S) \in Nat /\ b \in Seq(Bytes) /\ Len(b) \in Nat
  BY Framing, PacketIs
<1>7. m = 0 => Len(S) = 0
  BY Framing
<1>8. /\ Len(T) = Len(S) + Len(b)
      /\ \A j \in 1 .. Len(S) : T[j] = S[j]
      /\ \A j \in 1 .. Len(b) : T[Len(S) + j] = b[j]
  <2> HIDE DEF S, T, b, m
  <2>1. CASE m = 0
    BY <1>5, <1>6, <1>7, <2>1
  <2>2. CASE m # 0
    <3>1. /\ Len(S \o b) = Len(S) + Len(b)
          /\ \A i \in 1 .. Len(S) + Len(b) :
               (S \o b)[i] = IF i <= Len(S) THEN S[i] ELSE b[i - Len(S)]
      BY <1>6, ConcatProperties
    <3>2. T = S \o b
      BY <1>5, <2>2
    <3>3. \A j \in 1 .. Len(S) : T[j] = S[j]
      BY <1>6, <3>1, <3>2
    <3>4. \A j \in 1 .. Len(b) : T[Len(S) + j] = b[j]
      <4> TAKE j \in 1 .. Len(b)
      <4>1. /\ Len(S) + j \in 1 .. Len(S) + Len(b) /\ ~(Len(S) + j <= Len(S))
            /\ Len(S) + j - Len(S) = j
        BY <1>6
      <4> QED
        BY <3>1, <3>2, <4>1
    <3> QED
      BY <3>1, <3>2, <3>3, <3>4
  <2> QED
    BY <2>1, <2>2
<1>9. \A n \in 0 .. m : Offset(w, ds, n) = Offset(w, cs, n)
  BY <1>3 DEF Offset
<1>10. ASSUME NEW n \in 0 .. m - 1
       PROVE  ds[n + 1] = cs[n + 1] /\ \A k : ItemAt(w, ds, n, k) = ItemAt(w, cs, n, k)
  <2>1. n \in 0 .. m /\ n + 1 \in 1 .. m
    BY <1>1
  <2>2. ds[n + 1] = cs[n + 1] /\ Offset(w, ds, n) = Offset(w, cs, n)
    BY <1>1, <1>9, <2>1
  <2> HIDE DEF ds
  <2> QED
    BY <2>2 DEF ItemAt
<1> QED
  BY <1>1, <1>8, <1>9, <1>10

\* The count of the bytes that were sent, as the property has it.
LEMMA SentBytesIs ==
  ASSUME sent \in Seq(Commands), NEW n \in 0 .. Len(sent)
  PROVE  SentBytes(n) = Offset(sender, sent, n)
<1> DEFINE t == Pieces(sender, sent)
<1>1. \A i \in 1 .. n : i \in 1 .. Len(sent)
  BY LenProperties
<1>2. ASSUME NEW i \in 1 .. n PROVE t[i] = ArrayAsRespString(sent[i], sender)
  BY <1>1 DEF Pieces
<1> HIDE DEF t
<1>3. [i \in 1 .. n |-> ArrayAsRespString(sent[i], sender)] = [i \in 1 .. n |-> t[i]]
  BY <1>2
<1> QED
  BY <1>3 DEF SentBytes, Offset, Flat, t

-----------------------------------------------------------------------------
(* Numbers and lines *)

\* A header's number is read as what was written.
LEMMA NumberIs ==
  ASSUME NEW v \in Seq(Bytes)
  PROVE  /\ \A n \in 0 .. 9 : Len(v) = 1 /\ v[1] = Digit[n + 1] => IsInt(v) /\ Atoi(v) = n
         /\ Len(v) = 2 /\ v[1] = "-" /\ v[2] = "1" => IsInt(v) /\ Atoi(v) = -1
         /\ Len(v) = 0 \/ (Len(v) = 1 /\ v[1] = "-") => ~IsInt(v)
         /\ IsInt(v) => Atoi(v) \in -1 .. 9
<1>1. DOMAIN Digit = 1 .. 10
  BY DEF Digit
<1>2. \A d : d \in Range(Digit) <=> \E i \in 1 .. 10 : d = Digit[i]
  BY <1>1 DEF Range
<1>3. \A n \in 0 .. 9 : Decimal(n) = <<Digit[n + 1]>>
  BY DEF Decimal
<1>4. Decimal(-1) = <<"-", "1">>
  BY DEF Decimal
<1>5. ASSUME NEW n \in -1 .. 9, Decimal(n) = v PROVE Atoi(v) \in -1 .. 9 /\ Decimal(Atoi(v)) = v
  BY <1>5, Zenon DEF Atoi
<1>6. ASSUME NEW n \in 0 .. 9, Len(v) = 1, v[1] = Digit[n + 1]
      PROVE  IsInt(v) /\ Decimal(n) = v /\ Atoi(v) = n
  <2>1. n + 1 \in 1 .. 10 /\ n \in -1 .. 9
    OBVIOUS
  <2>2. v[1] \in Range(Digit)
    BY <1>2, <1>6, <2>1
  <2>3. IsInt(v)
    BY <1>6, <2>2 DEF IsInt
  <2>4. v = <<v[1]>>
    BY <1>6
  <2>5. Decimal(n) = v
    BY <1>3, <1>6, <2>4
  <2> DEFINE k == Atoi(v)
  <2>6. k \in -1 .. 9 /\ Decimal(k) = v
    BY <1>5, <2>1, <2>5
  <2> HIDE DEF k
  <2>7. k # -1
    <3>1. Len(Decimal(-1)) = 2
      BY <1>4
    <3>2. ASSUME k = -1 PROVE Len(v) = 2
      BY <2>6, <3>1, <3>2
    <3> QED
      BY <1>6, <3>2
  <2>8. k \in 0 .. 9 /\ k + 1 \in 1 .. 10
    BY <2>6, <2>7
  <2>9. v = <<Digit[k + 1]>>
    BY <1>3, <2>6, <2>8
  <2>10. Digit[k + 1] = Digit[n + 1]
    <3> DEFINE d == Digit[k + 1]
    <3>1. v = <<d>>
      BY <2>9
    <3> HIDE DEF d
    <3>2. v[1] = d
      BY <3>1
    <3> QED
      BY <1>6, <3>2 DEF d
  <2>11. k = n
    <3>1. k + 1 = n + 1
      BY <2>1, <2>8, <2>10, Characters
    <3> QED
      BY <2>8, <3>1
  <2> QED
    BY <2>3, <2>5, <2>11 DEF k
<1>7. ASSUME Len(v) = 2, v[1] = "-", v[2] = "1" PROVE IsInt(v) /\ Atoi(v) = -1
  <2>1. v = <<"-", "1">>
    BY <1>7
  <2>2. IsInt(v)
    BY <2>1 DEF IsInt
  <2> DEFINE k == Atoi(v)
  <2>3. k \in -1 .. 9 /\ Decimal(k) = v
    <3>1. -1 \in -1 .. 9 /\ Decimal(-1) = v
      BY <1>4, <2>1
    <3> QED
      BY <1>5, <3>1
  <2> HIDE DEF k
  <2>4. ASSUME k # -1 PROVE FALSE
    <3>1. k \in 0 .. 9
      BY <2>3, <2>4
    <3> DEFINE d == Digit[k + 1]
    <3>2. v = <<d>>
      BY <1>3, <2>3, <3>1
    <3> HIDE DEF d
    <3>3. Len(v) = 1
      BY <3>2
    <3> QED
      BY <1>7, <3>3
  <2> QED
    BY <2>2, <2>4 DEF k
<1>8. ASSUME Len(v) = 0 \/ (Len(v) = 1 /\ v[1] = "-") PROVE ~IsInt(v)
  <2>1. Len(<<"-", "1">>) = 2
    OBVIOUS
  <2>2. v # <<"-", "1">>
    BY <1>8, <2>1, SMTT(60)
  <2>3. "-" \notin Range(Digit)
    BY <1>2, Characters
  <2> QED
    BY <1>8, <2>2, <2>3 DEF IsInt
<1>9. ASSUME IsInt(v) PROVE Atoi(v) \in -1 .. 9
  <2>1. CASE v = <<"-", "1">>
    <3>1. -1 \in -1 .. 9 /\ Decimal(-1) = v
      BY <1>4, <2>1
    <3> QED
      BY <1>5, <3>1
  <2>2. CASE Len(v) = 1 /\ v[1] \in Range(Digit)
    <3>1. PICK i \in 1 .. 10 : v[1] = Digit[i]
      BY <1>2, <2>2
    <3>2. i - 1 \in 0 .. 9 /\ i - 1 + 1 = i
      OBVIOUS
    <3>3. Atoi(v) = i - 1
      BY <1>6, <2>2, <3>1, <3>2
    <3> QED
      BY <3>2, <3>3
  <2> QED
    BY <1>9, <2>1, <2>2 DEF IsInt
<1> QED
  BY <1>6, <1>7, <1>8, <1>9

\* The line is what is before the first line feed, with it.
LEMMA LineIs ==
  ASSUME buf \in Seq(Bytes), NEW e \in 1 .. Len(buf), buf[e] = LF,
         \A j \in 1 .. e - 1 : buf[j] # LF
  PROVE  LF \in Range(buf) /\ Line = SubSeq(buf, 1, e)
<1>1. Len(buf) \in Nat /\ DOMAIN buf = 1 .. Len(buf)
  BY LenProperties
<1>2. LF \in Range(buf)
  BY <1>1 DEF Range
<1> DEFINE I == {i \in 1 .. Len(buf) : buf[i] = LF}
           First(x) == x \in I /\ \A i \in I : x <= i
           m == CHOOSE x \in I : \A y \in I : x <= y
<1>3. SelectInSeq(buf, LAMBDA b : b = LF) = m
  <2>1. e \in I
    OBVIOUS
  <2>2. I # {}
    BY <2>1
  <2> QED
    BY <2>2 DEF SelectInSeq, Min
<1>4. First(e)
  <2>1. e \in I
    OBVIOUS
  <2>2. ASSUME NEW i \in I PROVE e <= i
    <3>1. i \in 1 .. Len(buf) /\ buf[i] = LF
      OBVIOUS
    <3>2. ~(i \in 1 .. e - 1)
      BY <3>1
    <3> QED
      BY <1>1, <3>1, <3>2
  <2> QED
    BY <2>1, <2>2
<1>5. First(m)
  <2> HIDE DEF I
  <2> QED
    BY <1>4, Zenon
<1>6. m = e
  <2>1. m \in I /\ e \in I /\ m <= e /\ e <= m
    BY <1>4, <1>5
  <2>2. m \in Nat /\ e \in Nat
    <3>1. I \subseteq Nat
      OBVIOUS
    <3> HIDE DEF I, m
    <3> QED
      BY <2>1, <3>1
  <2> HIDE DEF m, I
  <2> QED
    BY <2>1, <2>2
<1> QED
  BY <1>2, <1>3, <1>6 DEF Line

\* A sequence in two parts.
LEMMA TwoParts ==
  ASSUME NEW S, NEW s \in Seq(S), NEW n \in 0 .. Len(s)
  PROVE  /\ Len(s) \in Nat
         /\ SubSeq(s, 1, n) \in Seq(S) /\ Len(SubSeq(s, 1, n)) = n
         /\ \A i \in 1 .. n : SubSeq(s, 1, n)[i] = s[i]
         /\ SubSeq(s, n + 1, Len(s)) \in Seq(S) /\ Len(SubSeq(s, n + 1, Len(s))) = Len(s) - n
         /\ \A i \in 1 .. Len(s) - n : SubSeq(s, n + 1, Len(s))[i] = s[n + i]
<1> DEFINE l == Len(s)
<1>1. l \in Nat /\ \A i \in 1 .. l : s[i] \in S
  BY LenProperties
<1>2. /\ SubSeq(s, 1, n) \in Seq(S)
      /\ Len(SubSeq(s, 1, n)) = IF 1 <= n THEN n - 1 + 1 ELSE 0
      /\ \A i \in 1 .. n - 1 + 1 : SubSeq(s, 1, n)[i] = s[1 + i - 1]
  <2>1. 1 \in Int /\ n \in Int /\ \A i \in 1 .. n : s[i] \in S
    BY <1>1
  <2> QED
    BY <2>1, SubSeqProperties
<1>3. Len(SubSeq(s, 1, n)) = n /\ \A i \in 1 .. n : SubSeq(s, 1, n)[i] = s[i]
  <2>1. n - 1 + 1 = n /\ \A i \in 1 .. n : 1 + i - 1 = i
    BY <1>1
  <2>2. Len(SubSeq(s, 1, n)) = n
    BY <1>1, <1>2
  <2>3. ASSUME NEW i \in 1 .. n PROVE SubSeq(s, 1, n)[i] = s[i]
    <3>1. i \in 1 .. n - 1 + 1 /\ 1 + i - 1 = i
      BY <1>1
    <3> QED
      BY <1>2, <3>1
  <2> QED
    BY <2>2, <2>3
<1> DEFINE m == n + 1
<1>4. /\ SubSeq(s, m, l) \in Seq(S)
      /\ Len(SubSeq(s, m, l)) = IF m <= l THEN l - m + 1 ELSE 0
      /\ \A i \in 1 .. l - m + 1 : SubSeq(s, m, l)[i] = s[m + i - 1]
  <2>1. m \in Int /\ l \in Int /\ \A i \in m .. l : s[i] \in S
    BY <1>1
  <2> HIDE DEF l, m
  <2> QED
    BY <2>1, SubSeqProperties, SMTT(60)
<1>5. Len(SubSeq(s, m, l)) = l - n /\ \A i \in 1 .. l - n : SubSeq(s, m, l)[i] = s[n + i]
  <2>1. Len(SubSeq(s, m, l)) = l - n
    BY <1>1, <1>4
  <2>2. ASSUME NEW i \in 1 .. l - n PROVE SubSeq(s, m, l)[i] = s[n + i]
    <3>1. i \in 1 .. l - m + 1 /\ m + i - 1 = n + i
      BY <1>1
    <3> QED
      BY <1>4, <3>1
  <2> QED
    BY <2>1, <2>2
<1> QED
  BY <1>1, <1>2, <1>3, <1>4, <1>5

\* A line ends at the first line feed or, without one, with the buffer.
LEMMA LineEnds ==
  ASSUME buf \in Seq(Bytes)
  PROVE  \/ \E e \in 1 .. Len(buf) : /\ buf[e] = LF /\ (\A j \in 1 .. e - 1 : buf[j] # LF)
                                     /\ LF \in Range(buf) /\ Line = SubSeq(buf, 1, e)
         \/ /\ \A j \in 1 .. Len(buf) : buf[j] # LF
            /\ LF \notin Range(buf) /\ Line = buf
<1> DEFINE I == {i \in 1 .. Len(buf) : buf[i] = LF}
<1>1. Len(buf) \in Nat /\ DOMAIN buf = 1 .. Len(buf)
  BY LenProperties
<1>2. CASE I = {}
  <2>1. \A j \in 1 .. Len(buf) : buf[j] # LF
    BY <1>2
  <2>2. LF \notin Range(buf)
    BY <1>1, <2>1 DEF Range
  <2> QED
    BY <2>1, <2>2 DEF Line
<1>3. CASE I # {}
  <2>1. PICK e \in I : \A k \in I : e <= k
    <3>1. I \subseteq Nat
      BY <1>1
    <3> HIDE DEF I
    <3> QED
      BY <1>3, <3>1, Least
  <2>2. e \in 1 .. Len(buf) /\ buf[e] = LF
    OBVIOUS
  <2>3. ASSUME NEW j \in 1 .. e - 1 PROVE buf[j] # LF
    <3>1. j \in 1 .. Len(buf) /\ ~(e <= j)
      BY <1>1, <2>2
    <3> QED
      BY <2>1, <3>1
  <2>4. LF \in Range(buf) /\ Line = SubSeq(buf, 1, e)
    BY <2>2, <2>3, LineIs
  <2> QED
    BY <2>2, <2>3, <2>4
<1> QED
  BY <1>2, <1>3

\* A line is the beginning of the buffer, and its value the beginning of the line.
LEMMA LineOK ==
  ASSUME buf \in Seq(Bytes)
  PROVE  /\ Len(buf) \in Nat /\ Line \in Seq(Bytes) /\ Len(Line) \in 0 .. Len(buf)
         /\ Len(Line) >= 2 => /\ Value \in Seq(Bytes) /\ Len(Value) = Len(Line) - 2
                              /\ \A j \in 1 .. Len(Line) - 2 : Value[j] = buf[j]
<1>1. Len(buf) \in Nat
  BY LenProperties
<1>2. Line \in Seq(Bytes) /\ Len(Line) \in 0 .. Len(buf) /\ \A j \in 1 .. Len(Line) : Line[j] = buf[j]
  <2>1. ASSUME NEW e \in 1 .. Len(buf), Line = SubSeq(buf, 1, e)
        PROVE  Line \in Seq(Bytes) /\ Len(Line) = e /\ \A j \in 1 .. e : Line[j] = buf[j]
    <3>1. e \in 0 .. Len(buf)
      BY <1>1
    <3> QED
      BY <2>1, <3>1, TwoParts
  <2>2. CASE \E e \in 1 .. Len(buf) : Line = SubSeq(buf, 1, e)
    <3>1. PICK e \in 1 .. Len(buf) : Line = SubSeq(buf, 1, e)
      BY <2>2
    <3> QED
      BY <1>1, <2>1, <3>1
  <2>3. CASE Line = buf
    BY <1>1, <2>3
  <2> QED
    BY <2>2, <2>3, LineEnds
<1>3. ASSUME Len(Line) >= 2
      PROVE  /\ Value \in Seq(Bytes) /\ Len(Value) = Len(Line) - 2
             /\ \A j \in 1 .. Len(Line) - 2 : Value[j] = buf[j]
  <2> DEFINE n == Len(Line) - 2
  <2>1. n \in 0 .. Len(Line) /\ n \in Nat
    BY <1>1, <1>2, <1>3
  <2>2. Value = SubSeq(Line, 1, n)
    BY DEF Value
  <2> HIDE DEF n
  <2>3. SubSeq(Line, 1, n) \in Seq(Bytes) /\ Len(SubSeq(Line, 1, n)) = n
        /\ \A i \in 1 .. n : SubSeq(Line, 1, n)[i] = Line[i]
    BY <1>2, <2>1, TwoParts
  <2>4. \A j \in 1 .. n : j \in 1 .. Len(Line)
    BY <1>1, <1>2, <2>1
  <2> QED
    BY <1>2, <2>2, <2>3, <2>4 DEF n
<1> QED
  BY <1>1, <1>2, <1>3

-----------------------------------------------------------------------------
(* Types *)

Element == [type : {"$", "+", "*"}, content : Seq(Bytes)]

NetworkTypes ==
  /\ sender \in Senders /\ sent \in Seq(Commands) /\ wire \in Seq(Bytes)
  /\ closed \in BOOLEAN /\ cut \in BOOLEAN /\ reset \in {"none", "due", "returned"}

ParserTypes ==
  /\ buf \in Seq(Bytes) /\ str \in Seq(Bytes) /\ type \in LineTypes /\ need \in 0 .. 9
  /\ pc \in {"token", "line", "bytes", "crlf", "handle", "stopped"}
  /\ stack \in Seq(1 .. 9) /\ elems \in Seq(Element)

CountTypes ==
  /\ ByteCounter \in Nat /\ ProcessedBytes \in Nat /\ p \in Nat
  /\ consumed \in Nat /\ lastOk \in Nat
  /\ torn \in BOOLEAN /\ panicked \in BOOLEAN /\ parsed \in Seq(Seq(Element))

TypeInv == NetworkTypes /\ ParserTypes /\ CountTypes

\* The types that are inductive are finer than those of TypeOK.
LEMMA TypesSuffice ==
  ASSUME TypeInv
  PROVE  TypeOK
<1>1. elems \in Seq(Element) /\ \A x \in Element : x.content \in Seq(Bytes)
  BY DEF TypeInv, ParserTypes, Element
<1>2. \A i \in DOMAIN elems : elems[i].content \in Seq(Bytes)
  <2> TAKE i \in DOMAIN elems
  <2>1. elems[i] \in Element
    BY <1>1
  <2> QED
    BY <1>1, <2>1
<1> QED
  BY <1>2 DEF TypeInv, NetworkTypes, ParserTypes, CountTypes, TypeOK, Senders

\* What a call that ends a parse, or a part of one, does to the parser's state.
ParseTypes ==
  /\ pc' \in {"token", "line", "bytes", "crlf", "handle", "stopped"}
  /\ stack' \in Seq(1 .. 9) /\ elems' \in Seq(Element) /\ p' \in Nat

\* A parse that fails leaves the parser's state in its sets.
LEMMA FailsTypes ==
  ASSUME TypeInv, ParseFails
  PROVE  ParseTypes
<1>1. stack' = <<>> /\ elems' = <<>> /\ p' \in Nat
  BY DEF ParseFails, TypeInv, ParserTypes, CountTypes
<1>2. stack' \in Seq(1 .. 9) /\ elems' \in Seq(Element)
  BY <1>1, EmptySeq
<1>3. pc' \in {"token", "stopped"}
  BY DEF ParseFails
<1> QED
  BY <1>1, <1>2, <1>3 DEF ParseTypes

\* The greatest of a set of indices and 0.
LEMMA Greatest ==
  ASSUME NEW m \in Nat, NEW I, I \subseteq 1 .. m
  PROVE  LET k == Max({0} \cup I) IN k \in {0} \cup I /\ \A i \in {0} \cup I : i <= k
<1> DEFINE J == {0} \cup I
           T == {d \in 0 .. m : m - d \in J}
           Most(k) == k \in J /\ \A i \in J : i <= k
<1>1. m \in T
  OBVIOUS
<1>2. PICK d \in T : \A x \in T : d <= x
  <2>1. T \subseteq Nat
    OBVIOUS
  <2> HIDE DEF T
  <2> QED
    BY <1>1, <2>1, Least
<1>3. Most(m - d)
  <2>1. m - d \in J /\ d \in 0 .. m
    OBVIOUS
  <2>2. ASSUME NEW i \in J PROVE i <= m - d
    <3>1. m - i \in 0 .. m /\ m - (m - i) = i /\ i \in Nat
      OBVIOUS
    <3>2. m - i \in T
      BY <3>1
    <3>3. d <= m - i
      BY <1>2, <3>2
    <3> QED
      BY <2>1, <3>1, <3>3
  <2> QED
    BY <2>1, <2>2
<1>4. Max(J) = CHOOSE k \in J : \A i \in J : k >= i
  BY DEF Max
<1>5. \A k \in J : \A i \in J : k >= i <=> i <= k
  OBVIOUS
<1>6. Max(J) \in J /\ \A i \in J : Max(J) >= i
  <2>1. \E k \in J : \A i \in J : k >= i
    <3> DEFINE k == m - d
    <3>1. Most(k)
      BY <1>3
    <3> HIDE DEF k, J
    <3> QED
      BY <1>5, <3>1
  <2> HIDE DEF J
  <2> QED
    BY <1>4, <2>1, Zenon
<1> DEFINE k == Max(J)
<1>7. k \in J /\ \A i \in J : k >= i
  BY <1>6
<1>8. \A i \in J : i <= k
  <2> HIDE DEF J, k
  <2> QED
    BY <1>5, <1>7
<1> QED
  BY <1>7, <1>8

\* So does one that returns an array.
LEMMA ReturnedTypes ==
  ASSUME TypeInv, NEW array \in Seq(Element), Returned(array)
  PROVE  ParseTypes
<1>1. CASE array # <<>> /\ array[1].type = "$"
  <2>1. pc' = "handle" /\ stack' = <<>> /\ elems' = array /\ p' = p
    BY <1>1 DEF Returned
  <2>2. stack' \in Seq(1 .. 9)
    BY <2>1, EmptySeq
  <2> QED
    BY <2>1, <2>2 DEF ParseTypes, TypeInv, ParserTypes, CountTypes
<1>2. CASE ~(array # <<>> /\ array[1].type = "$")
  <2>1. ParseFails
    BY <1>2 DEF Returned
  <2> QED
    BY <2>1, FailsTypes
<1> QED
  BY <1>1, <1>2

\* So does one whose element is complete.
LEMMA CompleteTypes ==
  ASSUME TypeInv, NEW e \in Element, Complete(e)
  PROVE  ParseTypes
<1>1. CASE stack = <<>>
  <2>1. ParseFails
    BY <1>1 DEF Complete
  <2> QED
    BY <2>1, FailsTypes
<1>2. CASE stack # <<>>
  <2> DEFINE I == {i \in DOMAIN stack : stack[i] > 1}
             k == Max({0} \cup I)
             array == IF Len(stack) = 1 THEN Append(elems, e)
                      ELSE IF k <= 1 THEN Append(elems, InnerArray)
                      ELSE elems
  <2>1. stack \in Seq(1 .. 9) /\ elems \in Seq(Element) /\ p \in Nat
    BY DEF TypeInv, ParserTypes, CountTypes
  <2>2. Len(stack) \in Nat /\ DOMAIN stack = 1 .. Len(stack)
    BY <2>1, LenProperties
  <2>3. k \in {0} \cup I
    <3>1. I \subseteq 1 .. Len(stack)
      BY <2>2
    <3> HIDE DEF I
    <3> QED
      BY <2>2, <3>1, Greatest
  <2>4. InnerArray \in Element
    BY EmptySeq DEF InnerArray, Element
  <2>5. array \in Seq(Element)
    <3>1. Append(elems, e) \in Seq(Element) /\ Append(elems, InnerArray) \in Seq(Element)
      BY <2>1, <2>4, AppendProperties
    <3> QED
      BY <2>1, <3>1
  <2>6. IF k = 0 THEN Returned(array)
        ELSE /\ pc' = "token"
             /\ stack' = Append(SubSeq(stack, 1, k - 1), stack[k] - 1)
             /\ elems' = array
             /\ p' = p
    BY <1>2 DEF Complete
  <2> HIDE DEF k, array
  <2>7. CASE k = 0
    <3>1. Returned(array)
      BY <2>6, <2>7
    <3> QED
      BY <2>5, <3>1, ReturnedTypes
  <2>8. CASE k # 0
    <3>1. k \in 1 .. Len(stack) /\ stack[k] > 1 /\ stack[k] \in 1 .. 9
      BY <2>1, <2>2, <2>3, <2>8
    <3>2. k - 1 \in 0 .. Len(stack) /\ stack[k] - 1 \in 1 .. 9
      BY <2>2, <3>1
    <3>3. SubSeq(stack, 1, k - 1) \in Seq(1 .. 9)
      BY <2>1, <3>2, TwoParts
    <3>4. Append(SubSeq(stack, 1, k - 1), stack[k] - 1) \in Seq(1 .. 9)
      BY <3>2, <3>3, AppendProperties
    <3> QED
      BY <2>1, <2>5, <2>6, <2>8, <3>4 DEF ParseTypes
  <2> QED
    BY <2>7, <2>8
<1> QED
  BY <1>1, <1>2

\* Taking n bytes leaves the rest of the buffer.
LEMMA TakeTypes ==
  ASSUME TypeInv, NEW n \in 0 .. Len(buf), Take(n)
  PROVE  /\ buf' \in Seq(Bytes) /\ Len(buf) \in Nat /\ Len(buf') = Len(buf) - n
         /\ consumed' = consumed + n /\ consumed' \in Nat
         /\ \A i \in 1 .. Len(buf) - n : buf'[i] = buf[n + i]
<1>1. buf \in Seq(Bytes) /\ consumed \in Nat
  BY DEF TypeInv, ParserTypes, CountTypes
<1>2. buf' = SubSeq(buf, n + 1, Len(buf)) /\ consumed' = consumed + n
  BY DEF Take
<1>3. /\ Len(buf) \in Nat
      /\ SubSeq(buf, n + 1, Len(buf)) \in Seq(Bytes) /\ Len(SubSeq(buf, n + 1, Len(buf))) = Len(buf) - n
      /\ \A i \in 1 .. Len(buf) - n : SubSeq(buf, n + 1, Len(buf))[i] = buf[n + i]
  BY <1>1, TwoParts
<1> QED
  BY <1>1, <1>2, <1>3

\* A line is read.
LEMMA LineTypesHold ==
  ASSUME TypeInv, NEW t, LineOf(t)
  PROVE  /\ Take(Len(Line)) /\ Len(Line) \in 0 .. Len(buf) /\ Len(Line) \in Nat
         /\ buf' \in Seq(Bytes) /\ consumed' \in Nat
         /\ ByteCounter' = ByteCounter + Len(Line) /\ ByteCounter' \in Nat
         /\ Value \in Seq(Bytes) /\ (IsInt(Value) => Atoi(Value) \in -1 .. 9)
         /\ type = t /\ pc = "line"
         /\ UNCHANGED <<network, type, str, ProcessedBytes, panicked, torn, parsed, lastOk>>
<1>1. buf \in Seq(Bytes) /\ ByteCounter \in Nat
  BY DEF TypeInv, ParserTypes, CountTypes
<1>2. Len(buf) \in Nat /\ Len(Line) \in 0 .. Len(buf) /\ (Len(Line) >= 2 => Value \in Seq(Bytes))
  BY <1>1, LineOK
<1>3. /\ Take(Len(Line)) /\ ByteCounter' = ByteCounter + Len(Line) /\ Len(Line) >= 2
      /\ type = t /\ pc = "line"
      /\ UNCHANGED <<network, type, str, ProcessedBytes, panicked, torn, parsed, lastOk>>
  BY DEF LineOf, Ready
<1>4. buf' \in Seq(Bytes) /\ consumed' \in Nat
  BY <1>2, <1>3, TakeTypes
<1>5. Value \in Seq(Bytes)
  BY <1>2, <1>3
<1>6. IsInt(Value) => Atoi(Value) \in -1 .. 9
  BY <1>5, NumberIs
<1> QED
  BY <1>1, <1>2, <1>3, <1>4, <1>5, <1>6

\* Types are preserved, action by action.
LEMMA SendTypes ==
  ASSUME TypeInv, NEW c \in Commands, Send(c)
  PROVE  TypeInv'
<1>1. /\ sender \in Senders /\ sent \in Seq(Commands) /\ wire \in Seq(Bytes)
  BY DEF TypeInv, NetworkTypes
<1>2. /\ sent' = Append(sent, c) /\ wire' = wire \o ArrayAsRespString(c, sender)
      /\ UNCHANGED <<sender, closed, cut, reset, parser, loop, history>>
  BY DEF Send
<1>3. sent' \in Seq(Commands)
  BY <1>1, <1>2, AppendProperties
<1>4. wire' \in Seq(Bytes)
  <2>1. ArrayAsRespString(c, sender) \in Seq(Bytes)
    BY <1>1, PacketIs
  <2> QED
    BY <1>1, <1>2, <2>1, ConcatProperties
<1> QED
  BY <1>2, <1>3, <1>4
  DEF TypeInv, NetworkTypes, ParserTypes, CountTypes, parser, loop, history

\* Closing the connection keeps the types.
LEMMA CloseTypes ==
  ASSUME TypeInv, NEW n \in 0 .. Len(wire), Close(n)
  PROVE  TypeInv'
<1>1. wire \in Seq(Bytes)
  BY DEF TypeInv, NetworkTypes
<1>2. /\ closed' = TRUE /\ wire' = SubSeq(wire, 1, n) /\ cut' = (n < Len(wire))
      /\ reset' \in {"none", "due"}
      /\ UNCHANGED <<sender, sent, parser, loop, history>>
  BY DEF Close
<1>3. wire' \in Seq(Bytes)
  BY <1>1, <1>2, TwoParts
<1>4. cut' \in BOOLEAN /\ closed' \in BOOLEAN /\ reset' \in {"none", "due", "returned"}
  BY <1>2
<1> QED
  BY <1>2, <1>3, <1>4
  DEF TypeInv, NetworkTypes, ParserTypes, CountTypes, parser, loop, history

\* Filling the buffer keeps the types.
LEMMA FillTypes ==
  ASSUME TypeInv, NEW n \in 1 .. Len(wire), Fill(n)
  PROVE  TypeInv'
<1>1. wire \in Seq(Bytes) /\ buf \in Seq(Bytes)
  BY DEF TypeInv, NetworkTypes, ParserTypes
<1>2. /\ buf' = buf \o SubSeq(wire, 1, n) /\ wire' = SubSeq(wire, n + 1, Len(wire))
      /\ UNCHANGED <<sender, sent, closed, cut, reset, pc, type, need, str, stack, elems, ByteCounter,
                     loop, history>>
  BY DEF Fill
<1>3. n \in 0 .. Len(wire)
  BY <1>1, LenProperties
<1>4. SubSeq(wire, 1, n) \in Seq(Bytes) /\ wire' \in Seq(Bytes)
  BY <1>1, <1>2, <1>3, TwoParts
<1>5. buf' \in Seq(Bytes)
  BY <1>1, <1>2, <1>4, ConcatProperties
<1> QED
  BY <1>2, <1>4, <1>5
  DEF TypeInv, NetworkTypes, ParserTypes, CountTypes, loop, history

\* Reading the byte that tells the type keeps the types.
LEMMA NextTokenTypes ==
  ASSUME TypeInv, NextToken
  PROVE  TypeInv'
<1>1. buf \in Seq(Bytes) /\ ByteCounter \in Nat
  BY DEF TypeInv, ParserTypes, CountTypes
<1>2. /\ Take(1) /\ ByteCounter' = ByteCounter + 1 /\ buf # <<>>
      /\ UNCHANGED <<network, need, str, ProcessedBytes, panicked, torn, parsed, lastOk>>
  BY DEF NextToken
<1>3. buf' \in Seq(Bytes) /\ consumed' \in Nat /\ ByteCounter' \in Nat
  <2>1. 1 \in 0 .. Len(buf)
    BY <1>1, <1>2
  <2> QED
    BY <1>1, <1>2, <2>1, TakeTypes
<1>4. ParseTypes /\ type' \in LineTypes
  <2>1. CASE /\ buf[1] \in LineTypes
             /\ pc' = "line" /\ type' = buf[1]
             /\ UNCHANGED <<stack, elems, p>>
    BY <2>1 DEF ParseTypes, TypeInv, ParserTypes, CountTypes
  <2>2. CASE ParseFails /\ UNCHANGED type
    BY <2>2, FailsTypes DEF TypeInv, ParserTypes
  <2> QED
    BY <2>1, <2>2 DEF NextToken
<1> QED
  BY <1>2, <1>3, <1>4
  DEF TypeInv, NetworkTypes, ParserTypes, CountTypes, ParseTypes, network

\* A panic in readLine keeps the types.
LEMMA ReadLinePanicsTypes ==
  ASSUME TypeInv, ReadLinePanics
  PROVE  TypeInv'
<1>1. buf \in Seq(Bytes) /\ ByteCounter \in Nat
  BY DEF TypeInv, ParserTypes, CountTypes
<1>2. /\ Take(Len(Line)) /\ ByteCounter' = ByteCounter + Len(Line) /\ panicked' = TRUE
      /\ UNCHANGED <<network, pc, type, need, str, stack, elems, ProcessedBytes, p, torn, parsed, lastOk>>
  BY DEF ReadLinePanics
<1>3. Len(buf) \in Nat /\ Len(Line) \in 0 .. Len(buf)
  BY <1>1, LineOK
<1>4. buf' \in Seq(Bytes) /\ consumed' \in Nat /\ ByteCounter' \in Nat
  BY <1>1, <1>2, <1>3, TakeTypes
<1> QED
  BY <1>2, <1>4 DEF TypeInv, NetworkTypes, ParserTypes, CountTypes, network

\* Reading a line keeps the types, whatever Parse makes of it.
LEMMA LineStepTypes ==
  ASSUME TypeInv, ParseSimpleString \/ BulkHeader \/ ArrayHeader \/ LineFails
  PROVE  TypeInv'
<1>1. PICK t : LineOf(t)
  BY DEF ParseSimpleString, BulkHeader, ArrayHeader, LineFails
<1>2. /\ buf' \in Seq(Bytes) /\ consumed' \in Nat /\ ByteCounter' \in Nat
      /\ Value \in Seq(Bytes) /\ (IsInt(Value) => Atoi(Value) \in -1 .. 9)
      /\ UNCHANGED <<network, type, str, ProcessedBytes, panicked, torn, parsed, lastOk>>
  BY <1>1, LineTypesHold
<1>3. need \in 0 .. 9 /\ stack \in Seq(1 .. 9) /\ elems \in Seq(Element) /\ p \in Nat
  BY DEF TypeInv, ParserTypes, CountTypes
<1>4. ParseTypes /\ need' \in 0 .. 9
  <2>1. CASE ParseSimpleString
    <3>1. SimpleString(Value) \in Element
      BY <1>2 DEF SimpleString, Element
    <3> QED
      BY <1>3, <2>1, <3>1, CompleteTypes DEF ParseSimpleString
  <2>2. CASE BulkHeader
    BY <1>2, <1>3, <2>2 DEF BulkHeader, ParseTypes
  <2>3. CASE ArrayHeader
    <3>1. IsInt(Value) /\ need' = need
      BY <2>3 DEF ArrayHeader
    <3>2. CASE Atoi(Value) = 0 /\ Complete(InnerArray)
      <4>1. InnerArray \in Element
        BY EmptySeq DEF InnerArray, Element
      <4> QED
        BY <1>3, <3>1, <3>2, <4>1, CompleteTypes
    <3>3. CASE /\ Atoi(Value) > 0
               /\ stack' = Append(stack, Atoi(Value)) /\ pc' = "token"
               /\ UNCHANGED <<elems, p>>
      <4>1. Atoi(Value) \in 1 .. 9
        BY <1>2, <3>1, <3>3
      <4>2. stack' \in Seq(1 .. 9)
        BY <1>3, <3>3, <4>1, AppendProperties
      <4> QED
        BY <1>3, <3>1, <3>3, <4>2 DEF ParseTypes
    <3> QED
      BY <2>3, <3>2, <3>3 DEF ArrayHeader
  <2>4. CASE LineFails
    BY <1>3, <2>4, FailsTypes DEF LineFails
  <2> QED
    BY <2>1, <2>2, <2>3, <2>4
<1> QED
  BY <1>2, <1>4 DEF TypeInv, NetworkTypes, ParserTypes, CountTypes, ParseTypes, network

\* Reading the bytes of a bulk string, all or some, keeps the types.
LEMMA BytesTypes ==
  ASSUME TypeInv, ConsumeBytes \/ ShortRead
  PROVE  TypeInv'
<1>1. buf \in Seq(Bytes) /\ Len(buf) \in Nat /\ ByteCounter \in Nat /\ need \in 0 .. 9 /\ torn \in BOOLEAN
  BY LenProperties DEF TypeInv, ParserTypes, CountTypes
<1>2. CASE ConsumeBytes
  <2>1. /\ Len(buf) >= need /\ str' = SubSeq(buf, 1, need)
        /\ Take(need) /\ ByteCounter' = ByteCounter + need /\ pc' = "crlf"
        /\ UNCHANGED <<network, type, need, stack, elems, loop, torn, parsed, lastOk>>
    BY <1>2 DEF ConsumeBytes
  <2>2. need \in 0 .. Len(buf)
    BY <1>1, <2>1
  <2>3. str' \in Seq(Bytes) /\ buf' \in Seq(Bytes) /\ consumed' \in Nat
    BY <1>1, <2>1, <2>2, TwoParts, TakeTypes
  <2>4. ByteCounter' \in Nat
    BY <1>1, <2>1
  <2> QED
    BY <2>1, <2>3, <2>4 DEF TypeInv, NetworkTypes, ParserTypes, CountTypes, network, loop
<1>3. CASE ShortRead
  <2>1. /\ Take(Len(buf)) /\ torn' = TRUE /\ ParseFails
        /\ UNCHANGED <<network, type, need, str, ByteCounter, ProcessedBytes, panicked, parsed, lastOk>>
    BY <1>3 DEF ShortRead
  <2>2. buf' \in Seq(Bytes) /\ consumed' \in Nat
    BY <1>1, <2>1, TakeTypes
  <2>3. ParseTypes
    BY <2>1, FailsTypes
  <2> QED
    BY <2>1, <2>2, <2>3 DEF TypeInv, NetworkTypes, ParserTypes, CountTypes, ParseTypes, network
<1> QED
  BY <1>2, <1>3

\* Completing a bulk string keeps the types.
LEMMA ConsumeCrlfTypes ==
  ASSUME TypeInv, ConsumeCrlf
  PROVE  TypeInv'
<1>1. buf \in Seq(Bytes) /\ Len(buf) \in Nat /\ ByteCounter \in Nat /\ consumed \in Nat /\ str \in Seq(Bytes)
  BY LenProperties DEF TypeInv, ParserTypes, CountTypes
<1>2. /\ Complete(BulkString(str))
      /\ UNCHANGED <<network, type, need, str, ProcessedBytes, panicked, torn, parsed, lastOk>>
  BY DEF ConsumeCrlf
<1>3. ParseTypes
  <2>1. BulkString(str) \in Element
    BY <1>1 DEF BulkString, Element
  <2> QED
    BY <1>2, <2>1, CompleteTypes
<1>4. buf' \in Seq(Bytes) /\ consumed' \in Nat /\ ByteCounter' \in Nat
  <2>1. CASE Len(buf) >= 2 /\ Take(2) /\ ByteCounter' = ByteCounter + 2
    <3>1. 2 \in 0 .. Len(buf)
      BY <1>1, <2>1
    <3> QED
      BY <1>1, <2>1, <3>1, TakeTypes
  <2>2. CASE UNCHANGED <<buf, consumed, ByteCounter>>
    BY <1>1, <2>2
  <2> QED
    BY <2>1, <2>2 DEF ConsumeCrlf
<1> QED
  BY <1>2, <1>3, <1>4 DEF TypeInv, NetworkTypes, ParserTypes, CountTypes, ParseTypes, network

\* ByteCounter never falls behind the loop's copy of what was counted.
CountOrder == p = ProcessedBytes /\ ProcessedBytes <= ByteCounter

\* Handing a command over keeps the types.
LEMMA HandleTypes ==
  ASSUME TypeInv, CountOrder, Handle \/ HandleFails
  PROVE  TypeInv'
<1>1. /\ parsed \in Seq(Seq(Element)) /\ elems \in Seq(Element) /\ stack \in Seq(1 .. 9)
      /\ ByteCounter \in Nat /\ ProcessedBytes \in Nat /\ p \in Nat
  BY DEF TypeInv, ParserTypes, CountTypes
<1>2. Append(parsed, elems) \in Seq(Seq(Element)) /\ Len(Append(parsed, elems)) \in Nat
  BY <1>1, AppendProperties, LenProperties
<1>3. CASE Handle
  <2>1. /\ parsed' = Append(parsed, elems) /\ lastOk' = Len(parsed')
        /\ p' = ProcessedBytes' /\ pc' = "token" /\ elems' = <<>>
        /\ UNCHANGED <<network, buf, type, need, str, stack, ByteCounter, panicked, consumed, torn>>
    BY <1>3 DEF Handle
  <2>2. ProcessedBytes' = ProcessedBytes \/ ProcessedBytes' = ProcessedBytes + (ByteCounter - p)
    BY <1>3 DEF Handle, AppendProcessedBytes
  <2>3. ProcessedBytes' \in Nat
    BY <1>1, <2>2 DEF CountOrder
  <2>4. elems' \in Seq(Element)
    BY <2>1, EmptySeq
  <2> QED
    BY <1>2, <2>1, <2>3, <2>4 DEF TypeInv, NetworkTypes, ParserTypes, CountTypes, network
<1>4. CASE HandleFails
  <2>1. /\ parsed' = Append(parsed, elems) /\ ParseFails
        /\ UNCHANGED <<network, buf, type, need, str, ByteCounter, ProcessedBytes, panicked,
                       consumed, torn, lastOk>>
    BY <1>4 DEF HandleFails
  <2>2. ParseTypes
    BY <2>1, FailsTypes
  <2> QED
    BY <1>2, <2>1, <2>2 DEF TypeInv, NetworkTypes, ParserTypes, CountTypes, ParseTypes, network
<1> QED
  BY <1>3, <1>4

\* Every step keeps the types.
LEMMA TypeStep ==
  ASSUME TypeInv, CountOrder, [Next]_vars
  PROVE  TypeInv'
<1>1. CASE \E c \in Commands : Send(c)
  BY <1>1, SendTypes
<1>2. CASE \E n \in 0 .. Len(wire) : Close(n)
  BY <1>2, CloseTypes
<1>3. CASE \E n \in 1 .. Len(wire) : Fill(n)
  BY <1>3, FillTypes
<1>4. CASE TokenEof
  <2>1. /\ ByteCounter' = ByteCounter + 1 /\ pc' = "stopped"
        /\ UNCHANGED <<network, buf, type, need, str, stack, elems, loop, history>>
    BY <1>4 DEF TokenEof
  <2>2. ByteCounter' \in Nat
    BY <2>1 DEF TypeInv, CountTypes
  <2> QED
    BY <2>1, <2>2 DEF TypeInv, NetworkTypes, ParserTypes, CountTypes, network, loop, history
<1>5. CASE NextToken
  BY <1>5, NextTokenTypes
<1>6. CASE ReadLinePanics
  BY <1>6, ReadLinePanicsTypes
<1>7. CASE ParseSimpleString \/ BulkHeader \/ ArrayHeader \/ LineFails
  BY <1>7, LineStepTypes
<1>8. CASE ConsumeBytes \/ ShortRead
  BY <1>8, BytesTypes
<1>9. CASE ConsumeCrlf
  BY <1>9, ConsumeCrlfTypes
<1>10. CASE Handle \/ HandleFails
  BY <1>10, HandleTypes
<1>a. CASE TokenFails
  <2>1. /\ ByteCounter' = ByteCounter + 1 /\ reset' = "returned" /\ ParseFails
        /\ UNCHANGED <<sender, sent, wire, closed, cut, buf, type, need, str, ProcessedBytes,
                       panicked, history>>
    BY <1>a DEF TokenFails
  <2>2. ByteCounter' \in Nat /\ ParseTypes
    BY <2>1, FailsTypes DEF TypeInv, CountTypes
  <2> QED
    BY <2>1, <2>2 DEF TypeInv, NetworkTypes, ParserTypes, CountTypes, ParseTypes, history
<1>11. CASE UNCHANGED vars
  BY <1>11 DEF TypeInv, NetworkTypes, ParserTypes, CountTypes, vars, network, parser, loop, history
<1> QED
  BY <1>1, <1>2, <1>3, <1>4, <1>5, <1>6, <1>7, <1>8, <1>9, <1>10, <1>11, <1>a DEF Next

-----------------------------------------------------------------------------
(* What is counted *)

\* An error comes at the end of the stream, where nothing is left to parse.
ResetInv ==
  /\ reset # "none" => closed
  /\ reset = "returned" => buf = <<>> /\ wire = <<>> /\ pc \in {"token", "stopped"}

\* The bytes that were counted and are none: the error's, and the end's, which
\* stops the loop.
Late == (IF reset = "returned" THEN 1 ELSE 0) + (IF pc = "stopped" THEN 1 ELSE 0)

\* ByteCounter is exact until a bulk string is read in part, and never ahead of
\* what was read but by the end of the stream.
CountInv ==
  /\ CountOrder /\ ProcessedBytes <= consumed
  /\ ResetInv /\ ByteCounter <= consumed + (IF closed THEN Late ELSE 0)
  /\ ~torn /\ pc # "stopped" /\ reset # "returned" => ByteCounter = consumed
  /\ sender = "client" /\ torn => pc = "stopped"
  /\ lastOk <= Len(parsed)

\* The loop's copy stays what it was when a parse goes on or ends.
LEMMA CompleteCounts ==
  ASSUME CountInv, NEW e, Complete(e)
  PROVE  p' = ProcessedBytes
<1>1. ParseFails => p' = ProcessedBytes
  BY DEF ParseFails
<1>2. \A array : Returned(array) => p' = ProcessedBytes
  BY <1>1 DEF Returned, CountInv, CountOrder
<1>3. CASE stack = <<>>
  BY <1>1, <1>3 DEF Complete
<1>4. CASE stack # <<>>
  <2> DEFINE k == Max({0} \cup {i \in DOMAIN stack : stack[i] > 1})
             array == IF Len(stack) = 1 THEN Append(elems, e)
                      ELSE IF k <= 1 THEN Append(elems, InnerArray)
                      ELSE elems
  <2>1. Returned(array) \/ p' = p
    BY <1>4 DEF Complete
  <2> HIDE DEF array
  <2> QED
    BY <1>2, <2>1 DEF CountInv, CountOrder
<1> QED
  BY <1>3, <1>4

\* A call takes n bytes and counts them.
LEMMA TakeCounts ==
  ASSUME TypeInv, CountInv, Running, reset # "returned", NEW n \in 0 .. Len(buf), Take(n),
         ByteCounter' = ByteCounter + n, p' = ProcessedBytes,
         UNCHANGED <<network, ProcessedBytes, torn, parsed, lastOk>>
  PROVE  CountInv'
<1>1. /\ n \in Nat /\ consumed \in Nat /\ ByteCounter \in Nat /\ ProcessedBytes \in Nat
      /\ Len(parsed) \in Nat /\ lastOk \in Nat
  BY LenProperties DEF TypeInv, ParserTypes, CountTypes
<1>2. consumed' = consumed + n
  BY DEF Take
<1>3. /\ p = ProcessedBytes /\ ProcessedBytes <= ByteCounter /\ ProcessedBytes <= consumed
      /\ pc # "stopped" /\ ByteCounter <= consumed /\ (~torn => ByteCounter = consumed)
      /\ ~(sender = "client" /\ torn) /\ lastOk <= Len(parsed) /\ ResetInv
  BY <1>1 DEF CountInv, CountOrder, Running, Late
<1>4. /\ sender' = sender /\ reset' = reset /\ closed' = closed
      /\ ResetInv' /\ (IF closed THEN Late ELSE 0)' >= 0
  BY <1>3 DEF network, ResetInv, Late
<1>5. ByteCounter' <= consumed' /\ (~torn => ByteCounter' = consumed')
  BY <1>1, <1>2, <1>3
<1>6. ByteCounter' <= consumed' + (IF closed THEN Late ELSE 0)'
  <2> DEFINE l == (IF closed THEN Late ELSE 0)'
  <2>1. l \in Nat
    BY DEF Late
  <2> HIDE DEF l
  <2> QED
    BY <1>1, <1>2, <1>5, <2>1 DEF l
<1> QED
  BY <1>1, <1>2, <1>3, <1>4, <1>5, <1>6 DEF CountInv, CountOrder

\* At the end of a stream nothing is in the buffer or on the wire.
LEMMA TokenAtEnd ==
  ASSUME Ready("token"), buf = <<>>
  PROVE  Running /\ pc = "token" /\ Eof /\ closed /\ wire = <<>>
BY DEF Ready, NeedsMore, Eof

\* Every step keeps the counts right.
LEMMA CountStep ==
  ASSUME TypeInv, CountInv, [Next]_vars
  PROVE  CountInv'
<1>1. /\ consumed \in Nat /\ ByteCounter \in Nat /\ ProcessedBytes \in Nat
      /\ parsed \in Seq(Seq(Element)) /\ elems \in Seq(Element) /\ Len(parsed) \in Nat /\ lastOk \in Nat
      /\ buf \in Seq(Bytes) /\ Len(buf) \in Nat /\ need \in 0 .. 9
  BY LenProperties DEF TypeInv, ParserTypes, CountTypes
\* Where there is something to parse, the counts are exact.
<1>a. ASSUME Running, buf # <<>> \/ pc # "token"
      PROVE  /\ reset # "returned" /\ pc # "stopped" /\ ByteCounter <= consumed
             /\ ~torn => ByteCounter = consumed
  BY <1>1, <1>a DEF CountInv, ResetInv, Late, Running
\* The network counts nothing.
<1>2. CASE \/ \E c \in Commands : Send(c)
           \/ \E n \in 0 .. Len(wire) : Close(n)
           \/ \E n \in 1 .. Len(wire) : Fill(n)
           \/ UNCHANGED vars
  <2>1. UNCHANGED <<sender, ProcessedBytes, ByteCounter, p, consumed, pc, torn, parsed, lastOk>>
    BY <1>2 DEF Send, Close, Fill, vars, network, parser, loop, history
  <2>2. ResetInv' /\ (reset' = "returned" <=> reset = "returned") /\ (closed => closed')
    <3>1. CASE \E c \in Commands : Send(c)
      BY <3>1 DEF Send, parser, CountInv, ResetInv
    <3>2. CASE \E n \in 0 .. Len(wire) : Close(n)
      BY <3>2 DEF Close, parser, CountInv, ResetInv
    <3>3. ASSUME NEW n \in 1 .. Len(wire), Fill(n)
          PROVE  ResetInv' /\ reset' = reset /\ closed' = closed
      <4>1. wire # <<>>
        <5>1. wire = <<>> => Len(wire) = 0
          OBVIOUS
        <5> QED
          BY <5>1
      <4> QED
        BY <3>3, <4>1 DEF Fill, CountInv, ResetInv
    <3>4. CASE UNCHANGED vars
      BY <3>4 DEF vars, network, parser, CountInv, ResetInv
    <3> QED
      BY <1>2, <3>1, <3>2, <3>3, <3>4
  <2>3. ByteCounter' <= consumed' + (IF closed THEN Late ELSE 0)'
    <3>1. Late' = Late
      BY <2>1, <2>2 DEF Late
    <3>2. Late \in Nat
      BY DEF Late
    <3>3. ByteCounter <= consumed + (IF closed THEN Late ELSE 0)
      BY DEF CountInv
    <3> HIDE DEF Late
    <3> QED
      BY <1>1, <2>1, <2>2, <3>1, <3>2, <3>3
  <2> QED
    BY <2>1, <2>2, <2>3 DEF CountInv, CountOrder
\* The end of the stream counts one byte too many, and an error before it another.
<1>3. CASE TokenEof
  <2>1. /\ Running /\ ByteCounter' = ByteCounter + 1 /\ pc' = "stopped"
        /\ UNCHANGED <<network, ProcessedBytes, p, consumed, torn, parsed, lastOk, buf>>
        /\ closed
    BY <1>3, TokenAtEnd DEF TokenEof, loop, history
  <2>2. pc # "stopped"
    BY <2>1 DEF Running
  <2>3. Late' = Late + 1 /\ Late \in Nat /\ closed' /\ sender' = sender
    BY <2>1, <2>2 DEF Late, network
  <2>4. ResetInv' /\ reset' = reset
    BY <2>1 DEF CountInv, ResetInv, network
  <2>5. ByteCounter' <= consumed' + Late'
    <3>1. ByteCounter <= consumed + Late
      BY <2>1 DEF CountInv
    <3> HIDE DEF Late
    <3> QED
      BY <1>1, <2>1, <2>3, <3>1
  <2> HIDE DEF Late
  <2> QED
    BY <1>1, <2>1, <2>3, <2>4, <2>5 DEF CountInv, CountOrder
<1>b. CASE TokenFails
  <2>1. /\ Running /\ ByteCounter' = ByteCounter + 1 /\ p' = ProcessedBytes
        /\ pc' \in {"token", "stopped"} /\ (sender = "client" => pc' = "stopped")
        /\ reset = "due" /\ reset' = "returned"
        /\ UNCHANGED <<sender, wire, closed, ProcessedBytes, consumed, torn, parsed, lastOk, buf>>
        /\ buf = <<>> /\ wire = <<>> /\ closed
    BY <1>b, TokenAtEnd DEF TokenFails, ParseFails, history
  <2>2. ByteCounter <= consumed
    BY <1>1, <2>1 DEF CountInv, Running, Late
  <2>3. ResetInv' /\ Late' \in {1, 2}
    BY <2>1 DEF ResetInv, Late
  <2>4. ByteCounter' <= consumed' + Late'
    <3>1. /\ ByteCounter \in Nat /\ consumed \in Nat
          /\ ByteCounter' = ByteCounter + 1 /\ consumed' = consumed
      BY <1>1, <2>1
    <3> DEFINE l == Late'
    <3>2. l >= 1 /\ l \in Nat
      BY <2>3
    <3> HIDE DEF l
    <3>3. ByteCounter' <= consumed' + l
      BY <2>2, <3>1, <3>2
    <3> QED
      BY <3>3 DEF l
  <2>5. CountOrder' /\ (ProcessedBytes <= consumed)'
    BY <1>1, <2>1 DEF CountInv, CountOrder
  <2>6. (sender = "client" /\ torn => pc = "stopped")' /\ (lastOk <= Len(parsed))'
    BY <2>1 DEF CountInv
  <2>7. closed' /\ reset' = "returned"
    BY <2>1
  <2> HIDE DEF Late
  <2> QED
    BY <2>3, <2>4, <2>5, <2>6, <2>7 DEF CountInv
<1>4. CASE NextToken
  <2>1. /\ Running /\ Take(1) /\ ByteCounter' = ByteCounter + 1 /\ buf # <<>>
        /\ UNCHANGED <<network, ProcessedBytes, torn, parsed, lastOk>>
    BY <1>4 DEF NextToken, Ready
  <2>2. p' = ProcessedBytes
    BY <1>4 DEF NextToken, ParseFails, CountInv, CountOrder
  <2>3. 1 \in 0 .. Len(buf)
    BY <1>1, <2>1
  <2> QED
    BY <1>a, <2>1, <2>2, <2>3, TakeCounts
<1>5. CASE ReadLinePanics
  <2>1. /\ Running /\ pc = "line" /\ Take(Len(Line)) /\ ByteCounter' = ByteCounter + Len(Line)
        /\ UNCHANGED <<network, ProcessedBytes, p, torn, parsed, lastOk>>
    BY <1>5 DEF ReadLinePanics, Ready
  <2>2. p' = ProcessedBytes /\ Len(Line) \in 0 .. Len(buf)
    BY <1>1, <2>1, LineOK DEF CountInv, CountOrder
  <2> QED
    BY <1>a, <2>1, <2>2, TakeCounts
<1>6. CASE ParseSimpleString \/ BulkHeader \/ ArrayHeader \/ LineFails
  <2>1. PICK t : LineOf(t)
    BY <1>6 DEF ParseSimpleString, BulkHeader, ArrayHeader, LineFails
  <2>2. /\ Running /\ pc = "line" /\ Take(Len(Line)) /\ Len(Line) \in 0 .. Len(buf)
        /\ ByteCounter' = ByteCounter + Len(Line)
        /\ UNCHANGED <<network, ProcessedBytes, torn, parsed, lastOk>>
    BY <2>1, LineTypesHold DEF LineOf, Ready
  <2>3. p' = ProcessedBytes
    BY <1>6, CompleteCounts
    DEF ParseSimpleString, BulkHeader, ArrayHeader, LineFails, ParseFails, CountInv, CountOrder
  <2> QED
    BY <1>a, <2>2, <2>3, TakeCounts
<1>7. CASE ConsumeBytes
  <2>1. /\ Running /\ pc = "bytes" /\ Len(buf) >= need /\ Take(need) /\ ByteCounter' = ByteCounter + need
        /\ UNCHANGED <<network, ProcessedBytes, p, torn, parsed, lastOk>>
    BY <1>7 DEF ConsumeBytes, Ready, loop
  <2>2. p' = ProcessedBytes /\ need \in 0 .. Len(buf)
    BY <1>1, <2>1 DEF CountInv, CountOrder
  <2> QED
    BY <1>a, <2>1, <2>2, TakeCounts
<1>8. CASE ShortRead
  <2>1. /\ Running /\ pc = "bytes" /\ consumed' = consumed + Len(buf) /\ torn' = TRUE
        /\ pc' = (IF sender = "client" THEN "stopped" ELSE "token") /\ p' = ProcessedBytes
        /\ UNCHANGED <<network, ByteCounter, ProcessedBytes, parsed, lastOk>>
    BY <1>8 DEF ShortRead, Ready, Take, ParseFails
  <2>2. ByteCounter <= consumed /\ reset # "returned"
    BY <1>a, <2>1
  <2>3. UNCHANGED <<sender, reset, closed>> /\ ResetInv' /\ Late' \in Nat
    BY <2>1, <2>2 DEF network, CountInv, ResetInv, Late
  <2>4. ByteCounter' <= consumed' + (IF closed THEN Late ELSE 0)'
    <3> HIDE DEF Late
    <3> QED
      BY <1>1, <2>1, <2>2, <2>3
  <2> HIDE DEF Late
  <2> QED
    BY <1>1, <2>1, <2>2, <2>3, <2>4 DEF CountInv, CountOrder
<1>9. CASE ConsumeCrlf
  <2>1. Running /\ pc = "crlf" /\ UNCHANGED <<network, ProcessedBytes, torn, parsed, lastOk>>
    BY <1>9 DEF ConsumeCrlf, Ready
  <2>2. p' = ProcessedBytes
    BY <1>9, CompleteCounts DEF ConsumeCrlf
  <2>3. CASE Len(buf) >= 2 /\ Take(2) /\ ByteCounter' = ByteCounter + 2
    <3>1. 2 \in 0 .. Len(buf)
      BY <1>1, <2>3
    <3> QED
      BY <1>a, <2>1, <2>2, <2>3, <3>1, TakeCounts
  <2>4. CASE UNCHANGED <<buf, consumed, ByteCounter>>
    <3>1. 0 \in 0 .. Len(buf) /\ Take(0) /\ ByteCounter' = ByteCounter + 0
      BY <1>1, <2>4, TwoParts DEF Take
    <3> QED
      BY <1>a, <2>1, <2>2, <3>1, TakeCounts
  <2> QED
    BY <1>9, <2>3, <2>4 DEF ConsumeCrlf
<1>10. CASE Handle \/ HandleFails
  <2>1. /\ parsed' = Append(parsed, elems) /\ Len(Append(parsed, elems)) = Len(parsed) + 1
        /\ Running /\ pc = "handle" /\ UNCHANGED <<network, ByteCounter, consumed, torn>>
    BY <1>1, <1>10, AppendProperties DEF Handle, HandleFails
  <2>2. /\ ByteCounter <= consumed /\ ~(sender = "client" /\ torn) /\ p = ProcessedBytes
        /\ (~torn => ByteCounter = consumed) /\ ProcessedBytes <= ByteCounter
    BY <1>1, <1>a, <2>1 DEF CountInv, CountOrder, Running
  <2>5. reset # "returned" /\ UNCHANGED <<sender, reset, closed>> /\ ResetInv' /\ Late' \in Nat
    BY <1>a, <2>1 DEF network, CountInv, ResetInv, Late
  <2>6. ByteCounter' <= consumed' + (IF closed THEN Late ELSE 0)'
    <3>1. /\ ByteCounter \in Nat /\ consumed \in Nat
          /\ ByteCounter' = ByteCounter /\ consumed' = consumed
      BY <1>1, <2>1
    <3> DEFINE l == (IF closed THEN Late ELSE 0)'
    <3>2. l \in Nat
      BY <2>5
    <3>3. ByteCounter <= consumed
      BY <2>2
    <3> HIDE DEF l
    <3>4. ByteCounter' <= consumed' + l
      BY <3>1, <3>2, <3>3
    <3> QED
      BY <3>4 DEF l
  <2>7. Len(parsed') = Len(parsed) + 1 /\ torn' = torn /\ ByteCounter' = ByteCounter /\ consumed' = consumed
    BY <2>1
  <2> HIDE DEF Late
  <2>3. CASE Handle
    <3>1. lastOk' = Len(parsed') /\ p' = ProcessedBytes' /\ pc' = "token"
      BY <2>3 DEF Handle
    <3>2. ProcessedBytes' = ProcessedBytes \/ ProcessedBytes' = ByteCounter
      BY <1>1, <2>2, <2>3 DEF Handle, AppendProcessedBytes
    <3> QED
      <4>1. CountOrder' /\ (ProcessedBytes <= consumed)' /\ (lastOk <= Len(parsed))'
        BY <1>1, <2>2, <2>7, <3>1, <3>2 DEF CountInv, CountOrder
      <4> QED
        BY <2>2, <2>5, <2>6, <2>7, <4>1 DEF CountInv
  <2>4. CASE HandleFails
    <3>1. UNCHANGED <<ProcessedBytes, lastOk>> /\ p' = ProcessedBytes
      BY <2>4 DEF HandleFails, ParseFails
    <3> QED
      <4>1. CountOrder' /\ (ProcessedBytes <= consumed)' /\ (lastOk <= Len(parsed))'
        BY <1>1, <2>2, <2>7, <3>1 DEF CountInv, CountOrder
      <4> QED
        BY <2>2, <2>5, <2>6, <2>7, <4>1 DEF CountInv
  <2> QED
    BY <1>10, <2>3, <2>4
<1> QED
  BY <1>2, <1>3, <1>4, <1>5, <1>6, <1>7, <1>8, <1>9, <1>10, <1>b DEF Next

-----------------------------------------------------------------------------
(* What the buffer and the wire hold *)

Stream == StreamOf(sender, sent)

\* The buffer and the wire are what the stream holds after what was taken, all
\* of it unless its end was lost.
StreamInv ==
  /\ consumed + Len(buf) + Len(wire) <= Len(Stream)
  /\ cut => closed
  /\ ~cut => consumed + Len(buf) + Len(wire) = Len(Stream)
  /\ \A j \in 1 .. Len(buf) : buf[j] = Stream[consumed + j]
  /\ \A j \in 1 .. Len(wire) : wire[j] = Stream[consumed + Len(buf) + j]

\* A command that is written is at the end of the stream and of the wire.
LEMMA SendStream ==
  ASSUME TypeInv, StreamInv, NEW c \in Commands, Send(c)
  PROVE  StreamInv'
<1> DEFINE b == ArrayAsRespString(c, sender)
           S == Stream
           T == StreamOf(sender, Append(sent, c))
           q == consumed + Len(buf)
<1>1. /\ sender \in Senders /\ sent \in Seq(Commands) /\ wire \in Seq(Bytes) /\ buf \in Seq(Bytes)
      /\ consumed \in Nat /\ Len(buf) \in Nat /\ Len(wire) \in Nat
  BY LenProperties DEF TypeInv, NetworkTypes, ParserTypes, CountTypes
<1>2. /\ ~closed /\ sent' = Append(sent, c) /\ wire' = wire \o b
      /\ sender' = sender /\ closed' = closed /\ cut' = cut /\ buf' = buf /\ consumed' = consumed
  BY DEF Send, parser, history
<1>3. Stream' = T
  BY <1>2 DEF Stream
<1>4. /\ Len(T) = Len(S) + Len(b)
      /\ \A j \in 1 .. Len(S) : T[j] = S[j]
      /\ \A j \in 1 .. Len(b) : T[Len(S) + j] = b[j]
  BY <1>1, Extends DEF Stream
<1>5. S \in Seq(Bytes) /\ Len(S) \in Nat /\ b \in Seq(Bytes) /\ Len(b) \in Nat
  BY <1>1, Framing, PacketIs DEF Stream
<1>6. /\ ~cut /\ q + Len(wire) = Len(S) /\ q \in Nat
      /\ \A j \in 1 .. Len(buf) : buf[j] = S[consumed + j]
      /\ \A j \in 1 .. Len(wire) : wire[j] = S[q + j]
  BY <1>1, <1>2 DEF StreamInv
<1> HIDE DEF b, S, T, q
<1>a. /\ Len(S) \in Nat /\ Len(b) \in Nat /\ Len(wire) \in Nat /\ Len(T) = Len(S) + Len(b)
      /\ q + Len(wire) = Len(S) /\ q \in Nat
  BY <1>1, <1>4, <1>5, <1>6
<1>7. /\ Len(wire \o b) = Len(wire) + Len(b)
      /\ \A j \in 1 .. Len(wire) + Len(b) :
           (wire \o b)[j] = IF j <= Len(wire) THEN wire[j] ELSE b[j - Len(wire)]
  BY <1>1, <1>5, ConcatProperties
<1>8. ASSUME NEW j \in 1 .. Len(wire) + Len(b) PROVE (wire \o b)[j] = T[q + j]
  <2>1. CASE j <= Len(wire)
    <3>1. j \in 1 .. Len(wire) /\ q + j \in 1 .. Len(S)
      BY <1>a, <2>1
    <3> QED
      BY <1>4, <1>6, <1>7, <2>1, <3>1
  <2>2. CASE ~(j <= Len(wire))
    <3>1. j - Len(wire) \in 1 .. Len(b) /\ Len(S) + (j - Len(wire)) = q + j
      BY <1>a, <2>2
    <3> QED
      BY <1>4, <1>7, <2>2, <3>1
  <2> QED
    BY <2>1, <2>2
<1>9. ASSUME NEW j \in 1 .. Len(buf) PROVE buf[j] = T[consumed + j]
  <2>1. consumed + j \in 1 .. Len(S)
    BY <1>1, <1>a DEF q
  <2> QED
    BY <1>4, <1>6, <2>1
<1>10. consumed + Len(buf) + (Len(wire) + Len(b)) = Len(T)
  <2>1. q + (Len(wire) + Len(b)) = Len(T)
    BY <1>a
  <2> QED
    BY <2>1 DEF q
<1> QED
  BY <1>2, <1>3, <1>6, <1>7, <1>8, <1>9, <1>10 DEF StreamInv, q

\* Closing the connection cuts the stream's end off the wire.
LEMMA CloseStream ==
  ASSUME TypeInv, StreamInv, NEW n \in 0 .. Len(wire), Close(n)
  PROVE  StreamInv'
<1>1. /\ wire \in Seq(Bytes) /\ buf \in Seq(Bytes) /\ sender \in Senders /\ sent \in Seq(Commands)
      /\ consumed \in Nat /\ Len(buf) \in Nat /\ Len(wire) \in Nat
  BY LenProperties DEF TypeInv, NetworkTypes, ParserTypes, CountTypes
<1>2. /\ ~closed /\ closed' = TRUE /\ wire' = SubSeq(wire, 1, n) /\ cut' = (n < Len(wire))
      /\ sender' = sender /\ sent' = sent /\ buf' = buf /\ consumed' = consumed
  BY DEF Close, parser, history
<1>3. Stream' = Stream
  BY <1>2 DEF Stream
<1>4. Len(wire') = n /\ \A j \in 1 .. n : wire'[j] = wire[j]
  BY <1>1, <1>2, TwoParts
<1>5. Len(Stream) \in Nat
  BY <1>1, Framing DEF Stream
<1>6. /\ consumed + Len(buf) + Len(wire) = Len(Stream)
      /\ \A j \in 1 .. Len(buf) : buf[j] = Stream[consumed + j]
      /\ \A j \in 1 .. Len(wire) : wire[j] = Stream[consumed + Len(buf) + j]
  BY <1>2 DEF StreamInv
<1>7. /\ consumed + Len(buf) + n <= Len(Stream)
      /\ ~cut' => consumed + Len(buf) + n = Len(Stream)
  <2>1. /\ consumed \in Nat /\ Len(buf) \in Nat /\ Len(wire) \in Nat /\ Len(Stream) \in Nat
        /\ consumed + Len(buf) + Len(wire) = Len(Stream)
    BY <1>1, <1>5, <1>6
  <2>2. n <= Len(wire) /\ n \in Nat /\ (~cut' => n = Len(wire))
    <3>1. cut' <=> n < Len(wire)
      BY <1>2, Zenon
    <3> QED
      BY <1>1, <3>1
  <2> QED
    BY <2>1, <2>2
<1>8. \A j \in 1 .. n : wire'[j] = Stream[consumed + Len(buf) + j]
  BY <1>1, <1>4, <1>6, SMTT(60)
<1> QED
  BY <1>2, <1>3, <1>4, <1>6, <1>7, <1>8 DEF StreamInv

\* Filling the buffer moves bytes from the wire to the buffer.
LEMMA FillStream ==
  ASSUME TypeInv, StreamInv, NEW n \in 1 .. Len(wire), Fill(n)
  PROVE  StreamInv'
<1>1. /\ wire \in Seq(Bytes) /\ buf \in Seq(Bytes) /\ sender \in Senders /\ sent \in Seq(Commands)
      /\ consumed \in Nat /\ Len(buf) \in Nat /\ Len(wire) \in Nat
  BY LenProperties DEF TypeInv, NetworkTypes, ParserTypes, CountTypes
<1> DEFINE a == SubSeq(wire, 1, n)
<1>2. /\ buf' = buf \o a /\ wire' = SubSeq(wire, n + 1, Len(wire))
      /\ sender' = sender /\ sent' = sent /\ closed' = closed /\ cut' = cut /\ consumed' = consumed
  BY DEF Fill, history
<1>3. Stream' = Stream
  BY <1>2 DEF Stream
<1>4. /\ a \in Seq(Bytes) /\ Len(a) = n /\ \A i \in 1 .. n : a[i] = wire[i]
      /\ Len(wire') = Len(wire) - n /\ \A i \in 1 .. Len(wire) - n : wire'[i] = wire[n + i]
  <2>1. n \in 0 .. Len(wire)
    BY <1>1
  <2> QED
    BY <1>1, <1>2, <2>1, TwoParts
<1> HIDE DEF a
<1>5. /\ Len(buf \o a) = Len(buf) + Len(a)
      /\ \A i \in 1 .. Len(buf) + Len(a) :
           (buf \o a)[i] = IF i <= Len(buf) THEN buf[i] ELSE a[i - Len(buf)]
  BY <1>1, <1>4, ConcatProperties, ZenonT(60)
<1>6. Len(Stream) \in Nat
  BY <1>1, Framing DEF Stream
<1>7. /\ \A j \in 1 .. Len(buf) : buf[j] = Stream[consumed + j]
      /\ \A j \in 1 .. Len(wire) : wire[j] = Stream[consumed + Len(buf) + j]
  BY DEF StreamInv
<1>8. Len(buf') = Len(buf) + n /\ Len(buf') + Len(wire') = Len(buf) + Len(wire) /\ Len(buf') \in Nat
  <2>1. Len(buf') = Len(buf) + n
    BY <1>2, <1>4, <1>5
  <2>2. Len(wire') = Len(wire) - n
    BY <1>4
  <2> QED
    BY <1>1, <2>1, <2>2
<1>9. ASSUME NEW j \in 1 .. Len(buf') PROVE buf'[j] = Stream[consumed + j]
  <2>1. CASE j <= Len(buf)
    <3>1. j \in 1 .. Len(buf) /\ j \in 1 .. Len(buf) + Len(a)
      BY <1>1, <1>4, <1>8, <2>1
    <3> QED
      BY <1>2, <1>5, <1>7, <2>1, <3>1
  <2>2. CASE ~(j <= Len(buf))
    <3>1. /\ j - Len(buf) \in 1 .. n /\ j - Len(buf) \in 1 .. Len(wire) /\ j \in 1 .. Len(buf) + Len(a)
          /\ consumed + Len(buf) + (j - Len(buf)) = consumed + j
      BY <1>1, <1>4, <1>8, <2>2
    <3>2. buf'[j] = a[j - Len(buf)]
      BY <1>2, <1>5, <2>2, <3>1
    <3>3. a[j - Len(buf)] = wire[j - Len(buf)]
      BY <1>4, <3>1
    <3> QED
      BY <1>7, <3>1, <3>2, <3>3
  <2> QED
    BY <2>1, <2>2
<1>10. ASSUME NEW j \in 1 .. Len(wire') PROVE wire'[j] = Stream[consumed + Len(buf') + j]
  <2>1. /\ j \in 1 .. Len(wire) - n /\ n + j \in 1 .. Len(wire)
        /\ consumed + Len(buf) + (n + j) = consumed + Len(buf') + j
    BY <1>1, <1>4, <1>8
  <2> QED
    BY <1>4, <1>7, <2>1
<1>11. consumed + Len(buf') + Len(wire') = consumed + Len(buf) + Len(wire)
  BY <1>1, <1>4, <1>8
<1> QED
  BY <1>2, <1>3, <1>9, <1>10, <1>11 DEF StreamInv

\* Taking bytes moves the place in the stream.
LEMMA TakeStream ==
  ASSUME TypeInv, StreamInv, NEW n \in 0 .. Len(buf), Take(n), UNCHANGED network
  PROVE  StreamInv'
<1>1. /\ wire \in Seq(Bytes) /\ sender \in Senders /\ sent \in Seq(Commands)
      /\ consumed \in Nat /\ Len(wire) \in Nat
  BY LenProperties DEF TypeInv, NetworkTypes, CountTypes
<1>2. /\ Len(buf) \in Nat /\ Len(buf') = Len(buf) - n /\ consumed' = consumed + n
      /\ \A i \in 1 .. Len(buf) - n : buf'[i] = buf[n + i]
  BY TakeTypes
<1>3. Stream' = Stream /\ wire' = wire /\ closed' = closed /\ cut' = cut
  BY DEF Stream, network
<1>4. /\ \A j \in 1 .. Len(buf) : buf[j] = Stream[consumed + j]
      /\ \A j \in 1 .. Len(wire) : wire[j] = Stream[consumed + Len(buf) + j]
  BY DEF StreamInv
<1>5. consumed' + Len(buf') = consumed + Len(buf)
  BY <1>1, <1>2
<1>6. ASSUME NEW j \in 1 .. Len(buf') PROVE buf'[j] = Stream[consumed' + j]
  <2>1. /\ j \in 1 .. Len(buf) - n /\ n + j \in 1 .. Len(buf) /\ consumed + (n + j) = consumed' + j
    BY <1>1, <1>2
  <2> QED
    BY <1>2, <1>4, <2>1
<1> QED
  BY <1>3, <1>4, <1>5, <1>6 DEF StreamInv

\* Every step keeps the buffer and the wire a part of the stream.
LEMMA StreamStep ==
  ASSUME TypeInv, StreamInv, [Next]_vars
  PROVE  StreamInv'
<1>1. buf \in Seq(Bytes) /\ Len(buf) \in Nat /\ need \in 0 .. 9
  BY LenProperties DEF TypeInv, ParserTypes
<1>2. CASE \E c \in Commands : Send(c)
  BY <1>2, SendStream
<1>3. CASE \E n \in 0 .. Len(wire) : Close(n)
  BY <1>3, CloseStream
<1>4. CASE \E n \in 1 .. Len(wire) : Fill(n)
  BY <1>4, FillStream
\* The parser takes some bytes, or none.
<1>5. ASSUME UNCHANGED <<network, buf, consumed>> PROVE StreamInv'
  BY <1>5 DEF StreamInv, Stream, network
<1>6. CASE TokenEof \/ Handle \/ HandleFails \/ UNCHANGED vars
  BY <1>5, <1>6 DEF TokenEof, Handle, HandleFails, vars, history, parser
<1>7. CASE NextToken
  <2>1. Take(1) /\ buf # <<>> /\ UNCHANGED network
    BY <1>7 DEF NextToken
  <2>2. 1 \in 0 .. Len(buf)
    BY <1>1, <2>1
  <2> QED
    BY <2>1, <2>2, TakeStream
<1>8. CASE ReadLinePanics
  <2>1. Take(Len(Line)) /\ Len(Line) \in 0 .. Len(buf) /\ UNCHANGED network
    BY <1>1, <1>8, LineOK DEF ReadLinePanics
  <2> QED
    BY <2>1, TakeStream
<1>9. CASE ParseSimpleString \/ BulkHeader \/ ArrayHeader \/ LineFails
  <2>1. PICK t : LineOf(t)
    BY <1>9 DEF ParseSimpleString, BulkHeader, ArrayHeader, LineFails
  <2>2. Take(Len(Line)) /\ Len(Line) \in 0 .. Len(buf) /\ UNCHANGED network
    BY <2>1, LineTypesHold
  <2> QED
    BY <2>2, TakeStream
<1>10. CASE ConsumeBytes
  <2>1. Take(need) /\ need \in 0 .. Len(buf) /\ UNCHANGED network
    BY <1>1, <1>10 DEF ConsumeBytes
  <2> QED
    BY <2>1, TakeStream
<1>11. CASE ShortRead
  <2>1. Take(Len(buf)) /\ Len(buf) \in 0 .. Len(buf) /\ UNCHANGED network
    BY <1>1, <1>11 DEF ShortRead
  <2> QED
    BY <2>1, TakeStream
<1>a. CASE TokenFails
  BY <1>a DEF TokenFails, history, StreamInv, Stream
<1>12. CASE ConsumeCrlf
  <2>1. CASE Len(buf) >= 2 /\ Take(2) /\ UNCHANGED network
    <3>1. 2 \in 0 .. Len(buf)
      BY <1>1, <2>1
    <3> QED
      BY <2>1, <3>1, TakeStream
  <2>2. CASE UNCHANGED <<network, buf, consumed>>
    BY <1>5, <2>2
  <2> QED
    BY <1>12, <2>1, <2>2 DEF ConsumeCrlf
<1> QED
  BY <1>2, <1>3, <1>4, <1>6, <1>7, <1>8, <1>9, <1>10, <1>11, <1>12, <1>a DEF Next

-----------------------------------------------------------------------------
(* Where the parser is *)

Current == sent[Len(parsed) + 1]
Start(n) == Offset(sender, sent, n)
Item(k) == ItemAt(sender, sent, Len(parsed), k)

\* The stream has lost its end and the buffer holds no more of a command than the
\* first byte of a line end.
Ended == cut /\ wire = <<>> /\ (buf = <<>> \/ buf = <<CR>>)

\* Between two commands, in the header of one, in its payloads, at the end of it,
\* or at the end of a stream that ends inside it.
Between == pc = "token" /\ stack = <<>> /\ elems = <<>> /\ consumed = Start(Len(parsed))

InHeader ==
  /\ pc = "line" /\ type = "*" /\ stack = <<>> /\ elems = <<>>
  /\ Len(parsed) < Len(sent) /\ consumed = Start(Len(parsed)) + 1

\* After k payloads: at the next one, at its length, at its bytes, after them.
AtItem(k) == pc = "token" /\ consumed = Item(k)
AtLength(k) == pc = "line" /\ type = "$" /\ consumed = Item(k) + 1
AtBytes(k) ==
  /\ pc = "bytes" /\ need = Len(Current[k + 1]) /\ ~Null(sender, Current[k + 1])
  /\ consumed = Item(k) + 4
AtCrlf(k) ==
  /\ pc = "crlf" /\ str = Current[k + 1] /\ ~Null(sender, Current[k + 1])
  /\ consumed = Item(k) + 4 + Len(Current[k + 1])

After(k) ==
  /\ Len(parsed) < Len(sent) /\ k < Len(Current)
  /\ stack = <<Len(Current) - k>>
  /\ Len(elems) = k /\ \A i \in 1 .. k : elems[i] = BulkString(Current[i])

InArray == \E k \in 0 .. 8 : After(k) /\ (AtItem(k) \/ AtLength(k) \/ AtBytes(k) \/ AtCrlf(k))

Whole ==
  /\ pc = "handle" /\ stack = <<>> /\ Len(parsed) < Len(sent) /\ elems = Elements(Current)
  /\ Ended \/ consumed = Start(Len(parsed) + 1)

Lost == pc = "token" /\ Ended

PlaceInv ==
  torn \/ panicked \/ pc = "stopped" \/ Between \/ InHeader \/ InArray \/ Whole \/ Lost

\* What was parsed is the beginning of what was sent.
Parsed ==
  /\ Len(parsed) <= Len(sent)
  /\ \A i \in 1 .. Len(parsed) : parsed[i] = Elements(sent[i])

PrefixInv == sender = "client" \/ ~torn => Parsed

\* The command that is parsed is in the stream.
LEMMA CurrentIs ==
  ASSUME TypeInv
  PROVE  /\ Len(parsed) \in Nat /\ Len(sent) \in Nat /\ consumed \in Nat
         /\ Len(buf) \in Nat /\ Len(wire) \in Nat
         /\ Stream \in Seq(Bytes) /\ Len(Stream) \in Nat /\ Start(Len(sent)) = Len(Stream)
         /\ Start(0) = 0
         /\ \A n \in 0 .. Len(sent) : Start(n) \in Nat
         /\ Len(parsed) < Len(sent) =>
              /\ Current \in Commands /\ Len(Current) \in 1 .. 9 /\ Current \in Seq(Seq(Bytes))
              /\ \A k \in 0 .. Len(Current) - 1 :
                   Current[k + 1] \in Seq(Bytes) /\ Len(Current[k + 1]) \in 0 .. 9
              /\ CommandAt(Stream, sender, sent, Len(parsed))
<1> DEFINE n == Len(parsed)
<1>1. /\ sender \in Senders /\ sent \in Seq(Commands) /\ wire \in Seq(Bytes) /\ buf \in Seq(Bytes)
      /\ consumed \in Nat /\ n \in Nat /\ Len(sent) \in Nat /\ Len(buf) \in Nat /\ Len(wire) \in Nat
  BY LenProperties DEF TypeInv, NetworkTypes, ParserTypes, CountTypes
<1>2. /\ Stream \in Seq(Bytes) /\ Len(Stream) \in Nat
      /\ Start(0) = 0 /\ Start(Len(sent)) = Len(Stream)
      /\ \A i \in 0 .. Len(sent) : Start(i) \in Nat
      /\ \A i \in 0 .. Len(sent) - 1 : CommandAt(Stream, sender, sent, i)
  BY <1>1, Framing DEF Stream, Start
<1> HIDE DEF n
<1>3. ASSUME n < Len(sent)
      PROVE  /\ Current \in Commands /\ Len(Current) \in 1 .. 9 /\ Current \in Seq(Seq(Bytes))
             /\ \A k \in 0 .. Len(Current) - 1 :
                  Current[k + 1] \in Seq(Bytes) /\ Len(Current[k + 1]) \in 0 .. 9
             /\ CommandAt(Stream, sender, sent, n)
  <2>1. n \in 0 .. Len(sent) - 1 /\ n + 1 \in 1 .. Len(sent)
    BY <1>1, <1>3
  <2>2. Current \in Commands
    BY <1>1, <2>1 DEF Current, n
  <2>3. CommandAt(Stream, sender, sent, n)
    BY <1>2, <2>1
  <2>4. /\ Len(Current) \in 1 .. 9 /\ Current \in Seq(Seq(Bytes))
        /\ \A i \in DOMAIN Current : Len(Current[i]) \in 0 .. 9
    BY <2>2, WireConstants
  <2>5. ASSUME NEW k \in 0 .. Len(Current) - 1
        PROVE  Current[k + 1] \in Seq(Bytes) /\ Len(Current[k + 1]) \in 0 .. 9
    <3>1. k + 1 \in 1 .. Len(Current) /\ k + 1 \in DOMAIN Current
      BY <2>4
    <3> QED
      BY <2>4, <3>1
  <2> QED
    BY <2>2, <2>3, <2>4, <2>5
<1> QED
  BY <1>1, <1>2, <1>3 DEF n

\* Its header and its payloads.
LEMMA HeaderBytes ==
  ASSUME TypeInv, Len(parsed) < Len(sent)
  PROVE  LET q == Start(Len(parsed)) IN
         /\ q \in Nat /\ q + 4 <= Len(Stream) /\ Item(0) = q + 4
         /\ Item(Len(Current)) = Start(Len(parsed) + 1)
         /\ Stream[q + 1] = "*" /\ Stream[q + 2] = Digit[Len(Current) + 1]
         /\ Stream[q + 3] = CR /\ Stream[q + 4] = LF
  BY CurrentIs DEF CommandAt, Current, Start, Item

\* What is written for the kth payload is at its place.
LEMMA ItemBytes ==
  ASSUME TypeInv, Len(parsed) < Len(sent), NEW k \in 0 .. Len(Current) - 1
  PROVE  BulkAt(Stream, sender, Item(k), Current[k + 1], Item(k + 1))
<1>1. CommandAt(Stream, sender, sent, Len(parsed))
  BY CurrentIs
<1>2. \A i \in 0 .. Len(Current) - 1 :
        BulkAt(Stream, sender, Item(i), Current[i + 1], Item(i + 1))
  BY <1>1 DEF CommandAt, Current, Item
<1> QED
  BY <1>2

\* The line of a header, read whole or cut off by the end of the stream.
CutOff ==
  /\ cut /\ closed /\ wire = <<>> /\ Len(Line) = Len(buf)
  /\ Len(Line) >= 2 => ~IsInt(Value)

\* A header's line without its line feed is cut off by the end of the stream.
LEMMA LineCutOff ==
  ASSUME TypeInv, StreamInv, Ready("line"), NEW e \in 3 .. 4, Len(buf) < e,
         consumed + e <= Len(Stream), \A j \in 1 .. Len(buf) : buf[j] # LF,
         Len(buf) = 3 => buf[1] = "-"
  PROVE  CutOff
<1>1. buf \in Seq(Bytes) /\ Len(buf) \in Nat /\ Len(wire) \in Nat /\ consumed \in Nat /\ Len(Stream) \in Nat
  BY CurrentIs DEF TypeInv, ParserTypes
<1>2. LF \notin Range(buf) /\ Line = buf
  <2>1. ~ \E x \in 1 .. Len(buf) : buf[x] = LF
    OBVIOUS
  <2> QED
    BY <1>1, <2>1, LineEnds
<1>3. closed /\ wire = <<>>
  BY <1>2 DEF Ready, NeedsMore, Eof
<1>4. cut
  <2>1. ~cut => consumed + Len(buf) + Len(wire) = Len(Stream)
    BY DEF StreamInv
  <2>2. Len(wire) = 0
    BY <1>3
  <2> QED
    BY <1>1, <2>1, <2>2
<1>5. ASSUME Len(Line) >= 2 PROVE ~IsInt(Value)
  <2>1. /\ Value \in Seq(Bytes) /\ Len(Value) = Len(Line) - 2
        /\ \A j \in 1 .. Len(Line) - 2 : Value[j] = buf[j]
    BY <1>1, <1>5, LineOK
  <2>2. Len(Line) = Len(buf)
    BY <1>2
  <2>3. Len(Value) = 0 \/ Len(Value) = 1
    BY <1>1, <1>5, <2>1, <2>2, SMTT(60)
  <2>4. ASSUME Len(Value) = 1 PROVE Len(buf) = 3 /\ Value[1] = buf[1]
    <3>1. Len(buf) - 2 = 1
      BY <2>1, <2>2, <2>4
    <3>2. Len(buf) = 3
      BY <1>1, <3>1
    <3>3. 1 \in 1 .. Len(Line) - 2
      BY <2>2, <3>2
    <3> QED
      BY <2>1, <3>2, <3>3
  <2> QED
    BY <2>1, <2>3, <2>4, NumberIs
<1> QED
  BY <1>2, <1>3, <1>4, <1>5 DEF CutOff

\* The line of a length is the number that was written, or is cut off.
LEMMA NumberRead ==
  ASSUME TypeInv, StreamInv, Ready("line"), NEW n \in 0 .. 9, consumed + 3 <= Len(Stream),
         Stream[consumed + 1] = Digit[n + 1], Stream[consumed + 2] = CR, Stream[consumed + 3] = LF
  PROVE  \/ Len(Line) = 3 /\ IsInt(Value) /\ Atoi(Value) = n
         \/ CutOff
<1>1. buf \in Seq(Bytes) /\ Len(buf) \in Nat /\ consumed \in Nat
  BY CurrentIs DEF TypeInv, ParserTypes
<1>2. \A j \in 1 .. Len(buf) : buf[j] = Stream[consumed + j]
  BY DEF StreamInv
<1>3. n + 1 \in 1 .. 10
  OBVIOUS
<1>4. Digit[n + 1] # LF /\ CR # LF
  BY <1>3, Characters
<1>5. CASE Len(buf) >= 3
  <2>1. 1 \in 1 .. Len(buf) /\ 2 \in 1 .. Len(buf) /\ 3 \in 1 .. Len(buf)
    BY <1>1, <1>5
  <2>2. buf[1] = Digit[n + 1] /\ buf[2] = CR /\ buf[3] = LF
    BY <1>2, <2>1
  <2>3. \A j \in 1 .. 3 - 1 : buf[j] # LF
    <3>1. \A j \in 1 .. 3 - 1 : j = 1 \/ j = 2
      OBVIOUS
    <3> QED
      BY <1>4, <2>2, <3>1
  <2>4. Line = SubSeq(buf, 1, 3)
    BY <1>1, <2>1, <2>2, <2>3, LineIs
  <2>5. Len(Line) = 3
    <3>1. 3 \in 0 .. Len(buf)
      BY <1>1, <1>5
    <3> QED
      BY <1>1, <2>4, <3>1, TwoParts
  <2>6. Value \in Seq(Bytes) /\ Len(Value) = 1 /\ Value[1] = buf[1]
    <3>1. /\ Value \in Seq(Bytes) /\ Len(Value) = Len(Line) - 2
          /\ \A j \in 1 .. Len(Line) - 2 : Value[j] = buf[j]
      BY <1>1, <2>5, LineOK
    <3>2. 1 \in 1 .. Len(Line) - 2
      BY <2>5
    <3> QED
      BY <2>5, <3>1, <3>2
  <2>7. IsInt(Value) /\ Atoi(Value) = n
    BY <2>2, <2>6, NumberIs
  <2> QED
    BY <2>5, <2>7
<1>6. CASE Len(buf) < 3
  <2>1. \A j \in 1 .. Len(buf) : buf[j] # LF
    <3> TAKE j \in 1 .. Len(buf)
    <3>1. j = 1 \/ j = 2
      BY <1>1, <1>6
    <3> QED
      BY <1>2, <1>4, <3>1
  <2>2. Len(buf) # 3 /\ 3 \in 3 .. 4
    BY <1>6, SMTT(60)
  <2> QED
    BY <1>6, <2>1, <2>2, LineCutOff
<1> QED
  BY <1>1, <1>5, <1>6

\* The line of the null string is its length of -1, or is cut off.
LEMMA NullRead ==
  ASSUME TypeInv, StreamInv, Ready("line"), consumed + 4 <= Len(Stream),
         Stream[consumed + 1] = "-", Stream[consumed + 2] = "1",
         Stream[consumed + 3] = CR, Stream[consumed + 4] = LF
  PROVE  \/ IsInt(Value) /\ Atoi(Value) = -1
         \/ CutOff
<1>1. buf \in Seq(Bytes) /\ Len(buf) \in Nat /\ consumed \in Nat
  BY CurrentIs DEF TypeInv, ParserTypes
<1>2. \A j \in 1 .. Len(buf) : buf[j] = Stream[consumed + j]
  BY DEF StreamInv
<1>4. "-" # LF /\ "1" # LF /\ CR # LF
  BY DEF LF, CR
<1>5. CASE Len(buf) >= 4
  <2>1. 1 \in 1 .. Len(buf) /\ 2 \in 1 .. Len(buf) /\ 3 \in 1 .. Len(buf) /\ 4 \in 1 .. Len(buf)
    BY <1>1, <1>5
  <2>2. buf[1] = "-" /\ buf[2] = "1" /\ buf[3] = CR /\ buf[4] = LF
    BY <1>2, <2>1
  <2>3. \A j \in 1 .. 4 - 1 : buf[j] # LF
    <3>1. \A j \in 1 .. 4 - 1 : j = 1 \/ j = 2 \/ j = 3
      OBVIOUS
    <3> QED
      BY <1>4, <2>2, <3>1
  <2>4. Line = SubSeq(buf, 1, 4)
    BY <1>1, <2>1, <2>2, <2>3, LineIs
  <2>5. Len(Line) = 4
    <3>1. 4 \in 0 .. Len(buf)
      BY <1>1, <1>5
    <3> QED
      BY <1>1, <2>4, <3>1, TwoParts
  <2>6. Value \in Seq(Bytes) /\ Len(Value) = 2 /\ Value[1] = buf[1] /\ Value[2] = buf[2]
    <3>1. /\ Value \in Seq(Bytes) /\ Len(Value) = Len(Line) - 2
          /\ \A j \in 1 .. Len(Line) - 2 : Value[j] = buf[j]
      BY <1>1, <2>5, LineOK
    <3>2. 1 \in 1 .. Len(Line) - 2 /\ 2 \in 1 .. Len(Line) - 2
      BY <2>5
    <3> QED
      BY <2>5, <3>1, <3>2
  <2> QED
    BY <2>2, <2>6, NumberIs
<1>6. CASE Len(buf) < 4
  <2>1. \A j \in 1 .. Len(buf) : buf[j] # LF
    <3> TAKE j \in 1 .. Len(buf)
    <3>1. j = 1 \/ j = 2 \/ j = 3
      BY <1>1, <1>6
    <3> QED
      BY <1>2, <1>4, <3>1
  <2>2. Len(buf) = 3 => buf[1] = "-"
    <3>1. Len(buf) = 3 => 1 \in 1 .. Len(buf)
      OBVIOUS
    <3> QED
      BY <1>2, <3>1
  <2>3. 4 \in 3 .. 4
    OBVIOUS
  <2> QED
    BY <1>6, <2>1, <2>2, <2>3, LineCutOff
<1> QED
  BY <1>1, <1>5, <1>6

-----------------------------------------------------------------------------
(* The parser keeps its place *)

\* What the other side and the network do leaves it where it is.
LEMMA PlaceKept ==
  ASSUME PlaceInv, UNCHANGED <<sender, pc, type, need, str, stack, elems, consumed, parsed, torn, panicked>>,
         ~torn => Start(Len(parsed))' = Start(Len(parsed)),
         ~torn /\ Len(parsed) < Len(sent) =>
           /\ Len(parsed) < Len(sent') /\ Current' = Current
           /\ \A k : Item(k)' = Item(k)
           /\ Start(Len(parsed) + 1)' = Start(Len(parsed) + 1),
         Ended => Ended'
  PROVE  PlaceInv'
<1>1. SUFFICES ASSUME ~torn PROVE PlaceInv'
  BY DEF PlaceInv
<1>2. CASE panicked \/ pc = "stopped"
  BY <1>2 DEF PlaceInv
<1>3. CASE Between
  <2>1. Between'
    BY <1>1, <1>3 DEF Between
  <2> QED
    BY <2>1 DEF PlaceInv
<1>4. CASE InHeader
  <2>1. InHeader'
    BY <1>1, <1>4 DEF InHeader
  <2> QED
    BY <2>1 DEF PlaceInv
<1>5. CASE InArray
  <2>1. PICK k \in 0 .. 8 : After(k) /\ (AtItem(k) \/ AtLength(k) \/ AtBytes(k) \/ AtCrlf(k))
    BY <1>5 DEF InArray
  <2>2. /\ Len(parsed) < Len(sent) /\ Len(parsed) < Len(sent') /\ Current' = Current
        /\ Item(k)' = Item(k)
    BY <1>1, <2>1 DEF After
  <2>3. After(k)'
    BY <2>1, <2>2 DEF After
  <2>4. (AtItem(k) \/ AtLength(k) \/ AtBytes(k) \/ AtCrlf(k))'
    BY <2>1, <2>2 DEF AtItem, AtLength, AtBytes, AtCrlf
  <2>5. InArray'
    BY <2>3, <2>4 DEF InArray
  <2> QED
    BY <2>5 DEF PlaceInv
<1>6. CASE Whole
  <2>1. Whole'
    BY <1>1, <1>6 DEF Whole
  <2> QED
    BY <2>1 DEF PlaceInv
<1>7. CASE Lost
  <2>1. Lost'
    BY <1>7 DEF Lost
  <2> QED
    BY <2>1 DEF PlaceInv
<1> QED
  BY <1>1, <1>2, <1>3, <1>4, <1>5, <1>6, <1>7 DEF PlaceInv

\* One more command on the wire leaves the parser where it is.
LEMMA SendPlace ==
  ASSUME TypeInv, StreamInv, CountInv, PlaceInv, PrefixInv, NEW c \in Commands, Send(c)
  PROVE  PlaceInv'
<1> DEFINE n == Len(parsed)
<1>1. /\ sender \in Senders /\ sent \in Seq(Commands) /\ n \in Nat /\ Len(sent) \in Nat
  BY CurrentIs DEF TypeInv, NetworkTypes
<1>2. /\ ~closed /\ sent' = Append(sent, c)
      /\ UNCHANGED <<sender, pc, type, need, str, stack, elems, consumed, parsed, torn, panicked>>
  BY DEF Send, parser, loop, history
<1>3. /\ Len(Append(sent, c)) = Len(sent) + 1
      /\ \A i \in 0 .. Len(sent) : Offset(sender, Append(sent, c), i) = Offset(sender, sent, i)
      /\ \A i \in 0 .. Len(sent) - 1 :
           /\ Append(sent, c)[i + 1] = sent[i + 1]
           /\ \A k : ItemAt(sender, Append(sent, c), i, k) = ItemAt(sender, sent, i, k)
  BY <1>1, Extends
<1>4. ~torn => n \in 0 .. Len(sent)
  BY <1>1 DEF PrefixInv, Parsed
<1>5. ~torn => Start(n)' = Start(n)
  BY <1>2, <1>3, <1>4 DEF Start
<1>6. ASSUME n < Len(sent)
      PROVE  /\ n < Len(sent') /\ Current' = Current
             /\ \A k : Item(k)' = Item(k)
             /\ Start(n + 1)' = Start(n + 1)
  <2>1. n \in 0 .. Len(sent) - 1 /\ n + 1 \in 0 .. Len(sent)
    BY <1>1, <1>6
  <2>2. n < Len(sent')
    BY <1>1, <1>2, <1>3, <1>6
  <2>3. Current' = Current
    BY <1>2, <1>3, <2>1 DEF Current
  <2>4. \A k : Item(k)' = Item(k)
    <3>1. \A k : ItemAt(sender, Append(sent, c), n, k) = ItemAt(sender, sent, n, k)
      BY <1>3, <2>1
    <3> QED
      BY <1>2, <3>1 DEF Item
  <2>5. Start(n + 1)' = Start(n + 1)
    BY <1>2, <1>3, <2>1 DEF Start
  <2> QED
    BY <2>2, <2>3, <2>4, <2>5
<1>7. ~Ended
  BY <1>2 DEF Ended, StreamInv
<1> QED
  BY <1>2, <1>5, <1>6, <1>7, PlaceKept

\* What the network does leaves the parser where it is.
LEMMA NetworkPlace ==
  ASSUME TypeInv, StreamInv, PlaceInv,
         \/ \E n \in 0 .. Len(wire) : Close(n)
         \/ \E n \in 1 .. Len(wire) : Fill(n)
         \/ UNCHANGED vars
  PROVE  PlaceInv'
<1>1. UNCHANGED <<sender, sent, pc, type, need, str, stack, elems, consumed, parsed, torn, panicked>>
  BY DEF Close, Fill, vars, network, parser, loop, history
<1>2. /\ Start(Len(parsed))' = Start(Len(parsed)) /\ Start(Len(parsed) + 1)' = Start(Len(parsed) + 1)
      /\ Current' = Current /\ \A k : Item(k)' = Item(k)
  BY <1>1 DEF Start, Current, Item
<1>3. Len(parsed) < Len(sent) => Len(parsed) < Len(sent')
  BY <1>1
<1>4. Ended => Ended'
  <2>1. ASSUME Ended, NEW n \in 1 .. Len(wire) PROVE FALSE
    <3>1. Len(wire) = 0
      BY <2>1 DEF Ended
    <3> QED
      BY <3>1
  <2>2. ASSUME Ended, NEW n, Close(n) PROVE FALSE
    BY <2>2 DEF Ended, Close, StreamInv
  <2>3. UNCHANGED vars => (Ended => Ended')
    BY DEF Ended, vars, network, parser
  <2> QED
    BY <2>1, <2>2, <2>3
<1> QED
  BY <1>1, <1>2, <1>3, <1>4, PlaceKept

\* A parse that fails where the stream has lost its end.
LEMMA LostPlace ==
  ASSUME ParseFails, Ended'
  PROVE  PlaceInv'
BY DEF ParseFails, PlaceInv, Lost

\* An error at the end of the stream ends no parse but one that has lost the end.
LEMMA TokenFailsPlace ==
  ASSUME TypeInv, StreamInv, PlaceInv, ~torn, TokenFails
  PROVE  PlaceInv'
<1>1. /\ pc = "token" /\ ~panicked /\ buf = <<>> /\ wire = <<>> /\ ParseFails
      /\ UNCHANGED <<sender, sent, wire, closed, cut, buf, consumed, parsed>>
  BY TokenAtEnd DEF TokenFails, Running, history
<1>2. Ended => Ended'
  BY <1>1 DEF Ended
<1>3. CASE Between
  <2>1. Start(Len(parsed))' = Start(Len(parsed))
    BY <1>1 DEF Start
  <2>2. pc' = "stopped" \/ (pc' = "token" /\ stack' = <<>> /\ elems' = <<>>)
    BY <1>1 DEF ParseFails
  <2> QED
    BY <1>1, <1>3, <2>1, <2>2 DEF Between, PlaceInv
<1>4. CASE InArray
  <2>1. PICK k \in 0 .. 8 : After(k) /\ AtItem(k)
    BY <1>1, <1>4 DEF InArray, AtLength, AtBytes, AtCrlf
  <2>2. Len(parsed) < Len(sent) /\ k < Len(Current) /\ consumed = Item(k)
    BY <2>1 DEF After, AtItem
  <2>3. k \in 0 .. Len(Current) - 1 /\ consumed \in Nat /\ Len(Stream) \in Nat
    BY <2>2, CurrentIs
  <2>4. consumed + 1 <= Len(Stream)
    <3> DEFINE s == Current[k + 1]
               e == Item(k + 1)
    <3>1. BulkAt(Stream, sender, consumed, s, e) /\ Len(s) \in Nat
      BY <2>2, <2>3, ItemBytes, CurrentIs
    <3> HIDE DEF s, e
    <3>2. e = consumed + 5 \/ e = consumed + 6 + Len(s)
      BY <3>1, Zenon DEF BulkAt
    <3>3. e \in Nat /\ e <= Len(Stream)
      BY <3>1 DEF BulkAt
    <3> QED
      BY <2>3, <3>1, <3>2, <3>3
  <2>5. cut
    <3>1. ~cut => consumed + Len(buf) + Len(wire) = Len(Stream)
      BY DEF StreamInv
    <3>2. Len(buf) = 0 /\ Len(wire) = 0
      BY <1>1
    <3> QED
      BY <2>3, <2>4, <3>1, <3>2
  <2>6. Ended
    BY <1>1, <2>5 DEF Ended
  <2> QED
    BY <1>1, <1>2, <2>6, LostPlace
<1>5. CASE Lost
  BY <1>1, <1>2, <1>5, LostPlace DEF Lost
<1> QED
  BY <1>1, <1>3, <1>4, <1>5 DEF PlaceInv, InHeader, Whole

\* The byte that tells the type.
LEMMA NextTokenPlace ==
  ASSUME TypeInv, StreamInv, PlaceInv, PrefixInv, ~torn, NextToken
  PROVE  PlaceInv'
<1> DEFINE n == Len(parsed)
<1>1. /\ pc = "token" /\ ~panicked /\ buf # <<>> /\ Take(1)
      /\ UNCHANGED <<network, need, str, panicked, torn, parsed>>
  BY DEF NextToken, Ready, Running
<1>2. /\ n \in Nat /\ Len(sent) \in Nat /\ consumed \in Nat /\ Len(buf) \in Nat /\ Len(wire) \in Nat
      /\ Len(Stream) \in Nat /\ Start(Len(sent)) = Len(Stream)
  BY CurrentIs
<1>3. buf \in Seq(Bytes) /\ buf # <<>> /\ Len(buf) >= 1
  BY <1>1, <1>2 DEF TypeInv, ParserTypes
<1>4. 1 \in 1 .. Len(buf) /\ 1 \in 0 .. Len(buf)
  BY <1>2, <1>3
<1>5. consumed' = consumed + 1 /\ Len(buf') = Len(buf) - 1 /\ buf' \in Seq(Bytes)
  BY <1>1, <1>4, TakeTypes
<1>6. buf[1] = Stream[consumed + 1] /\ consumed + Len(buf) + Len(wire) <= Len(Stream)
  BY <1>4 DEF StreamInv
<1>7. /\ \A i : Start(i)' = Start(i) /\ \A k : Item(k)' = Item(k)
      /\ Current' = Current
  BY <1>1 DEF Start, Current, Item, network
<1>8. \/ /\ buf[1] \in LineTypes
         /\ pc' = "line" /\ type' = buf[1]
         /\ UNCHANGED <<stack, elems, p>>
      \/ /\ buf[1] \notin LineTypes
         /\ ParseFails /\ UNCHANGED type
  BY DEF NextToken
<1>9. CASE Between
  <2>1. consumed = Start(n) /\ stack = <<>> /\ elems = <<>>
    BY <1>9 DEF Between
  <2>2. n < Len(sent)
    <3>1. n <= Len(sent)
      BY DEF PrefixInv, Parsed
    <3>2. n # Len(sent)
      <4>1. ASSUME n = Len(sent) PROVE FALSE
        <5>1. consumed = Len(Stream)
          BY <1>2, <2>1, <4>1
        <5> QED
          BY <1>2, <1>3, <1>6, <5>1
      <4> QED
        BY <4>1
    <3> QED
      BY <1>2, <3>1, <3>2
  <2>3. buf[1] = "*"
    BY <1>6, <2>1, <2>2, HeaderBytes
  <2>4. pc' = "line" /\ type' = "*" /\ UNCHANGED <<stack, elems>>
    <3>1. "*" \in LineTypes
      BY DEF LineTypes
    <3> QED
      BY <1>8, <2>3, <3>1
  <2>5. InHeader'
    BY <1>1, <1>5, <1>7, <2>1, <2>2, <2>4 DEF InHeader, network
  <2> QED
    BY <2>5 DEF PlaceInv
<1>10. CASE InArray
  <2>1. PICK k \in 0 .. 8 : After(k) /\ AtItem(k)
    BY <1>1, <1>10 DEF InArray, AtLength, AtBytes, AtCrlf
  <2>2. n < Len(sent) /\ k < Len(Current) /\ consumed = Item(k)
    BY <2>1 DEF After, AtItem
  <2>3. k \in 0 .. Len(Current) - 1
    BY <2>2, CurrentIs
  <2>4. buf[1] = "$"
    BY <1>6, <2>2, <2>3, ItemBytes DEF BulkAt
  <2>5. pc' = "line" /\ type' = "$" /\ UNCHANGED <<stack, elems>>
    <3>1. "$" \in LineTypes
      BY DEF LineTypes
    <3> QED
      BY <1>8, <2>4, <3>1
  <2>6. After(k)'
    BY <1>1, <1>7, <2>1, <2>5 DEF After, network
  <2>7. AtLength(k)'
    BY <1>5, <1>7, <2>2, <2>5 DEF AtLength
  <2>8. InArray'
    BY <2>6, <2>7 DEF InArray
  <2> QED
    BY <2>8 DEF PlaceInv
<1>11. CASE Lost
  <2>1. cut /\ wire = <<>> /\ buf = <<CR>>
    BY <1>1, <1>11 DEF Lost, Ended
  <2>2. buf[1] = CR /\ Len(buf) = 1
    BY <2>1
  <2>3. buf' = <<>>
    BY <1>5, <2>2, EmptySeq
  <2>4. Ended'
    BY <1>1, <2>1, <2>3 DEF Ended, network
  <2>5. ParseFails
    BY <1>8, <2>2, Characters
  <2> QED
    BY <2>4, <2>5, LostPlace
<1> QED
  BY <1>1, <1>9, <1>10, <1>11 DEF PlaceInv, InHeader, Whole

\* In the line of the array's header.
LEMMA LineInHeader ==
  ASSUME TypeInv, StreamInv, InHeader, Ready("line")
  PROVE  \/ Len(Line) = 3 /\ IsInt(Value) /\ Atoi(Value) = Len(Current)
         \/ CutOff
<1> DEFINE q == Start(Len(parsed))
           x == Len(Current)
<1>1. Len(parsed) < Len(sent) /\ consumed = q + 1
  BY DEF InHeader
<1>2. /\ q \in Nat /\ q + 4 <= Len(Stream) /\ Stream[q + 2] = Digit[x + 1]
      /\ Stream[q + 3] = CR /\ Stream[q + 4] = LF
  BY <1>1, HeaderBytes
<1>3. x \in 0 .. 9 /\ Len(Stream) \in Nat
  BY <1>1, CurrentIs
<1> HIDE DEF q, x
<1>4. consumed + 1 = q + 2 /\ consumed + 2 = q + 3 /\ consumed + 3 = q + 4
  BY <1>1, <1>2
<1>5. /\ consumed + 3 <= Len(Stream) /\ Stream[consumed + 1] = Digit[x + 1]
      /\ Stream[consumed + 2] = CR /\ Stream[consumed + 3] = LF
  BY <1>2, <1>4
<1>6. \/ Len(Line) = 3 /\ IsInt(Value) /\ Atoi(Value) = x
      \/ CutOff
  BY <1>3, <1>5, NumberRead
<1> QED
  BY <1>6 DEF x

\* In the line of a payload's length.
LEMMA LineInItem ==
  ASSUME TypeInv, StreamInv, NEW k \in 0 .. 8, After(k), AtLength(k), Ready("line")
  PROVE  \/ CutOff
         \/ Null(sender, Current[k + 1]) /\ IsInt(Value) /\ Atoi(Value) = -1
         \/ /\ ~Null(sender, Current[k + 1])
            /\ Len(Line) = 3 /\ IsInt(Value) /\ Atoi(Value) = Len(Current[k + 1])
<1> DEFINE q == Item(k)
           e == Item(k + 1)
           s == Current[k + 1]
           x == Len(s)
<1>1. Len(parsed) < Len(sent) /\ k < Len(Current) /\ consumed = q + 1
  BY DEF After, AtLength
<1>2. k \in 0 .. Len(Current) - 1
  BY <1>1, CurrentIs
<1>3. BulkAt(Stream, sender, q, s, e)
  BY <1>1, <1>2, ItemBytes
<1>4. x \in 0 .. 9 /\ Len(Stream) \in Nat
  BY <1>1, <1>2, CurrentIs
<1> HIDE DEF q, e, s, x
<1>5. q \in Nat /\ e \in Nat /\ e <= Len(Stream)
  BY <1>3 DEF BulkAt
<1>6. consumed + 1 = q + 2 /\ consumed + 2 = q + 3 /\ consumed + 3 = q + 4 /\ consumed + 4 = q + 5
  BY <1>1, <1>5
<1>7. CASE Null(sender, s)
  <2>1. /\ e = q + 5
        /\ Stream[q + 2] = "-" /\ Stream[q + 3] = "1" /\ Stream[q + 4] = CR /\ Stream[q + 5] = LF
    BY <1>3, <1>7, Zenon DEF BulkAt
  <2>2. /\ consumed + 4 <= Len(Stream) /\ Stream[consumed + 1] = "-" /\ Stream[consumed + 2] = "1"
        /\ Stream[consumed + 3] = CR /\ Stream[consumed + 4] = LF
    BY <1>5, <1>6, <2>1
  <2>3. (IsInt(Value) /\ Atoi(Value) = -1) \/ CutOff
    BY <2>2, NullRead
  <2> QED
    BY <1>7, <2>3 DEF s
<1>8. CASE ~Null(sender, s)
  <2>1. /\ e = q + 6 + x
        /\ Stream[q + 2] = Digit[x + 1] /\ Stream[q + 3] = CR /\ Stream[q + 4] = LF
    BY <1>3, <1>8, Zenon DEF BulkAt, x
  <2>2. consumed + 3 <= Len(Stream)
    BY <1>4, <1>5, <1>6, <2>1
  <2>3. Stream[consumed + 1] = Digit[x + 1] /\ Stream[consumed + 2] = CR /\ Stream[consumed + 3] = LF
    BY <1>6, <2>1
  <2>4. (Len(Line) = 3 /\ IsInt(Value) /\ Atoi(Value) = x) \/ CutOff
    BY <1>4, <2>2, <2>3, NumberRead
  <2> QED
    BY <1>8, <2>4 DEF s, x
<1> QED
  BY <1>7, <1>8

\* A parser at a line is in a command's header or in a payload's.
LEMMA AtLine ==
  ASSUME PlaceInv, ~torn, ~panicked, pc = "line"
  PROVE  InHeader \/ \E k \in 0 .. 8 : After(k) /\ AtLength(k)
BY DEF PlaceInv, Between, Whole, Lost, InArray, AtItem, AtBytes, AtCrlf

\* A line takes the parser to its next place.
LEMMA LinePlace ==
  ASSUME TypeInv, StreamInv, PlaceInv, ~torn,
         ParseSimpleString \/ BulkHeader \/ ArrayHeader \/ LineFails
  PROVE  PlaceInv'
<1>1. PICK t : LineOf(t)
  BY DEF ParseSimpleString, BulkHeader, ArrayHeader, LineFails
<1>2. /\ pc = "line" /\ ~panicked /\ type = t /\ Ready("line") /\ Len(Line) >= 2
      /\ Take(Len(Line)) /\ Len(Line) \in 0 .. Len(buf)
      /\ UNCHANGED <<network, type, str, panicked, torn, parsed>>
  BY <1>1, LineTypesHold DEF LineOf, Ready, Running
<1>3. /\ Len(buf') = Len(buf) - Len(Line) /\ buf' \in Seq(Bytes) /\ Len(buf) \in Nat
      /\ consumed' = consumed + Len(Line)
  BY <1>2, TakeTypes
<1>4. /\ \A i : Start(i)' = Start(i) /\ \A k : Item(k)' = Item(k)
      /\ Current' = Current
  BY <1>2 DEF Start, Current, Item, network
<1>5. InHeader \/ \E k \in 0 .. 8 : After(k) /\ AtLength(k)
  BY <1>2, AtLine
<1>6. type = "*" \/ type = "$"
  BY <1>5 DEF InHeader, AtLength
\* A line that is cut off is no number, and nothing is left.
<1>7. ASSUME CutOff PROVE PlaceInv'
  <2>1. ~IsInt(Value)
    BY <1>2, <1>7 DEF CutOff
  <2>2. LineFails
    <3>1. ~ParseSimpleString
      BY <1>6 DEF ParseSimpleString, LineOf
    <3> QED
      BY <2>1, <3>1 DEF BulkHeader, ArrayHeader
  <2>3. buf' = <<>>
    BY <1>3, <1>7, EmptySeq DEF CutOff
  <2>4. Ended'
    BY <1>2, <1>7, <2>3 DEF Ended, CutOff, network
  <2> QED
    BY <2>2, <2>4, LostPlace DEF LineFails
<1>8. ASSUME InHeader, Len(Line) = 3, IsInt(Value), Atoi(Value) = Len(Current)
      PROVE  PlaceInv'
  <2> DEFINE q == Start(Len(parsed))
  <2>1. /\ type = "*" /\ stack = <<>> /\ elems = <<>>
        /\ Len(parsed) < Len(sent) /\ consumed = q + 1
    BY <1>8 DEF InHeader
  <2>2. Len(Current) \in 1 .. 9 /\ q \in Nat /\ Item(0) = q + 4
    BY <2>1, CurrentIs, HeaderBytes
  <2>3. ArrayHeader
    <3>1. ~ParseSimpleString /\ ~BulkHeader
      BY <2>1 DEF ParseSimpleString, BulkHeader, LineOf
    <3>2. ~LineFails
      BY <1>8, <2>1 DEF LineFails, LineOf
    <3> QED
      BY <3>1, <3>2
  <2>4. stack' = Append(stack, Len(Current)) /\ pc' = "token" /\ elems' = <<>>
    <3>1. Atoi(Value) # 0
      BY <1>8, <2>2
    <3> QED
      BY <1>8, <2>1, <2>3, <3>1 DEF ArrayHeader
  <2>5. stack' = <<Len(Current) - 0>>
    <3>1. Append(<<>>, Len(Current)) = <<Len(Current)>> /\ Len(Current) - 0 = Len(Current)
      BY <2>2
    <3> QED
      BY <2>1, <2>4, <3>1
  <2>6. consumed' = Item(0)
    BY <1>3, <1>8, <2>1, <2>2
  <2>7. After(0)'
    <3>1. Len(elems') = 0 /\ \A i \in 1 .. 0 : elems'[i] = BulkString(Current[i])
      BY <2>4
    <3>2. Len(parsed') < Len(sent') /\ 0 < Len(Current')
      <4>1. parsed' = parsed /\ sent' = sent
        BY <1>2 DEF network
      <4>2. 0 < Len(Current)
        <5> DEFINE x == Len(Current)
        <5>1. x \in 1 .. 9
          BY <2>2
        <5> HIDE DEF x
        <5>2. 0 < x
          BY <5>1
        <5> QED
          BY <5>2 DEF x
      <4> QED
        BY <1>4, <2>1, <4>1, <4>2
    <3> QED
      BY <1>4, <2>5, <3>1, <3>2 DEF After
  <2>8. AtItem(0)'
    BY <1>4, <2>4, <2>6 DEF AtItem
  <2>9. InArray'
    <3>1. 0 \in 0 .. 8
      OBVIOUS
    <3> QED
      BY <2>7, <2>8, <3>1 DEF InArray
  <2> QED
    BY <2>9 DEF PlaceInv
<1>9. ASSUME NEW k \in 0 .. 8, After(k), AtLength(k), IsInt(Value)
      PROVE  BulkHeader
  <2>1. type = "$"
    BY <1>9 DEF AtLength
  <2>2. ~ParseSimpleString /\ ~ArrayHeader
    BY <2>1 DEF ParseSimpleString, ArrayHeader, LineOf
  <2>3. ~LineFails
    BY <1>9, <2>1 DEF LineFails, LineOf
  <2> QED
    BY <2>2, <2>3
<1>10. ASSUME NEW k \in 0 .. 8, After(k), AtLength(k), ~Null(sender, Current[k + 1]),
              Len(Line) = 3, IsInt(Value), Atoi(Value) = Len(Current[k + 1])
       PROVE  PlaceInv'
  <2>1. Len(parsed) < Len(sent) /\ k < Len(Current) /\ consumed = Item(k) + 1
    BY <1>10 DEF After, AtLength
  <2>2. Item(k) \in Nat
    <3>1. k \in 0 .. Len(Current) - 1
      BY <2>1, CurrentIs
    <3> QED
      BY <2>1, <3>1, ItemBytes DEF BulkAt
  <2>3. need' = Len(Current[k + 1]) /\ pc' = "bytes" /\ UNCHANGED <<stack, elems>>
    BY <1>9, <1>10 DEF BulkHeader
  <2>4. consumed' = Item(k) + 4
    BY <1>3, <1>10, <2>1, <2>2
  <2>5. After(k)'
    BY <1>2, <1>4, <1>10, <2>3 DEF After, network
  <2>6. AtBytes(k)'
    BY <1>2, <1>4, <1>10, <2>3, <2>4 DEF AtBytes, network
  <2>7. InArray'
    BY <2>5, <2>6 DEF InArray
  <2> QED
    BY <2>7 DEF PlaceInv
<1>11. CASE InHeader
  BY <1>2, <1>7, <1>8, <1>11, LineInHeader
<1>12. ASSUME NEW k \in 0 .. 8, After(k), AtLength(k) PROVE PlaceInv'
  <2>1. CASE Null(sender, Current[k + 1]) /\ IsInt(Value) /\ Atoi(Value) = -1
    <3>1. ~(Atoi(Value) >= 0)
      BY <2>1
    <3> QED
      BY <1>9, <1>12, <2>1, <3>1 DEF BulkHeader
  <2> QED
    BY <1>2, <1>7, <1>10, <1>12, <2>1, LineInItem
<1> QED
  BY <1>5, <1>11, <1>12

\* The bytes of a payload.
LEMMA BytesPlace ==
  ASSUME TypeInv, StreamInv, PlaceInv, ~torn, ConsumeBytes
  PROVE  PlaceInv'
<1>1. /\ pc = "bytes" /\ ~panicked /\ Len(buf) >= need /\ str' = SubSeq(buf, 1, need) /\ Take(need)
      /\ pc' = "crlf"
      /\ UNCHANGED <<network, type, need, stack, elems, loop, torn, parsed>>
  BY DEF ConsumeBytes, Ready, Running
<1>2. PICK k \in 0 .. 8 : After(k) /\ AtBytes(k)
  BY <1>1 DEF PlaceInv, Between, InHeader, Whole, Lost, InArray, AtItem, AtLength, AtCrlf
<1> DEFINE q == Item(k)
           e == Item(k + 1)
           s == Current[k + 1]
<1>3. /\ Len(parsed) < Len(sent) /\ k < Len(Current)
      /\ need = Len(s) /\ ~Null(sender, s) /\ consumed = q + 4
  BY <1>2 DEF After, AtBytes
<1>4. k \in 0 .. Len(Current) - 1
  BY <1>3, CurrentIs
<1>5. s \in Seq(Bytes) /\ Len(s) \in 0 .. 9
  BY <1>3, <1>4, CurrentIs
<1>6. /\ q \in Nat /\ \A j \in 1 .. Len(s) : Stream[q + 4 + j] = s[j]
  BY <1>3, <1>4, ItemBytes DEF BulkAt
<1>7. /\ \A i : Start(i)' = Start(i) /\ \A j : Item(j)' = Item(j)
      /\ Current' = Current
  BY <1>1 DEF Start, Current, Item, network
<1> HIDE DEF q, e, s
<1>8. buf \in Seq(Bytes) /\ Len(buf) \in Nat /\ need \in 0 .. Len(buf) /\ consumed \in Nat
  <2>1. buf \in Seq(Bytes) /\ Len(buf) \in Nat /\ consumed \in Nat
    BY CurrentIs DEF TypeInv, ParserTypes
  <2>2. need \in 0 .. 9 /\ need <= Len(buf)
    BY <1>1, <2>1 DEF TypeInv, ParserTypes
  <2> QED
    BY <2>1, <2>2
<1>9. str' = s
  <2>1. /\ SubSeq(buf, 1, need) \in Seq(Bytes) /\ Len(SubSeq(buf, 1, need)) = need
        /\ \A i \in 1 .. need : SubSeq(buf, 1, need)[i] = buf[i]
    BY <1>8, TwoParts
  <2>2. ASSUME NEW i \in 1 .. need PROVE buf[i] = s[i]
    <3>1. i \in 1 .. Len(buf) /\ i \in 1 .. Len(s) /\ consumed + i = q + 4 + i
      BY <1>3, <1>6, <1>8
    <3>2. buf[i] = Stream[consumed + i]
      BY <3>1 DEF StreamInv
    <3> QED
      BY <1>6, <3>1, <3>2
  <2> DEFINE t == SubSeq(buf, 1, need)
  <2>3. t \in Seq(Bytes) /\ Len(t) = Len(s) /\ \A i \in 1 .. Len(t) : t[i] = s[i]
    BY <1>3, <2>1, <2>2
  <2> HIDE DEF t
  <2>4. t = s
    BY <1>5, <2>3, SeqEqual
  <2> QED
    BY <1>1, <2>4 DEF t
<1>10. consumed' = q + 4 + Len(s)
  <2>1. consumed' = consumed + need
    BY <1>1, <1>8, TakeTypes
  <2> QED
    BY <1>3, <1>5, <1>6, <2>1
<1>11. After(k)'
  BY <1>1, <1>2, <1>7 DEF After, network
<1>12. AtCrlf(k)'
  BY <1>1, <1>3, <1>7, <1>9, <1>10 DEF AtCrlf, network, q, s
<1>13. InArray'
  BY <1>11, <1>12 DEF InArray
<1> QED
  BY <1>13 DEF PlaceInv

\* What is complete with the payload k.
LEMMA CompleteItem ==
  ASSUME TypeInv, NEW k \in 0 .. 8, After(k), Complete(BulkString(Current[k + 1]))
  PROVE  \/ /\ k + 1 < Len(Current) /\ pc' = "token" /\ stack' = <<Len(Current) - (k + 1)>>
            /\ Len(elems') = k + 1 /\ \A i \in 1 .. k + 1 : elems'[i] = BulkString(Current[i])
         \/ /\ k + 1 = Len(Current) /\ pc' = "handle" /\ stack' = <<>>
            /\ elems' = Elements(Current)
<1> DEFINE m == Len(Current)
           l == m - k
           e == BulkString(Current[k + 1])
           I == {i \in DOMAIN stack : stack[i] > 1}
           top == Max({0} \cup I)
           array == Append(elems, e)
<1>1. /\ Len(parsed) < Len(sent) /\ k < m /\ stack = <<l>>
      /\ Len(elems) = k /\ \A i \in 1 .. k : elems[i] = BulkString(Current[i])
  BY DEF After
<1>2. m \in 1 .. 9 /\ l \in 1 .. 9 /\ k \in 0 .. m - 1 /\ Current \in Seq(Seq(Bytes)) /\ Current[k + 1] \in Seq(Bytes)
  <2>1. m \in 1 .. 9 /\ Current \in Seq(Seq(Bytes))
    BY <1>1, CurrentIs
  <2>2. k \in 0 .. m - 1 /\ l \in 1 .. 9
    <3>1. k < m
      BY <1>1
    <3> HIDE DEF m
    <3> QED
      BY <2>1, <3>1
  <2>3. Current[k + 1] \in Seq(Bytes)
    BY <1>1, <2>2, CurrentIs
  <2> QED
    BY <2>1, <2>2, <2>3
<1>3. elems \in Seq(Element) /\ e \in Element /\ e.type = "$"
  BY <1>2 DEF TypeInv, ParserTypes, BulkString, Element
<1>4. /\ array \in Seq(Element) /\ Len(array) = k + 1 /\ array # <<>>
      /\ \A i \in 1 .. k + 1 : array[i] = BulkString(Current[i])
  <2> HIDE DEF e
  <2>1. /\ array \in Seq(Element) /\ Len(array) = Len(elems) + 1 /\ array # <<>>
        /\ \A i \in 1 .. Len(elems) : array[i] = elems[i]
        /\ array[Len(elems) + 1] = e
    BY <1>3, AppendProperties
  <2> HIDE DEF array
  <2>2. Len(array) = k + 1
    BY <1>1, <2>1
  <2>3. ASSUME NEW i \in 1 .. k + 1 PROVE array[i] = BulkString(Current[i])
    <3>1. CASE i \in 1 .. k
      BY <1>1, <2>1, <3>1
    <3>2. CASE i = k + 1
      BY <1>1, <2>1, <3>2 DEF e
    <3> QED
      BY <1>2, <3>1, <3>2
  <2> QED
    BY <2>1, <2>2, <2>3
<1>5. Len(stack) = 1 /\ stack # <<>> /\ stack[1] = l /\ DOMAIN stack = 1 .. 1
  BY <1>1
<1>6. IF top = 0 THEN Returned(array)
      ELSE /\ pc' = "token"
           /\ stack' = Append(SubSeq(stack, 1, top - 1), stack[top] - 1)
           /\ elems' = array
  BY <1>5 DEF Complete
<1>7. top \in {0} \cup I /\ \A i \in {0} \cup I : i <= top
  <2>1. I \subseteq 1 .. 1
    BY <1>5
  <2> HIDE DEF I
  <2> QED
    BY <2>1, Greatest
<1>8. array[1].type = "$"
  <2>1. 1 \in 1 .. k + 1
    BY <1>2
  <2>2. array[1] = BulkString(Current[1])
    BY <1>4, <2>1
  <2> QED
    BY <2>2 DEF BulkString
<1> HIDE DEF top, array, e
<1>9. CASE l > 1
  <2>1. 1 \in I
    BY <1>5, <1>9
  <2>2. \A i \in I : i = 1
    BY <1>5
  <2>3. top = 1
    <3> HIDE DEF I
    <3> QED
      BY <1>7, <2>1, <2>2
  <2>4. pc' = "token" /\ elems' = array /\ stack' = Append(SubSeq(stack, 1, 0), l - 1)
    BY <1>5, <1>6, <2>3
  <2>5. stack' = <<m - (k + 1)>>
    <3>1. SubSeq(stack, 1, 0) = <<>>
      BY SubSeqEmpty
    <3>2. l - 1 = m - (k + 1)
      BY <1>2
    <3> HIDE DEF l, m
    <3>3. Append(<<>>, l - 1) = <<l - 1>>
      OBVIOUS
    <3> QED
      BY <2>4, <3>1, <3>2, <3>3
  <2>6. k + 1 < m
    BY <1>2, <1>9
  <2> QED
    BY <1>4, <2>4, <2>5, <2>6
<1>10. CASE ~(l > 1)
  <2>1. l = 1 /\ k + 1 = m
    BY <1>2, <1>10
  <2>2. I = {}
    BY <1>5, <2>1
  <2>3. top = 0
    <3> HIDE DEF I
    <3> QED
      BY <1>7, <2>2
  <2>4. pc' = "handle" /\ stack' = <<>> /\ elems' = array
    BY <1>4, <1>6, <1>8, <2>3 DEF Returned
  <2>5. array = Elements(Current)
    <3>1. DOMAIN Current = 1 .. k + 1
      BY <1>2, <2>1
    <3>2. array = [i \in 1 .. k + 1 |-> array[i]]
      BY <1>4
    <3>3. [i \in 1 .. k + 1 |-> array[i]] = [i \in 1 .. k + 1 |-> BulkString(Current[i])]
      BY <1>4
    <3> QED
      BY <3>1, <3>2, <3>3 DEF Elements
  <2> QED
    BY <2>1, <2>4, <2>5
<1> QED
  BY <1>9, <1>10

\* The line end of a payload, which may be lost with the end of the stream.
LEMMA CrlfPlace ==
  ASSUME TypeInv, StreamInv, PlaceInv, ~torn, ConsumeCrlf
  PROVE  PlaceInv'
<1>1. /\ pc = "crlf" /\ ~panicked /\ (Len(buf) >= 2 \/ Eof)
      /\ Complete(BulkString(str))
      /\ UNCHANGED <<network, type, need, str, panicked, torn, parsed>>
  <2>1. Ready("crlf")
    BY DEF ConsumeCrlf
  <2>2. Len(buf) \in Nat
    BY CurrentIs
  <2>3. Len(buf) >= 2 \/ Eof
    BY <2>1, <2>2 DEF Ready, NeedsMore
  <2> QED
    BY <2>1, <2>3 DEF ConsumeCrlf, Ready, Running
<1>2. PICK k \in 0 .. 8 : After(k) /\ AtCrlf(k)
  BY <1>1 DEF PlaceInv, Between, InHeader, Whole, Lost, InArray, AtItem, AtLength, AtBytes
<1> DEFINE q == Item(k)
           e == Item(k + 1)
           s == Current[k + 1]
           x == Len(s)
<1>3. /\ Len(parsed) < Len(sent) /\ k < Len(Current)
      /\ str = s /\ ~Null(sender, s) /\ consumed = q + 4 + x
  BY <1>2 DEF After, AtCrlf
<1>4. k \in 0 .. Len(Current) - 1 /\ Len(Current) \in 1 .. 9
  BY <1>3, CurrentIs
<1>5. x \in 0 .. 9 /\ Len(Stream) \in Nat /\ Len(buf) \in Nat /\ Len(wire) \in Nat /\ consumed \in Nat
  BY <1>3, <1>4, CurrentIs
<1>6. /\ q \in Nat /\ e = q + 6 + x /\ e <= Len(Stream)
      /\ Stream[q + 5 + x] = CR /\ Stream[q + 6 + x] = LF
  BY <1>3, <1>4, ItemBytes DEF BulkAt
<1>7. /\ \A i : Start(i)' = Start(i) /\ \A j : Item(j)' = Item(j)
      /\ Current' = Current
  BY <1>1 DEF Start, Current, Item, network
<1>8. Item(Len(Current)) = Start(Len(parsed) + 1)
  BY <1>3, HeaderBytes
<1>9. \/ /\ k + 1 < Len(Current) /\ pc' = "token" /\ stack' = <<Len(Current) - (k + 1)>>
         /\ Len(elems') = k + 1 /\ \A i \in 1 .. k + 1 : elems'[i] = BulkString(Current[i])
      \/ /\ k + 1 = Len(Current) /\ pc' = "handle" /\ stack' = <<>>
         /\ elems' = Elements(Current)
  BY <1>1, <1>2, <1>3, CompleteItem
<1> HIDE DEF q, e, s, x
\* Either the line end is taken, or the stream has lost its end.
<1>10. consumed' = e \/ Ended'
  <2>1. \A j \in 1 .. Len(buf) : buf[j] = Stream[consumed + j]
    BY DEF StreamInv
  <2>2. consumed + 1 = q + 5 + x /\ consumed + 2 = q + 6 + x /\ consumed + 2 = e
    BY <1>3, <1>5, <1>6
  <2>3. CASE Len(buf) >= 2
    <3>1. 1 \in 1 .. Len(buf) /\ 2 \in 1 .. Len(buf)
      BY <1>5, <2>3
    <3>2. buf[1] = CR /\ buf[2] = LF
      BY <1>6, <2>1, <2>2, <3>1
    <3>3. Take(2)
      BY <2>3, <3>2 DEF ConsumeCrlf
    <3> QED
      BY <2>2, <3>3 DEF Take
  <2>4. CASE ~(Len(buf) >= 2)
    <3>1. UNCHANGED buf /\ closed /\ wire = <<>>
      BY <1>1, <2>4 DEF ConsumeCrlf, Eof
    <3>2. cut
      <4>1. ~cut => consumed + Len(buf) + Len(wire) = Len(Stream)
        BY DEF StreamInv
      <4>2. Len(wire) = 0
        BY <3>1
      <4> QED
        BY <1>5, <1>6, <2>2, <2>4, <4>1, <4>2
    <3>3. buf = <<>> \/ buf = <<CR>>
      <4>1. buf \in Seq(Bytes) /\ (Len(buf) = 0 \/ Len(buf) = 1)
        <5>1. buf \in Seq(Bytes)
          BY DEF TypeInv, ParserTypes
        <5>2. Len(buf) = 0 \/ Len(buf) = 1
          <6>1. Len(buf) \in Nat
            BY <1>5
          <6> QED
            BY <2>4, <6>1
        <5> QED
          BY <5>1, <5>2
      <4>2. Len(buf) = 1 => buf[1] = CR
        <5>1. Len(buf) = 1 => 1 \in 1 .. Len(buf)
          OBVIOUS
        <5> QED
          BY <1>6, <2>1, <2>2, <5>1
      <4>3. Len(buf) = 0 => buf = <<>>
        BY <4>1, EmptySeq
      <4>4. Len(buf) = 1 => buf = <<buf[1]>>
        BY <4>1
      <4> QED
        BY <4>1, <4>2, <4>3, <4>4
    <3> QED
      BY <1>1, <3>1, <3>2, <3>3 DEF Ended, network
  <2> QED
    BY <2>3, <2>4
<1>11. CASE /\ k + 1 < Len(Current) /\ pc' = "token" /\ stack' = <<Len(Current) - (k + 1)>>
            /\ Len(elems') = k + 1 /\ \A i \in 1 .. k + 1 : elems'[i] = BulkString(Current[i])
  <2>1. CASE Ended'
    BY <1>11, <2>1 DEF PlaceInv, Lost
  <2>2. CASE consumed' = e
    <3>1. k + 1 \in 0 .. 8
      <4> DEFINE m == Len(Current)
      <4>1. m \in 1 .. 9 /\ k + 1 < m
        BY <1>4, <1>11
      <4> HIDE DEF m
      <4> QED
        BY <4>1
    <3>2. After(k + 1)'
      BY <1>1, <1>3, <1>7, <1>11 DEF After, network
    <3>3. AtItem(k + 1)'
      BY <1>7, <1>11, <2>2 DEF AtItem, e
    <3>4. InArray'
      <4> DEFINE i == k + 1
      <4>1. i \in 0 .. 8 /\ After(i)' /\ AtItem(i)'
        BY <3>1, <3>2, <3>3
      <4> HIDE DEF i
      <4> QED
        BY <4>1 DEF InArray
    <3> QED
      BY <3>4 DEF PlaceInv
  <2> QED
    BY <1>10, <2>1, <2>2
<1>12. CASE /\ k + 1 = Len(Current) /\ pc' = "handle" /\ stack' = <<>>
            /\ elems' = Elements(Current)
  <2>1. e = Start(Len(parsed) + 1)
    BY <1>8, <1>12 DEF e
  <2>2. Start(Len(parsed) + 1)' = Start(Len(parsed) + 1)
    BY <1>1 DEF Start, network
  <2>3. Whole'
    BY <1>1, <1>3, <1>7, <1>10, <1>12, <2>1, <2>2 DEF Whole, network
  <2> QED
    BY <2>3 DEF PlaceInv
<1> QED
  BY <1>9, <1>11, <1>12

\* A command is handed over.
LEMMA HandlePlace ==
  ASSUME TypeInv, PlaceInv, PrefixInv, ~torn, Handle \/ HandleFails
  PROVE  PlaceInv' /\ PrefixInv'
<1> DEFINE n == Len(parsed)
<1>1. /\ pc = "handle" /\ ~panicked /\ parsed' = Append(parsed, elems)
      /\ UNCHANGED <<network, buf, consumed, torn, panicked>>
  BY DEF Handle, HandleFails, Running
<1>2. n < Len(sent) /\ stack = <<>> /\ elems = Elements(Current) /\ (Ended \/ consumed = Start(n + 1))
  BY <1>1 DEF PlaceInv, Between, InHeader, InArray, AtItem, AtLength, AtBytes, AtCrlf, Whole, Lost
<1>3. /\ n \in Nat /\ Len(sent) \in Nat
      /\ Len(parsed') = n + 1 /\ parsed'[n + 1] = elems /\ \A i \in 1 .. n : parsed'[i] = parsed[i]
  <2>1. parsed \in Seq(Seq(Element)) /\ elems \in Seq(Element)
    BY DEF TypeInv, ParserTypes, CountTypes
  <2> QED
    BY <1>1, <2>1, CurrentIs, AppendProperties
<1>4. /\ pc' = "stopped"
      \/ /\ pc' = "token" /\ stack' = <<>> /\ elems' = <<>>
  BY <1>2 DEF Handle, HandleFails, ParseFails
<1>5. PlaceInv'
  <2>1. Ended => Ended'
    BY <1>1 DEF Ended, network
  <2>2. Start(Len(parsed))' = Start(n + 1)
    BY <1>1, <1>3 DEF Start, network
  <2>3. CASE Ended
    BY <1>4, <2>1, <2>3 DEF PlaceInv, Lost
  <2>4. CASE consumed = Start(n + 1)
    <3>1. consumed' = Start(Len(parsed))'
      BY <1>1, <2>2, <2>4
    <3> QED
      BY <1>4, <3>1 DEF PlaceInv, Between
  <2> QED
    BY <1>2, <2>3, <2>4
<1>6. PrefixInv'
  <2>1. n <= Len(sent) /\ \A i \in 1 .. n : parsed[i] = Elements(sent[i])
    BY DEF PrefixInv, Parsed
  <2>2. n + 1 <= Len(sent)
    BY <1>2, <1>3
  <2>3. ASSUME NEW i \in 1 .. n + 1 PROVE parsed'[i] = Elements(sent[i])
    <3>1. CASE i \in 1 .. n
      BY <1>3, <2>1, <3>1
    <3>2. CASE i = n + 1
      BY <1>2, <1>3, <3>2 DEF Current
    <3> QED
      BY <1>3, <3>1, <3>2
  <2>4. sent' = sent
    BY <1>1 DEF network
  <2>5. Parsed'
    BY <1>3, <2>2, <2>3, <2>4 DEF Parsed
  <2> QED
    BY <2>5 DEF PrefixInv
<1> QED
  BY <1>5, <1>6

\* A bulk string that was read in part stays so.
LEMMA TornStays ==
  ASSUME [Next]_vars
  PROVE  torn' = torn \/ torn'
BY DEF Next, vars, history, Send, Close, Fill, TokenFails, TokenEof, NextToken, ReadLinePanics,
       ParseSimpleString, BulkHeader, ArrayHeader, LineFails, LineOf, ConsumeBytes, ShortRead,
       ConsumeCrlf, Handle, HandleFails

\* Every step takes the parser from one place in the stream to another.
LEMMA PlaceStep ==
  ASSUME TypeInv, StreamInv, CountInv, PlaceInv, PrefixInv, [Next]_vars
  PROVE  PlaceInv'
<1>1. CASE torn
  BY <1>1, TornStays DEF PlaceInv
<1>2. CASE ~torn
  <2>1. CASE \E c \in Commands : Send(c)
    BY <2>1, SendPlace
  <2>2. CASE \/ \E n \in 0 .. Len(wire) : Close(n)
             \/ \E n \in 1 .. Len(wire) : Fill(n)
             \/ UNCHANGED vars
    BY <2>2, NetworkPlace
  <2>3. CASE TokenEof
    BY <2>3 DEF TokenEof, PlaceInv
  <2>11. CASE TokenFails
    BY <1>2, <2>11, TokenFailsPlace
  <2>4. CASE NextToken
    BY <1>2, <2>4, NextTokenPlace
  <2>5. CASE ReadLinePanics
    BY <2>5 DEF ReadLinePanics, PlaceInv
  <2>6. CASE ParseSimpleString \/ BulkHeader \/ ArrayHeader \/ LineFails
    BY <1>2, <2>6, LinePlace
  <2>7. CASE ConsumeBytes
    BY <1>2, <2>7, BytesPlace
  <2>8. CASE ShortRead
    BY <2>8 DEF ShortRead, PlaceInv
  <2>9. CASE ConsumeCrlf
    BY <1>2, <2>9, CrlfPlace
  <2>10. CASE Handle \/ HandleFails
    BY <1>2, <2>10, HandlePlace
  <2> QED
    BY <2>1, <2>2, <2>3, <2>4, <2>5, <2>6, <2>7, <2>8, <2>9, <2>10, <2>11 DEF Next
<1> QED
  BY <1>1, <1>2

\* Every step keeps what was parsed the beginning of what was sent.
LEMMA PrefixStep ==
  ASSUME TypeInv, CountInv, PlaceInv, PrefixInv, [Next]_vars
  PROVE  PrefixInv'
<1>1. CASE Handle \/ HandleFails
  <2>1. pc # "stopped" /\ sender' = sender /\ torn' = torn
    BY <1>1 DEF Handle, HandleFails, Running, network
  <2>2. CASE torn
    <3>1. sender # "client"
      BY <2>1, <2>2 DEF CountInv
    <3> QED
      BY <2>1, <2>2, <3>1 DEF PrefixInv
  <2>3. CASE ~torn
    BY <1>1, <2>3, HandlePlace
  <2> QED
    BY <2>2, <2>3
<1>2. CASE \E c \in Commands : Send(c)
  <2>1. PICK c \in Commands : Send(c)
    BY <1>2
  <2>2. sent \in Seq(Commands) /\ Len(sent) \in Nat /\ Len(parsed) \in Nat
    BY CurrentIs DEF TypeInv, NetworkTypes
  <2>3. sent' = Append(sent, c) /\ UNCHANGED <<sender, parsed, torn>>
    BY <2>1 DEF Send, history
  <2>4. Len(sent') = Len(sent) + 1 /\ \A i \in 1 .. Len(sent) : sent'[i] = sent[i]
    BY <2>2, <2>3, AppendProperties
  <2>5. Parsed => Parsed'
    BY <2>2, <2>3, <2>4 DEF Parsed
  <2> QED
    BY <2>3, <2>5 DEF PrefixInv
<1>3. CASE /\ ~(\E c \in Commands : Send(c))
           /\ ~(Handle \/ HandleFails)
  <2>1. UNCHANGED <<sender, sent, parsed>>
    BY <1>3 DEF Next, vars, network, history, Close, Fill, TokenFails, TokenEof, NextToken, ReadLinePanics,
       ParseSimpleString, BulkHeader, ArrayHeader, LineFails, LineOf, ConsumeBytes, ShortRead,
       ConsumeCrlf
  <2> QED
    BY <2>1, TornStays DEF PrefixInv, Parsed
<1> QED
  BY <1>1, <1>2, <1>3

-----------------------------------------------------------------------------
(* Panics and offsets *)

\* A stream that has lost its end stays so, and commands are only added.
LEMMA CutStays ==
  ASSUME StreamInv, [Next]_vars
  PROVE  cut => cut'
<1>1. ASSUME NEW n, Close(n) PROVE ~cut
  BY <1>1 DEF StreamInv, Close
<1> QED
  BY <1>1 DEF Next, vars, network, Send, Fill, TokenFails, TokenEof, NextToken, ReadLinePanics,
       ParseSimpleString, BulkHeader, ArrayHeader, LineFails, LineOf, ConsumeBytes, ShortRead,
       ConsumeCrlf, Handle, HandleFails

\* Commands are only added to what was sent, and move nothing in it.
LEMMA SentGrows ==
  ASSUME TypeInv, [Next]_vars
  PROVE  /\ sender' = sender
         /\ \A i \in DOMAIN sent : i \in DOMAIN sent' /\ sent'[i] = sent[i]
         /\ \A i \in 0 .. Len(sent) : Start(i)' = Start(i)
<1>1. sent \in Seq(Commands) /\ Len(sent) \in Nat /\ DOMAIN sent = 1 .. Len(sent) /\ sender \in Senders
  BY CurrentIs DEF TypeInv, NetworkTypes
<1>2. CASE \E c \in Commands : Send(c)
  <2>1. PICK c \in Commands : Send(c)
    BY <1>2
  <2>2. sent' = Append(sent, c) /\ sender' = sender
    BY <2>1 DEF Send
  <2>3. /\ sent' \in Seq(Commands) /\ Len(sent') = Len(sent) + 1
        /\ \A i \in 1 .. Len(sent) : sent'[i] = sent[i]
    BY <1>1, <2>2, AppendProperties
  <2>4. \A i \in DOMAIN sent : i \in DOMAIN sent' /\ sent'[i] = sent[i]
    BY <1>1, <2>3
  <2>5. \A i \in 0 .. Len(sent) : Offset(sender, Append(sent, c), i) = Offset(sender, sent, i)
    BY <1>1, Extends
  <2> QED
    BY <2>2, <2>4, <2>5 DEF Start
<1>3. CASE ~(\E c \in Commands : Send(c))
  <2>1. UNCHANGED <<sender, sent>>
    BY <1>3 DEF Next, vars, network, history, Close, Fill, TokenFails, TokenEof, NextToken, ReadLinePanics,
       ParseSimpleString, BulkHeader, ArrayHeader, LineFails, LineOf, ConsumeBytes, ShortRead,
       ConsumeCrlf, Handle, HandleFails
  <2> QED
    BY <2>1 DEF Start
<1> QED
  BY <1>2, <1>3

\* Every step that panics has one of the three reasons.
LEMMA PanicStep ==
  ASSUME TypeInv, StreamInv, PlaceInv, PanicOnly, [Next]_vars
  PROVE  PanicOnly'
<1>1. ASSUME \/ cut
             \/ torn
             \/ sender = "leader" /\ \E i \in DOMAIN sent : <<>> \in Range(sent[i])
      PROVE  PanicOnly'
  <2>1. CASE cut
    BY <2>1, CutStays DEF PanicOnly
  <2>2. CASE torn
    BY <2>2, TornStays DEF PanicOnly
  <2>3. CASE sender = "leader" /\ \E i \in DOMAIN sent : <<>> \in Range(sent[i])
    <3>1. PICK i \in DOMAIN sent : <<>> \in Range(sent[i])
      BY <2>3
    <3>2. sender' = "leader" /\ i \in DOMAIN sent' /\ <<>> \in Range(sent'[i])
      BY <2>3, <3>1, SentGrows
    <3> QED
      BY <3>2 DEF PanicOnly
  <2> QED
    BY <1>1, <2>1, <2>2, <2>3
<1>2. CASE ReadLinePanics /\ ~torn /\ ~panicked
  <2>1. /\ Ready("line") /\ pc = "line"
        /\ \/ Len(Line) < 2
           \/ type \in {"$", "*"} /\ IsInt(Value) /\ Atoi(Value) < 0
    BY <1>2 DEF ReadLinePanics, Ready
  <2>2. ~(Len(Line) = 3 /\ Atoi(Value) \in Nat)
    <3>1. \A l, a : l = 3 /\ a \in Nat => ~(l < 2) /\ ~(a < 0)
      OBVIOUS
    <3> QED
      BY <2>1, <3>1
  <2>3. CASE CutOff
    BY <1>1, <2>3 DEF CutOff
  <2>4. CASE InHeader /\ ~CutOff
    <3>1. Len(Line) = 3 /\ Atoi(Value) = Len(Current)
      BY <2>1, <2>4, LineInHeader
    <3>2. Len(Current) \in Nat
      BY <2>4, CurrentIs DEF InHeader
    <3> QED
      BY <2>2, <2>4, <3>1, <3>2
  <2>5. ASSUME NEW k \in 0 .. 8, After(k), AtLength(k), ~CutOff
        PROVE  PanicOnly'
    <3>1. Len(parsed) < Len(sent) /\ k < Len(Current)
      BY <2>5 DEF After
    <3>2. /\ k \in 0 .. Len(Current) - 1 /\ Len(Current) \in 1 .. 9 /\ Current \in Seq(Seq(Bytes))
          /\ Len(parsed) \in Nat /\ Len(sent) \in Nat
      BY <3>1, CurrentIs
    <3>3. Current[k + 1] \in Seq(Bytes) /\ Len(Current[k + 1]) \in 0 .. 9
      BY <3>1, <3>2, CurrentIs
    <3>4. ~Null(sender, Current[k + 1]) => Len(Line) = 3 /\ Atoi(Value) \in Nat
      <4>1. Len(Current[k + 1]) \in Nat
        BY <3>3
      <4> QED
        BY <2>1, <2>5, <4>1, LineInItem
    <3>5. sender = "leader" /\ Len(Current[k + 1]) = 0
      BY <2>2, <2>5, <3>4 DEF Null
    <3>6. Current[k + 1] = <<>>
      BY <3>3, <3>5, EmptySeq
    <3>7. <<>> \in Range(Current)
      <4>1. k + 1 \in DOMAIN Current
        BY <3>2
      <4> QED
        BY <3>6, <4>1 DEF Range
    <3>8. Len(parsed) + 1 \in DOMAIN sent
      <4>1. sent \in Seq(Commands)
        BY DEF TypeInv, NetworkTypes
      <4>2. Len(parsed) + 1 \in 1 .. Len(sent)
        BY <3>1, <3>2
      <4> QED
        BY <4>1, <4>2
    <3> QED
      BY <1>1, <3>5, <3>7, <3>8 DEF Current
  <2> QED
    BY <1>2, <2>1, <2>3, <2>4, <2>5, AtLine
<1>3. CASE panicked
  BY <1>1, <1>3 DEF PanicOnly
<1>4. CASE torn
  BY <1>1, <1>4
<1>5. CASE ~ReadLinePanics /\ ~panicked
  <2>1. panicked' = panicked
    BY <1>5 DEF Next, vars, loop, Send, Close, Fill, TokenFails, TokenEof, NextToken,
       ParseSimpleString, BulkHeader, ArrayHeader, LineFails, LineOf, ConsumeBytes, ShortRead,
       ConsumeCrlf, Handle, HandleFails
  <2> QED
    BY <1>5, <2>1 DEF PanicOnly
<1> QED
  BY <1>2, <1>3, <1>4, <1>5

\* What was counted is what was sent up to the last command that succeeded.
OffsetInv == sender # "client" /\ ~torn /\ ~cut => ProcessedBytes = Start(lastOk)

\* Every step keeps the offset that of the last command that succeeded.
LEMMA OffsetStep ==
  ASSUME TypeInv, StreamInv, CountInv, PlaceInv, PrefixInv, OffsetInv, [Next]_vars
  PROVE  OffsetInv'
<1>1. SUFFICES ASSUME sender # "client", ~torn, ~cut, torn' = torn
               PROVE  ProcessedBytes' = Start(lastOk)'
  <2>1. sender' = sender
    BY SentGrows
  <2> QED
    BY <2>1, TornStays, CutStays DEF OffsetInv
<1>2. /\ Len(parsed) \in Nat /\ Len(sent) \in Nat /\ lastOk \in Nat
      /\ ByteCounter \in Nat /\ ProcessedBytes \in Nat /\ p \in Nat
  BY CurrentIs DEF TypeInv, CountTypes
<1>3. ProcessedBytes = Start(lastOk) /\ lastOk \in 0 .. Len(sent)
  <2>1. lastOk <= Len(parsed) /\ Len(parsed) <= Len(sent)
    BY <1>1 DEF CountInv, PrefixInv, Parsed
  <2> QED
    BY <1>1, <1>2, <2>1 DEF OffsetInv
<1>4. CASE Handle
  <2>1. /\ pc = "handle" /\ ~panicked /\ parsed' = Append(parsed, elems) /\ lastOk' = Len(parsed')
        /\ ProcessedBytes' = ProcessedBytes + (ByteCounter - p)
        /\ UNCHANGED <<sender, sent, consumed>>
    BY <1>1, <1>4 DEF Handle, Running, AppendProcessedBytes, network
  <2>2. Whole
    BY <1>1, <2>1 DEF PlaceInv, Between, InHeader, InArray, AtItem, AtLength, AtBytes, AtCrlf, Lost
  <2>3. consumed = Start(Len(parsed) + 1)
    BY <1>1, <2>2 DEF Whole, Ended
  <2>4. ByteCounter = consumed /\ p = ProcessedBytes
    BY <1>1, <2>1 DEF CountInv, CountOrder, ResetInv
  <2>5. ProcessedBytes' = consumed
    BY <1>2, <2>1, <2>4
  <2>6. lastOk' = Len(parsed) + 1
    <3>1. parsed \in Seq(Seq(Element)) /\ elems \in Seq(Element)
      BY DEF TypeInv, ParserTypes, CountTypes
    <3> QED
      BY <2>1, <3>1, AppendProperties
  <2> QED
    BY <2>1, <2>3, <2>5, <2>6 DEF Start
<1>5. CASE ~Handle
  <2>1. UNCHANGED <<ProcessedBytes, lastOk>>
    BY <1>5 DEF Next, vars, loop, history, Send, Close, Fill, TokenFails, TokenEof, NextToken, ReadLinePanics,
       ParseSimpleString, BulkHeader, ArrayHeader, LineFails, LineOf, ConsumeBytes, ShortRead,
       ConsumeCrlf, HandleFails
  <2>2. \A i \in 0 .. Len(sent) : Start(i)' = Start(i)
    BY SentGrows
  <2>3. Start(lastOk)' = Start(lastOk)
    <3> DEFINE i == lastOk
    <3>1. Offset(sender', sent', i) = Offset(sender, sent, i)
      BY <1>3, <2>2 DEF Start
    <3> QED
      BY <2>1, <3>1 DEF Start
  <2> QED
    BY <1>3, <2>1, <2>3
<1> QED
  BY <1>4, <1>5

-----------------------------------------------------------------------------
(* The invariant, and what follows from it *)

\* The inductive invariant: the parser's place in the stream is what makes the
\* counts and the parsed commands come out right.
IInv ==
  /\ TypeInv /\ CountInv /\ StreamInv
  /\ PlaceInv /\ PrefixInv /\ PanicOnly /\ OffsetInv

\* It holds initially.
LEMMA InitIInv ==
  ASSUME Init
  PROVE  IInv
<1>1. \A S : <<>> \in Seq(S)
  BY EmptySeq
<1>2. TypeInv
  <2>1. "*" \in LineTypes
    BY DEF LineTypes
  <2>2. NetworkTypes
    BY <1>1 DEF Init, NetworkTypes, Senders
  <2>3. ParserTypes
    BY <1>1, <2>1 DEF Init, ParserTypes
  <2>4. CountTypes
    BY <1>1 DEF Init, CountTypes
  <2> QED
    BY <2>2, <2>3, <2>4 DEF TypeInv
<1>3. /\ Len(<<>>) = 0
      /\ sent = <<>> /\ parsed = <<>> /\ buf = <<>> /\ wire = <<>> /\ consumed = 0
  BY DEF Init
<1>4. Start(0) = 0 /\ Len(Stream) = 0
  <2>1. Start(0) = 0 /\ Start(Len(sent)) = Len(Stream) /\ Len(sent) = 0
    BY <1>2, <1>3, CurrentIs
  <2> QED
    BY <2>1
<1>5. CountInv
  BY <1>3 DEF Init, CountInv, CountOrder, ResetInv, Late
<1>6. StreamInv
  <2>1. consumed + Len(buf) + Len(wire) = Len(Stream)
    BY <1>3, <1>4
  <2>2. 1 .. Len(buf) = {} /\ 1 .. Len(wire) = {}
    BY <1>3
  <2>3. ~cut
    BY DEF Init
  <2> QED
    BY <1>3, <1>4, <2>1, <2>2, <2>3 DEF StreamInv
<1>7. PlaceInv
  BY <1>3, <1>4 DEF Init, PlaceInv, Between
<1>8. PrefixInv
  BY <1>3 DEF PrefixInv, Parsed
<1>9. PanicOnly /\ OffsetInv
  BY <1>4 DEF Init, PanicOnly, OffsetInv
<1> QED
  BY <1>2, <1>5, <1>6, <1>7, <1>8, <1>9 DEF IInv

\* Every step preserves it.
LEMMA StepIInv ==
  ASSUME IInv, [Next]_vars
  PROVE  IInv'
<1>1. TypeInv /\ CountInv /\ CountOrder /\ StreamInv /\ PlaceInv /\ PrefixInv /\ PanicOnly /\ OffsetInv
  BY DEF IInv, CountInv
<1>2. TypeInv'
  BY <1>1, TypeStep
<1>3. CountInv'
  BY <1>1, CountStep
<1>4. StreamInv'
  BY <1>1, StreamStep
<1>5. PlaceInv'
  BY <1>1, PlaceStep
<1>6. PrefixInv'
  BY <1>1, PrefixStep
<1>7. PanicOnly'
  BY <1>1, PanicStep
<1>8. OffsetInv'
  BY <1>1, OffsetStep
<1> QED
  BY <1>2, <1>3, <1>4, <1>5, <1>6, <1>7, <1>8 DEF IInv

\* Where every parsed command is the one that was sent, they are a prefix.
LEMMA PrefixSuffices ==
  ASSUME TypeInv, PrefixInv
  PROVE  ParsedAsSent
<1> DEFINE t == [i \in DOMAIN sent |-> Elements(sent[i])]
           R == Range(parsed) \cup Range(t)
           n == Len(parsed)
<1>1. SUFFICES ASSUME Parsed PROVE IsPrefix(parsed, t)
  BY DEF PrefixInv, ParsedAsSent
<1>2. /\ sent \in Seq(Commands) /\ Len(sent) \in Nat /\ DOMAIN sent = 1 .. Len(sent)
      /\ parsed \in Seq(Seq(Element)) /\ n \in Nat /\ DOMAIN parsed = 1 .. n
  BY LenProperties DEF TypeInv, NetworkTypes, CountTypes
<1>3. n <= Len(sent) /\ \A i \in 1 .. n : parsed[i] = Elements(sent[i])
  BY <1>1 DEF Parsed
<1>4. \A i \in 1 .. Len(sent) : t[i] = Elements(sent[i])
  BY <1>2
<1>5. Len(t) = Len(sent) /\ t \in Seq(R) /\ parsed \in Seq(R)
  <2> DEFINE m == Len(sent)
  <2>1. m \in Nat /\ DOMAIN t = 1 .. m /\ t = [i \in 1 .. m |-> t[i]]
    BY <1>2
  <2>2. parsed = [i \in 1 .. n |-> parsed[i]]
    BY <1>2
  <2>3. (\A i \in 1 .. m : t[i] \in R) /\ (\A i \in 1 .. n : parsed[i] \in R)
    BY <1>2, <2>1 DEF Range
  <2> HIDE DEF t, R, n, m
  <2>4. t \in [1 .. m -> R] /\ parsed \in [1 .. n -> R]
    BY <2>1, <2>2, <2>3
  <2>5. t \in Seq(R) /\ parsed \in Seq(R)
    BY <1>2, <2>1, <2>4
  <2> QED
    BY <2>1, <2>5, LenProperties DEF m
<1> HIDE DEF t, R, n
<1>6. /\ SubSeq(t, 1, n) \in Seq(R) /\ Len(SubSeq(t, 1, n)) = n
      /\ \A i \in 1 .. n : SubSeq(t, 1, n)[i] = t[i]
  <2>1. n \in 0 .. Len(t)
    BY <1>2, <1>3, <1>5
  <2> QED
    BY <1>5, <2>1, TwoParts
<1>7. /\ SubSeq(parsed, 1, n) \in Seq(R) /\ Len(SubSeq(parsed, 1, n)) = n
      /\ \A i \in 1 .. n : SubSeq(parsed, 1, n)[i] = parsed[i]
  <2>1. n \in 0 .. Len(parsed)
    BY <1>2 DEF n
  <2> QED
    BY <1>5, <2>1, TwoParts
<1>8. \A i \in 1 .. n : t[i] = parsed[i]
  BY <1>2, <1>3, <1>4
<1>9. SubSeq(parsed, 1, n) = SubSeq(t, 1, n)
  <2> DEFINE a == SubSeq(parsed, 1, n)
             b == SubSeq(t, 1, n)
  <2>1. /\ a \in Seq(R) /\ b \in Seq(R) /\ Len(a) = Len(b)
        /\ \A i \in 1 .. Len(a) : a[i] = b[i]
    BY <1>6, <1>7, <1>8
  <2> HIDE DEF a, b
  <2>2. a = b
    BY <2>1, SeqEqual
  <2> QED
    BY <2>2 DEF a, b
<1> QED
  BY <1>3, <1>5, <1>9 DEF IsPrefix, n

\* The commands' places give the counts that the property has.
LEMMA OffsetSuffices ==
  ASSUME IInv
  PROVE  OffsetExact
<1>1. TypeInv /\ CountInv /\ PrefixInv /\ OffsetInv /\ sent \in Seq(Commands)
  BY DEF IInv, TypeInv, NetworkTypes
<1>2. ASSUME sender # "client", ~torn, ~cut PROVE ProcessedBytes = SentBytes(lastOk)
  <2>1. lastOk <= Len(parsed) /\ Len(parsed) <= Len(sent)
    BY <1>1, <1>2 DEF CountInv, PrefixInv, Parsed
  <2>2. Len(parsed) \in Nat /\ Len(sent) \in Nat /\ lastOk \in Nat
    BY <1>1, CurrentIs DEF TypeInv, CountTypes
  <2>3. lastOk \in 0 .. Len(sent)
    BY <2>1, <2>2
  <2> QED
    BY <1>1, <1>2, <2>3, SentBytesIs DEF OffsetInv, Start
<1> QED
  <2>1. ByteCounter \in Nat /\ consumed \in Nat
    BY <1>1 DEF TypeInv, CountTypes
  <2>2. Late \in Nat /\ Late <= 2
    BY DEF Late
  <2>3. ByteCounter <= consumed + (IF closed THEN Late ELSE 0)
    BY <1>1 DEF CountInv
  <2>4. ByteCounter <= consumed + (IF closed THEN 2 ELSE 0)
    <3> HIDE DEF Late
    <3> QED
      BY <2>1, <2>2, <2>3
  <2> QED
    BY <1>1, <1>2, <2>4 DEF OffsetExact, CountInv

-----------------------------------------------------------------------------
(* Theorems *)

\* The invariant holds throughout.
LEMMA Invariant == Spec => []IInv
<1>1. Init => IInv
  BY InitIInv
<1>2. IInv /\ [Next]_vars => IInv'
  BY StepIInv
<1> QED
  BY <1>1, <1>2, PTL DEF Spec

\* Every variable of the sender, the network, the parser and the two loops stays
\* in its set: no command of any number of payloads takes the lexer or the
\* parser out of it.
THEOREM TypeCorrect == Spec => []TypeOK
<1>1. IInv => TypeOK
  BY TypesSuffice DEF IInv
<1> QED
  BY <1>1, Invariant, PTL

\* The commands that reach HandleCommand are those that were written, in order
\* and with their payloads, in whatever pieces the stream arrives and wherever it
\* ends: ParseServerCommand never mistakes one command's bytes for another's.
THEOREM ParsedIsSent == Spec => []ParsedAsSent
<1>1. IInv => ParsedAsSent
  BY PrefixSuffices DEF IInv
<1> QED
  BY <1>1, Invariant, PTL

\* The offset a replica answers GETACK with is the length of the leader's stream
\* up to the last command that succeeded, and never more than it has read.
THEOREM OffsetsExact == Spec => []OffsetExact
<1>1. IInv => OffsetExact
  BY OffsetSuffices
<1> QED
  BY <1>1, Invariant, PTL

\* readLine panics only on a stream that lost its end, after a bulk string that
\* was read in part, or on an empty string from this program's own leader.
THEOREM PanicsOnly == Spec => []PanicOnly
<1>1. IInv => PanicOnly
  BY DEF IInv
<1> QED
  BY <1>1, Invariant, PTL
=============================================================================
