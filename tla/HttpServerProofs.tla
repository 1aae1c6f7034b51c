-------------------------- MODULE HttpServerProofs ---------------------------
(***************************************************************************)
(* Proofs about HttpServer: first its router, for every path (which        *)
(* handler a request gets, and what its variable is bound to), and then    *)
(* the server, for any connections, any requests, any names of files and   *)
(* any number of restarts.                                                 *)
(***************************************************************************)
EXTENDS HttpServer, SequenceTheorems, FiniteSetTheorems, WellFoundedInduction, TLAPS

-----------------------------------------------------------------------------
(* The loops of match and getPathSegments, unrolled three times. *)

\* The place after one more iteration.
Further(s, p) == IF AtEnd(s, p) THEN p ELSE PartEnd(s, p) + 1

\* No pattern takes more than two iterations, so three tell where each begins.
LEMMA PlaceSteps ==
  ASSUME NEW s, NEW n \in 1 .. 6,
         n > 3 => Further(s, Further(s, Further(s, 1))) = Further(s, Further(s, 1))
  PROVE  Place(s, n) = IF n = 1 THEN 1 ELSE IF n = 2 THEN Further(s, 1) ELSE Further(s, Further(s, 1))
<1> DEFINE p2 == Further(s, 1)
           p3 == Further(s, p2)
           Is(f) == f = [m \in 1 .. n |-> IF m = 1 THEN 1 ELSE Further(s, f[m - 1])]
           g == [m \in 1 .. n |-> IF m = 1 THEN 1 ELSE IF m = 2 THEN p2 ELSE p3]
<1>1. Place(s, n) = (CHOOSE f : Is(f))[n]
  BY DEF Place, Further
<1>2. p2 = Further(s, 1) /\ p3 = Further(s, p2) /\ (n > 3 => p3 = Further(s, p3))
  OBVIOUS
<1> HIDE DEF p2, p3
<1>3. Is(g)
  <2>1. ASSUME NEW m \in 1 .. n
        PROVE  g[m] = IF m = 1 THEN 1 ELSE Further(s, g[m - 1])
    <3>1. CASE m = 1
      BY <3>1
    <3>2. CASE m = 2
      <4>1. g[m - 1] = 1 
        BY <3>2
      <4> QED
      BY <1>2, <3>2, <4>1
    <3>3. CASE m = 3
      <4>1. g[m - 1] = p2 
        BY <3>3
      <4> QED
      BY <1>2, <3>3, <4>1
    <3>4. CASE m > 3
      <4>1. g[m - 1] = p3 /\ n > 3
        BY <3>4
      <4> QED
      BY <1>2, <3>4, <4>1
    <3> QED
      BY <3>1, <3>2, <3>3, <3>4
  <2> QED
    BY <2>1
<1> DEFINE f == CHOOSE h : Is(h)
<1>4. Is(f)
  BY <1>3, Zenon
<1> HIDE DEF f
<1>5. \A m \in 1 .. n : f[m] = IF m = 1 THEN 1 ELSE Further(s, f[m - 1])
  BY <1>4
<1> HIDE DEF Is, g
<1>6. f[1] = 1
  BY <1>5
<1>7. n >= 2 => f[2] = p2
  BY <1>2, <1>5, <1>6
<1>8. n >= 3 => f[3] = p3
  BY <1>2, <1>5, <1>7
<1>9. n >= 4 => f[4] = p3
  BY <1>2, <1>5, <1>8
<1>10. n >= 5 => f[5] = p3
  BY <1>2, <1>5, <1>9
<1>11. n >= 6 => f[6] = p3
  BY <1>2, <1>5, <1>10
<1>12. f[n] = IF n = 1 THEN 1 ELSE IF n = 2 THEN p2 ELSE p3
  BY <1>6, <1>7, <1>8, <1>9, <1>10, <1>11
<1>13. Place(s, n) = f[n]
  BY <1>1 DEF f
<1> QED
  BY <1>12, <1>13 DEF p2, p3

\* Where ReadString stops.
LEMMA PartEndIs ==
  ASSUME NEW s, NEW len \in Nat, Len(s) = len, NEW i, NEW p \in Nat, PartStart(s, i) = p,
         NEW j \in p .. len + 1, j = len + 1 \/ s[j] = "/",
         \A k \in p .. j - 1 : s[k] # "/"
  PROVE  PartEnd(s, i) = j
<1> DEFINE Is(h) == /\ h = len + 1 \/ s[h] = "/"
                    /\ \A k \in p .. h - 1 : s[k] # "/"
<1>1. Is(j)
  OBVIOUS
<1>2. ASSUME NEW h \in p .. len + 1, Is(h) PROVE h = j
  <2>1. ~(h < j)
    BY <1>2
  <2>2. ~(j < h)
    BY <1>2
  <2> QED
    BY <2>1, <2>2
<1>3. PartEnd(s, i) = CHOOSE h \in p .. len + 1 : Is(h)
  BY DEF PartEnd
<1> HIDE DEF Is
<1> QED
  BY <1>1, <1>2, <1>3, Zenon

\* A pattern of one part takes one iteration.
LEMMA OnePart ==
  ASSUME NEW s, NEW len \in 1 .. 6, Len(s) = len, NEW p \in Nat, Further(s, 1) = p, p > len
  PROVE  Iterations(s) = 1 /\ Place(s, 1) = 1
<1>1. Further(s, p) = p
  BY DEF Further, AtEnd
<1>2. ASSUME NEW n \in 1 .. len PROVE Place(s, n) = IF n = 1 THEN 1 ELSE p
  <2>1. n \in 1 .. 6
    OBVIOUS
  <2> QED
    BY <1>1, <2>1, PlaceSteps
<1>3. {n \in 1 .. len : ~AtEnd(s, Place(s, n))} = {1}
  BY <1>2 DEF AtEnd
<1>4. Iterations(s) = Cardinality({1})
  BY <1>3 DEF Iterations
<1>5. Cardinality({1}) = 1
  BY FS_Singleton
<1> QED
  BY <1>2, <1>4, <1>5

\* A pattern of two parts takes two, and the second begins where the first ends.
LEMMA TwoParts ==
  ASSUME NEW s, NEW len \in 1 .. 6, Len(s) = len, NEW p \in 2 .. len, Further(s, 1) = p,
         NEW q \in Nat, Further(s, p) = q, q > len
  PROVE  Iterations(s) = 2 /\ Place(s, 1) = 1 /\ Place(s, 2) = p
<1>1. Further(s, q) = q
  BY DEF Further, AtEnd
<1>2. ASSUME NEW n \in 1 .. len PROVE Place(s, n) = IF n = 1 THEN 1 ELSE IF n = 2 THEN p ELSE q
  <2>1. n \in 1 .. 6
    OBVIOUS
  <2> QED
    BY <1>1, <2>1, PlaceSteps
<1>3. {n \in 1 .. len : ~AtEnd(s, Place(s, n))} = {1, 2}
  BY <1>2 DEF AtEnd
<1>4. Iterations(s) = Cardinality({1, 2})
  BY <1>3 DEF Iterations
<1>5. Cardinality({1, 2}) = 2
  <2>1. IsFiniteSet({1}) /\ Cardinality({1}) = 1
    BY FS_Singleton
  <2>2. {1, 2} = {1} \cup {2} /\ 2 \notin {1}
    OBVIOUS
  <2> QED
    BY <2>1, <2>2, FS_AddElement
<1> QED
  BY <1>2, <1>4, <1>5

-----------------------------------------------------------------------------
(* Short sequences, and capitals *)

\* A subsequence of one piece, and an empty one.
LEMMA SubSeqOne ==
  ASSUME NEW s, NEW i \in Nat
  PROVE  SubSeq(s, i, i) = <<s[i]>> /\ SubSeq(s, i + 1, i) = <<>>
<1> DEFINE S == {s[i]}
           t == <<s[i]>>
<1>1. t \in Seq(S) /\ Len(t) = 1 /\ t[1] = s[i]
  OBVIOUS
<1>2. \A j \in i .. i : s[j] \in S
  OBVIOUS
<1>3. /\ SubSeq(s, i, i) \in Seq(S) /\ Len(SubSeq(s, i, i)) = 1
      /\ SubSeq(s, i, i)[1] = s[i]
  <2>1. \A j \in 1 .. i - i + 1 : SubSeq(s, i, i)[j] = s[i + j - 1]
    BY <1>2, SubSeqProperties
  <2> QED
    BY <1>2, <2>1, SubSeqProperties
<1>4. \A j \in 1 .. 1 : SubSeq(s, i, i)[j] = t[j]
  BY <1>1, <1>3
<1> HIDE DEF S, t
<1>5. SubSeq(s, i, i) = t
  BY <1>1, <1>3, <1>4, SeqEqual
<1>6. SubSeq(s, i + 1, i) = <<>>
  BY SubSeqEmpty
<1> QED
  BY <1>5, <1>6 DEF t

\* The last three of six pieces.
LEMMA SubSeqThree ==
  ASSUME NEW s
  PROVE  SubSeq(s, 4, 6) = <<s[4], s[5], s[6]>>
<1> DEFINE S == {s[4], s[5], s[6]}
           t == <<s[4], s[5], s[6]>>
<1>1. t \in Seq(S) /\ Len(t) = 3 /\ t[1] = s[4] /\ t[2] = s[5] /\ t[3] = s[6]
  OBVIOUS
<1>2. \A j \in 4 .. 6 : s[j] \in S
  OBVIOUS
<1>3. /\ SubSeq(s, 4, 6) \in Seq(S) /\ Len(SubSeq(s, 4, 6)) = 3
      /\ \A j \in 1 .. 3 : SubSeq(s, 4, 6)[j] = s[4 + j - 1]
  <2>1. \A j \in 1 .. 6 - 4 + 1 : SubSeq(s, 4, 6)[j] = s[4 + j - 1]
    BY <1>2, SubSeqProperties
  <2> QED
    BY <1>2, <2>1, SubSeqProperties
<1>4. \A j \in 1 .. 3 : SubSeq(s, 4, 6)[j] = t[j]
  BY <1>1, <1>3
<1> HIDE DEF S, t
<1>5. SubSeq(s, 4, 6) = t
  BY <1>1, <1>3, <1>4, SeqEqual
<1> QED
  BY <1>5 DEF t

\* A piece without its capitals.
Low(w) == IF w \in DOMAIN Lowered THEN Lowered[w] ELSE w

\* No capital is a slash.
LEMMA LowSlash ==
  ASSUME NEW w
  PROVE  Low(w) = "/" <=> w = "/"
<1>1. DOMAIN Lowered = {"FILES", "X", "fileName"}
  BY DEF Lowered
<1>2. Lowered["FILES"] = "files" /\ Lowered["X"] = "x" /\ Lowered["fileName"] = "filename"
  BY DEF Lowered
<1>3. CASE w = "FILES"
  BY <1>1, <1>2, <1>3 DEF Low
<1>4. CASE w = "X"
  BY <1>1, <1>2, <1>4 DEF Low
<1>5. CASE w = "fileName"
  BY <1>1, <1>2, <1>5 DEF Low
<1>6. CASE w # "FILES" /\ w # "X" /\ w # "fileName"
  <2>1. w \notin DOMAIN Lowered
    BY <1>1, <1>6
  <2> QED
    BY <2>1 DEF Low
<1> QED
  BY <1>3, <1>4, <1>5, <1>6

\* Capitals are lowered one piece at a time, and a slash stays one.
LEMMA ToLowerPieces ==
  ASSUME NEW S, NEW s \in Seq(S)
  PROVE  LET T == {Low(w) : w \in S} IN
         /\ ToLower(s) \in Seq(T) /\ Len(ToLower(s)) = Len(s)
         /\ \A i \in 1 .. Len(s) : /\ ToLower(s)[i] = Low(s[i])
                                   /\ ToLower(s)[i] = "/" <=> s[i] = "/"
<1> DEFINE T == {Low(w) : w \in S}
<1>1. Len(s) \in Nat /\ DOMAIN s = 1 .. Len(s) /\ \A i \in 1 .. Len(s) : s[i] \in S
  BY LenProperties, ElementOfSeq
<1>2. ToLower(s) = [i \in 1 .. Len(s) |-> Low(s[i])]
  BY <1>1 DEF ToLower, Low
<1>3. \A i \in 1 .. Len(s) : Low(s[i]) \in T
  BY <1>1
<1> HIDE DEF T
<1>4. ToLower(s) \in [1 .. Len(s) -> T]
  BY <1>2, <1>3
<1>5. ToLower(s) \in Seq(T) /\ Len(ToLower(s)) = Len(s)
  BY <1>1, <1>4
<1>6. \A i \in 1 .. Len(s) : ToLower(s)[i] = Low(s[i])
  BY <1>2
<1>7. \A i \in 1 .. Len(s) : Low(s[i]) = "/" <=> s[i] = "/"
  BY LowSlash
<1> QED
  BY <1>5, <1>6, <1>7 DEF T

\* A word without its capitals.
LEMMA ToLowerOne ==
  ASSUME NEW w
  PROVE  ToLower(<<w>>) = <<Low(w)>>
<1> DEFINE s == <<w>>
           t == <<Low(w)>>
           T == {Low(v) : v \in {w}}
<1>1. s \in Seq({w}) /\ Len(s) = 1 /\ s[1] = w
  OBVIOUS
<1>2. t \in Seq(T) /\ Len(t) = 1 /\ t[1] = Low(w)
  OBVIOUS
<1> HIDE DEF s, t
<1>3. ToLower(s) \in Seq(T) /\ Len(ToLower(s)) = 1
  BY <1>1, ToLowerPieces
<1>4. \A i \in 1 .. 1 : ToLower(s)[i] = t[i]
  <2>1. 1 \in 1 .. Len(s)
    BY <1>1
  <2>2. ToLower(s)[1] = Low(s[1])
    BY <1>1, <2>1, ToLowerPieces, Zenon
  <2> QED
    BY <1>1, <1>2, <2>2
<1> HIDE DEF T
<1>5. ToLower(s) = t
  BY <1>2, <1>3, <1>4, SeqEqual
<1> QED
  BY <1>5 DEF s, t

-----------------------------------------------------------------------------
(* The handlers' patterns *)

\* The words of the patterns have no capitals.
LEMMA PatternWords ==
  /\ ToLower(<<>>) = <<>>
  /\ ToLower(<<"echo">>) = <<"echo">> /\ ToLower(<<"files">>) = <<"files">>
  /\ ToLower(<<"user-agent">>) = <<"user-agent">>
<1>1. ToLower(<<>>) = <<>>
  <2>1. <<>> \in Seq({}) /\ Len(<<>>) = 0
    OBVIOUS
  <2>2. ToLower(<<>>) \in Seq({Low(w) : w \in {}}) /\ Len(ToLower(<<>>)) = 0
    BY <2>1, ToLowerPieces
  <2> QED
    BY <2>2, EmptySeq
<1>2. Low("echo") = "echo" /\ Low("files") = "files" /\ Low("user-agent") = "user-agent"
  BY DEF Low, Lowered
<1> QED
  BY <1>1, <1>2, ToLowerOne

\* What one iteration makes of a pattern's part.
LEMMA SegmentIs ==
  ASSUME NEW s, NEW n \in 1 .. Iterations(s), NEW p, Place(s, n) = p
  PROVE  LET part == Part(s, p) IN
         /\ IsVar(part) => getPathSegments(s)[n] =
                             [Part |-> SubSeq(part, 2, Len(part) - 1), IsVar |-> TRUE]
         /\ ~IsVar(part) => getPathSegments(s)[n] = [Part |-> ToLower(part), IsVar |-> FALSE]
BY DEF getPathSegments

\* The first part of "/" and of "/word...", and where the next iteration begins.
LEMMA FirstPart ==
  ASSUME NEW s, NEW len \in Nat, Len(s) = len, len >= 1, s[1] = "/",
         len >= 2 => s[2] # "/", len >= 3 => s[3] = "/"
  PROVE  /\ len = 1 => Part(s, 1) = <<>> /\ Further(s, 1) = 3
         /\ len >= 2 => Part(s, 1) = <<s[2]>> /\ Further(s, 1) = 4
<1>1. PartStart(s, 1) = 2
  BY DEF PartStart
<1>2. CASE len = 1
  <2>1. \A k \in 2 .. (len + 1) - 1 : s[k] # "/"
    BY <1>2
  <2>2. PartEnd(s, 1) = len + 1
    BY <1>1, <1>2, <2>1, PartEndIs, SMTT(30)
  <2>3. PartEnd(s, 1) = 2
    BY <1>2, <2>2
  <2> QED
    BY <1>1, <1>2, <2>3, SubSeqOne DEF Part, Further, AtEnd
<1>3. CASE len >= 2
  <2> DEFINE j == 3
  <2>1. /\ j \in 2 .. len + 1 /\ (j = len + 1 \/ s[j] = "/")
        /\ \A k \in 2 .. j - 1 : s[k] # "/"
    BY <1>3
  <2> HIDE DEF j
  <2>2. PartEnd(s, 1) = j
    BY <1>1, <2>1, PartEndIs
  <2>3. PartEnd(s, 1) = 3
    BY <2>2 DEF j
  <2> QED
    BY <1>1, <1>3, <2>3, SubSeqOne DEF Part, Further, AtEnd
<1> QED
  BY <1>2, <1>3

\* The part of one or of three pieces that begins at the fourth piece of
\* "/word/...".
LEMMA SecondPart ==
  ASSUME NEW s, NEW len \in Nat, Len(s) = len, NEW n \in {1, 3},
         len >= 4, s[4] # "/", n = 3 => len >= 6 /\ s[5] # "/" /\ s[6] # "/",
         len >= 4 + n => s[4 + n] = "/"
  PROVE  Part(s, 4) = SubSeq(s, 4, 3 + n) /\ Further(s, 4) = 5 + n
<1> DEFINE j == 4 + n
<1>1. PartStart(s, 4) = 4
  BY DEF PartStart
<1>2. j \in 4 .. len + 1 /\ (j = len + 1 \/ s[j] = "/") /\ j - 1 = 3 + n /\ j + 1 = 5 + n
  OBVIOUS
<1>3. \A k \in 4 .. j - 1 : s[k] # "/"
  OBVIOUS
<1> HIDE DEF j
<1>4. PartEnd(s, 4) = j
  BY <1>1, <1>2, <1>3, PartEndIs
<1> QED
  BY <1>1, <1>2, <1>4 DEF Part, Further, AtEnd

\* The parts of "/" and of "/word".
LEMMA FixedPattern ==
  ASSUME NEW s, NEW len \in {1, 2}, Len(s) = len, s[1] = "/", len = 2 => s[2] # "/",
         NEW part, part = IF len = 1 THEN <<>> ELSE <<s[2]>>, ToLower(part) = part, ~IsVar(part)
  PROVE  /\ DOMAIN getPathSegments(s) = 1 .. 1 /\ Len(getPathSegments(s)) = 1
         /\ getPathSegments(s)[1] = [Part |-> part, IsVar |-> FALSE]
<1>1. Part(s, 1) = part /\ Further(s, 1) = len + 2
  BY FirstPart
<1>2. Iterations(s) = 1 /\ Place(s, 1) = 1
  <2>1. len \in 1 .. 6 /\ len + 2 \in Nat /\ len + 2 > len
    OBVIOUS
  <2> QED
    BY <1>1, <2>1, OnePart
<1>3. DOMAIN getPathSegments(s) = 1 .. 1 /\ Len(getPathSegments(s)) = 1
  BY <1>2 DEF getPathSegments
<1>4. getPathSegments(s)[1] = [Part |-> ToLower(Part(s, 1)), IsVar |-> FALSE]
  <2>1. 1 \in 1 .. Iterations(s) /\ ~IsVar(Part(s, 1))
    BY <1>1, <1>2
  <2> QED
    BY <1>2, <2>1, SegmentIs, Zenon
<1> QED
  BY <1>1, <1>3, <1>4

\* The parts of "/word/{param}"; a brace is anything but a slash here.
LEMMA VarPattern ==
  ASSUME NEW word, word # "/", ToLower(<<word>>) = <<word>>, ~IsVar(<<word>>),
         NEW left, NEW param, NEW right, left # "/", param # "/", right # "/",
         IsVar(<<left, param, right>>)
  PROVE  LET g == getPathSegments(<<"/", word, "/", left, param, right>>) IN
         /\ DOMAIN g = 1 .. 2 /\ Len(g) = 2
         /\ g[1] = [Part |-> <<word>>, IsVar |-> FALSE]
         /\ g[2] = [Part |-> <<param>>, IsVar |-> TRUE]
<1> DEFINE s == <<"/", word, "/", left, param, right>>
           t == <<left, param, right>>
<1>0. /\ Len(s) = 6 /\ s[1] = "/" /\ s[2] = word /\ s[3] = "/"
      /\ s[4] = left /\ s[5] = param /\ s[6] = right
      /\ Len(t) = 3 /\ t[2] = param
  OBVIOUS
<1>1. IsVar(t) /\ t = <<s[4], s[5], s[6]>>
  BY <1>0
<1> HIDE DEF s, t
<1>2. Part(s, 1) = <<word>> /\ Further(s, 1) = 4
  <2> DEFINE len == 6
  <2>1. /\ len \in Nat /\ Len(s) = len /\ len >= 1 /\ len >= 2 /\ len >= 3
        /\ s[1] = "/" /\ s[2] # "/" /\ s[3] = "/"
    BY <1>0
  <2> HIDE DEF len
  <2>2. Part(s, 1) = <<s[2]>> /\ Further(s, 1) = 4
    BY <2>1, FirstPart
  <2> QED
    BY <1>0, <2>2
<1>3. Part(s, 4) = t /\ Further(s, 4) = 8
  <2> DEFINE n == 3
             len == 6
  <2>1. /\ n \in {1, 3} /\ n = 3 /\ len \in Nat /\ Len(s) = len /\ len >= 4 /\ len >= 6
        /\ s[4] # "/" /\ s[5] # "/" /\ s[6] # "/" /\ ~(len >= 4 + n)
    BY <1>0
  <2>2. 3 + n = 6 /\ 5 + n = 8
    OBVIOUS
  <2> HIDE DEF n, len
  <2>3. Part(s, 4) = SubSeq(s, 4, 3 + n) /\ Further(s, 4) = 5 + n
    BY <2>1, SecondPart
  <2> QED
    BY <1>1, <2>2, <2>3, SubSeqThree
<1>4. Iterations(s) = 2 /\ Place(s, 1) = 1 /\ Place(s, 2) = 4
  <2> DEFINE len == 6
             p == 4
             q == 8
  <2>1. len \in 1 .. 6 /\ Len(s) = len /\ p \in 2 .. len /\ q \in Nat /\ q > len
    BY <1>0
  <2>2. Further(s, 1) = p /\ Further(s, p) = q /\ p = 4
    BY <1>2, <1>3
  <2> HIDE DEF len, p, q
  <2> QED
    BY <2>1, <2>2, TwoParts
<1>5. SubSeq(t, 2, Len(t) - 1) = <<param>>
  BY <1>0, SubSeqOne
<1>6. DOMAIN getPathSegments(s) = 1 .. 2 /\ Len(getPathSegments(s)) = 2
  BY <1>4 DEF getPathSegments
<1>7. getPathSegments(s)[1] = [Part |-> ToLower(Part(s, 1)), IsVar |-> FALSE]
  <2>1. 1 \in 1 .. Iterations(s) /\ ~IsVar(Part(s, 1))
    BY <1>2, <1>4
  <2> QED
    BY <1>4, <2>1, SegmentIs, Zenon
<1>8. getPathSegments(s)[2] =
        [Part |-> SubSeq(Part(s, 4), 2, Len(Part(s, 4)) - 1), IsVar |-> TRUE]
  <2>1. 2 \in 1 .. Iterations(s) /\ IsVar(Part(s, 4))
    BY <1>1, <1>3, <1>4
  <2> QED
    BY <1>4, <2>1, SegmentIs, Zenon
<1>9. getPathSegments(s)[1] = [Part |-> <<word>>, IsVar |-> FALSE]
  BY <1>2, <1>7
<1>10. getPathSegments(s)[2] = [Part |-> <<param>>, IsVar |-> TRUE]
  BY <1>3, <1>5, <1>8
<1> QED
  BY <1>6, <1>9, <1>10 DEF s

-----------------------------------------------------------------------------
(* The handlers' segments *)

\* The segments of "/" or "/word", and those of "/word/{param}".
OneFixed(g, part) ==
  DOMAIN g = 1 .. 1 /\ Len(g) = 1 /\ g[1] = [Part |-> part, IsVar |-> FALSE]
FixedThenVar(g, part, var) ==
  /\ DOMAIN g = 1 .. 2 /\ Len(g) = 2
  /\ g[1] = [Part |-> part, IsVar |-> FALSE]
  /\ g[2] = [Part |-> var, IsVar |-> TRUE]

\* The handlers with any two pieces for the braces.
HandlersWith(left, right) ==
  << [method |-> "get",  handle |-> "root",      pattern |-> <<"/">>],
     [method |-> "get",  handle |-> "echo",
      pattern |-> <<"/", "echo", "/", left, "command", right>>],
     [method |-> "get",  handle |-> "uagent",    pattern |-> <<"/", "user-agent">>],
     [method |-> "get",  handle |-> "fileread",
      pattern |-> <<"/", "files", "/", left, "fileName", right>>],
     [method |-> "post", handle |-> "filewrite",
      pattern |-> <<"/", "files", "/", left, "fileName", right>>] >>

\* The method, the name and the pattern of each handler.
LEMMA HandlerTable ==
  ASSUME NEW left, NEW right
  PROVE  LET h == HandlersWith(left, right) IN
         /\ DOMAIN h = 1 .. 5
         /\ h[1].method = "get" /\ h[1].handle = "root" /\ h[1].pattern = <<"/">>
         /\ h[2].method = "get" /\ h[2].handle = "echo"
         /\ h[2].pattern = <<"/", "echo", "/", left, "command", right>>
         /\ h[3].method = "get" /\ h[3].handle = "uagent"
         /\ h[3].pattern = <<"/", "user-agent">>
         /\ h[4].method = "get" /\ h[4].handle = "fileread"
         /\ h[4].pattern = <<"/", "files", "/", left, "fileName", right>>
         /\ h[5].method = "post" /\ h[5].handle = "filewrite"
         /\ h[5].pattern = <<"/", "files", "/", left, "fileName", right>>
BY DEF HandlersWith

\* The ends of three pieces.
LEMMA ThreePieces ==
  ASSUME NEW left, NEW param, NEW right, NEW t, t = <<left, param, right>>
  PROVE  Len(t) >= 2 /\ t[1] = left /\ t[Len(t)] = right
<1>1. Len(t) = 3
  OBVIOUS
<1> QED
  BY <1>1

\* Three pieces between braces are a variable.
LEMMA Braces ==
  /\ "{" # "/" /\ "}" # "/"
  /\ \A param : IsVar(<<"{", param, "}">>)
<1>1. "{" # "/" /\ "}" # "/"
  BY Zenon
<1>2. ASSUME NEW param PROVE IsVar(<<"{", param, "}">>)
  BY ThreePieces, Zenon DEF IsVar
<1> QED
  BY <1>1, <1>2, Zenon

\* No word and no empty part is a variable.
LEMMA NoBraces ==
  /\ ~IsVar(<<>>)
  /\ \A w : ~IsVar(<<w>>)
<1>1. ~(Len(<<>>) >= 2)
  OBVIOUS
<1>2. ASSUME NEW w PROVE ~(Len(<<w>>) >= 2)
  OBVIOUS
<1> QED
  BY <1>1, <1>2, Zenon DEF IsVar

\* What getPathSegments makes of the handlers' patterns, whatever the braces are.
LEMMA SegmentsWith ==
  ASSUME NEW left, left # "/", NEW right, right # "/", \A x : IsVar(<<left, x, right>>),
         NEW h, h = HandlersWith(left, right),
         NEW g, g = [k \in DOMAIN h |-> getPathSegments(h[k].pattern)]
  PROVE  /\ DOMAIN g = 1 .. 5
         /\ OneFixed(g[1], <<>>) /\ OneFixed(g[3], <<"user-agent">>)
         /\ FixedThenVar(g[2], <<"echo">>, <<"command">>)
         /\ FixedThenVar(g[4], <<"files">>, <<"fileName">>)
         /\ FixedThenVar(g[5], <<"files">>, <<"fileName">>)
<1>1. /\ DOMAIN g = 1 .. 5
      /\ g[1] = getPathSegments(<<"/">>) /\ g[3] = getPathSegments(<<"/", "user-agent">>)
      /\ g[2] = getPathSegments(<<"/", "echo", "/", left, "command", right>>)
      /\ g[4] = getPathSegments(<<"/", "files", "/", left, "fileName", right>>)
      /\ g[5] = getPathSegments(<<"/", "files", "/", left, "fileName", right>>)
  BY HandlerTable, SMTT(60)
<1>2. OneFixed(g[1], <<>>)
  <2> DEFINE s == <<"/">>
             len == 1
             part == <<>>
  <2>1. /\ len \in {1, 2} /\ len = 1 /\ len # 2 /\ Len(s) = len /\ s[1] = "/"
        /\ ToLower(part) = part /\ ~IsVar(part) /\ part = IF len = 1 THEN <<>> ELSE <<s[2]>>
    BY NoBraces, PatternWords
  <2> HIDE DEF s, len, part
  <2>2. OneFixed(getPathSegments(s), part)
    BY <2>1, FixedPattern DEF OneFixed
  <2> QED
    BY <1>1, <2>2 DEF s, part
<1>3. OneFixed(g[3], <<"user-agent">>)
  <2> DEFINE s == <<"/", "user-agent">>
             len == 2
             part == <<"user-agent">>
  <2>1. /\ len \in {1, 2} /\ len = 2 /\ Len(s) = len /\ s[1] = "/" /\ s[2] # "/"
        /\ ToLower(part) = part /\ ~IsVar(part) /\ part = IF len = 1 THEN <<>> ELSE <<s[2]>>
    BY NoBraces, PatternWords
  <2> HIDE DEF s, len, part
  <2>2. OneFixed(getPathSegments(s), part)
    BY <2>1, FixedPattern DEF OneFixed
  <2> QED
    BY <1>1, <2>2 DEF s, part
<1>4. ASSUME NEW word, word # "/", ToLower(<<word>>) = <<word>>, NEW param, param # "/"
      PROVE  FixedThenVar(getPathSegments(<<"/", word, "/", left, param, right>>),
                          <<word>>, <<param>>)
  BY <1>4, NoBraces, VarPattern, ZenonT(60) DEF FixedThenVar
<1>5. /\ FixedThenVar(g[2], <<"echo">>, <<"command">>)
      /\ FixedThenVar(g[4], <<"files">>, <<"fileName">>)
      /\ FixedThenVar(g[5], <<"files">>, <<"fileName">>)
  <2>1. "echo" # "/" /\ "files" # "/" /\ "command" # "/" /\ "fileName" # "/"
    OBVIOUS
  <2> QED
    BY <1>1, <1>4, <2>1, PatternWords
<1> QED
  BY <1>1, <1>2, <1>3, <1>5

\* What getPathSegments makes of the patterns that app/server.go registers.
LEMMA SegmentsAre ==
  /\ DOMAIN Segments = 1 .. 5
  /\ OneFixed(Segments[1], <<>>) /\ OneFixed(Segments[3], <<"user-agent">>)
  /\ FixedThenVar(Segments[2], <<"echo">>, <<"command">>)
  /\ FixedThenVar(Segments[4], <<"files">>, <<"fileName">>)
  /\ FixedThenVar(Segments[5], <<"files">>, <<"fileName">>)
<1>1. Handlers = HandlersWith("{", "}")
  BY Zenon DEF Handlers, HandlersWith
<1>2. Segments = [k \in DOMAIN Handlers |-> getPathSegments(Handlers[k].pattern)]
  BY Zenon DEF Segments
<1> QED
  BY <1>1, <1>2, Braces, SegmentsWith, Zenon

\* Their methods and names.
LEMMA HandlersAre ==
  /\ DOMAIN Handlers = 1 .. 5
  /\ \A k \in 1 .. 5 : /\ Handlers[k].method = IF k = 5 THEN "post" ELSE "get"
                       /\ Handlers[k].handle = "echo" <=> k = 2
                       /\ Handlers[k].handle = "fileread" <=> k = 4
                       /\ Handlers[k].handle = "filewrite" <=> k = 5
                       /\ Handlers[k].handle # "notFound"
<1> DEFINE h == HandlersWith("{", "}")
<1>1. Handlers = h
  BY Zenon DEF Handlers, HandlersWith
<1>2. /\ DOMAIN h = 1 .. 5
      /\ h[1].method = "get" /\ h[1].handle = "root"
      /\ h[2].method = "get" /\ h[2].handle = "echo"
      /\ h[3].method = "get" /\ h[3].handle = "uagent"
      /\ h[4].method = "get" /\ h[4].handle = "fileread"
      /\ h[5].method = "post" /\ h[5].handle = "filewrite"
  BY HandlerTable, ZenonT(240)
<1> HIDE DEF h
<1> QED
  BY <1>1, <1>2

-----------------------------------------------------------------------------
(* Which handler a path gets *)

\* What a pattern's first part is, and the method under which it is registered,
\* tell the handlers apart.
LEMMA AtMostOne ==
  ASSUME NEW method, NEW path, NEW i \in Matching(method, path), NEW j \in Matching(method, path)
  PROVE  i = j
<1>1. /\ i \in 1 .. 5 /\ Handlers[i].method = method /\ match(path, Segments[i])
      /\ j \in 1 .. 5 /\ Handlers[j].method = method /\ match(path, Segments[j])
  BY HandlersAre, Zenon DEF Matching
<1> DEFINE first(k) == IF k = 1 THEN <<>> ELSE IF k = 2 THEN <<"echo">>
                       ELSE IF k = 3 THEN <<"user-agent">> ELSE <<"files">>
<1>2. ASSUME NEW k \in 1 .. 5, match(path, Segments[k]) PROVE Got(path, 1) = first(k)
  <2>1. 1 \in DOMAIN Segments[k] /\ ~Segments[k][1].IsVar /\ Segments[k][1].Part = first(k)
    BY SegmentsAre DEF OneFixed, FixedThenVar
  <2> QED
    BY <1>2, <2>1 DEF match
<1>3. Got(path, 1) = first(i) /\ Got(path, 1) = first(j)
  BY <1>1, <1>2
<1>4. (i = 5) <=> (j = 5)
  BY <1>1, HandlersAre
<1>5. \A k \in 1 .. 5, m \in 1 .. 5 : first(k) = first(m) => k = m \/ (k >= 4 /\ m >= 4)
  <2>1. ASSUME NEW v, NEW w, <<v>> = <<w>> PROVE v = w
    <3>1. <<v>>[1] = <<w>>[1]
      BY <2>1
    <3> QED
      BY <3>1
  <2>2. ASSUME NEW v PROVE <<v>> # <<>>
    OBVIOUS
  <2>3. /\ <<"echo">> # <<"user-agent">> /\ <<"echo">> # <<"files">> /\ <<"user-agent">> # <<"files">>
        /\ <<"echo">> # <<>> /\ <<"user-agent">> # <<>> /\ <<"files">> # <<>>
    BY <2>1, <2>2
  <2> QED
    BY <2>3
<1> HIDE DEF first
<1> QED
  BY <1>1, <1>3, <1>4, <1>5

\* The handler that is chosen is the one that matches, and it finds its variable.
LEMMA ChosenHandler ==
  ASSUME NEW method, NEW path
  PROVE  /\ Cardinality(Matching(method, path)) <= 1
         /\ Choose(method, path).handle = "echo" =>
              Choose(method, path).vars = {<< <<"command">>, Got(path, 2)>>}
         /\ Choose(method, path).handle \in {"fileread", "filewrite"} =>
              Choose(method, path).vars = {<< <<"fileName">>, Got(path, 2)>>}
<1> DEFINE hits == Matching(method, path)
<1>1. hits \subseteq 1 .. 5 /\ \A i \in hits, j \in hits : i = j
  BY AtMostOne, HandlersAre, ZenonT(60) DEF Matching
<1>2. CASE hits = {}
  <2>1. Cardinality(hits) = 0
    BY <1>2, FS_EmptySet
  <2>2. Choose(method, path).handle = "notFound"
    BY <1>2, Zenon DEF Choose
  <2> QED
    BY <2>1, <2>2
<1>3. ASSUME NEW k \in hits
      PROVE  /\ Cardinality(hits) = 1
             /\ Choose(method, path) = [handle |-> Handlers[k].handle,
                                       vars |-> routeParams(path, Segments[k])]
  <2>1. hits = {k}
    BY <1>1, <1>3
  <2>2. Cardinality(hits) = 1
    BY <2>1, FS_Singleton
  <2>3. k = CHOOSE i \in hits : \A j \in hits : i <= j
    <3>1. k <= k
      BY <1>1, <1>3
    <3> HIDE DEF hits
    <3> QED
      BY <1>1, <1>3, <3>1, Zenon
  <2> HIDE DEF hits
  <2>4. hits # {}
    BY <1>3
  <2> QED
    BY <2>2, <2>3, <2>4, Zenon DEF Choose, hits
<1>4. ASSUME NEW g, NEW part, NEW var, FixedThenVar(g, part, var)
      PROVE  routeParams(path, g) = {<<var, Got(path, 2)>>}
  <2>1. {n \in DOMAIN g : g[n].IsVar} = {2} /\ g[2].Part = var
    BY <1>4 DEF FixedThenVar
  <2> QED
    BY <2>1 DEF routeParams
<1>5. ASSUME NEW k \in hits
      PROVE  /\ Handlers[k].handle = "echo" =>
                   routeParams(path, Segments[k]) = {<< <<"command">>, Got(path, 2)>>}
             /\ Handlers[k].handle \in {"fileread", "filewrite"} =>
                   routeParams(path, Segments[k]) = {<< <<"fileName">>, Got(path, 2)>>}
  <2>1. k \in 1 .. 5
    BY <1>1
  <2>2. Handlers[k].handle = "echo" => k = 2
    BY <2>1, HandlersAre
  <2>3. Handlers[k].handle \in {"fileread", "filewrite"} => k \in {4, 5}
    BY <2>1, HandlersAre
  <2> QED
    BY <1>4, <2>2, <2>3, SegmentsAre
<1> QED
  BY <1>2, <1>3, <1>5

-----------------------------------------------------------------------------
(* Paths without double slashes *)

\* What the lower-cased path keeps of one that is well written.
LEMMA Written ==
  ASSUME NEW S, NEW path \in Seq(S), NEW len, Len(path) = len, WellWritten(path)
  PROVE  LET low == ToLower(path) IN
         /\ len \in Nat /\ len >= 1 /\ Len(low) = len /\ low[1] = "/"
         /\ \A i \in 1 .. len : low[i] = Low(path[i])
         /\ len >= 2 => low[2] # "/"
         /\ len >= 3 => low[3] = "/"
         /\ len >= 4 => low[4] # "/"
         /\ len >= 5 => low[5] = "/"
<1>1. len \in Nat /\ DOMAIN path = 1 .. len
  BY LenProperties
<1>2. len >= 1
  BY <1>1, EmptySeq DEF WellWritten
<1>3. \A i \in 1 .. len : (i % 2 = 1) <=> (path[i] = "/")
  BY <1>1 DEF WellWritten
<1>4. /\ path[1] = "/" /\ (len >= 2 => path[2] # "/") /\ (len >= 3 => path[3] = "/")
      /\ (len >= 4 => path[4] # "/") /\ (len >= 5 => path[5] = "/")
  BY <1>1, <1>2, <1>3
<1>5. /\ Len(ToLower(path)) = len
      /\ \A i \in 1 .. len : /\ ToLower(path)[i] = Low(path[i])
                             /\ ToLower(path)[i] = "/" <=> path[i] = "/"
  BY ToLowerPieces
<1> QED
  BY <1>1, <1>2, <1>4, <1>5

\* Where the first three iterations of match begin in such a path, and what the
\* first two read.
LEMMA ReadWritten ==
  ASSUME NEW S, NEW path \in Seq(S), NEW len, Len(path) = len, WellWritten(path)
  PROVE  LET low == ToLower(path) IN
         /\ WordCount(path) \in Nat /\ WordCount(path) >= 1
         /\ ~AtEnd(path, Place(low, 1)) /\ Got(path, 1) = Word(path, 1)
         /\ AtEnd(path, Place(low, 2)) <=> WordCount(path) = 1
         /\ WordCount(path) >= 2 => Got(path, 2) = Word(path, 2)
         /\ AtEnd(path, Place(low, 3)) <=> WordCount(path) <= 2
<1> DEFINE low == ToLower(path)
<1>1. /\ len \in Nat /\ len >= 1 /\ Len(low) = len /\ low[1] = "/"
      /\ \A i \in 1 .. len : low[i] = Low(path[i])
      /\ len >= 2 => low[2] # "/"
      /\ len >= 3 => low[3] = "/"
      /\ len >= 4 => low[4] # "/"
      /\ len >= 5 => low[5] = "/"
  BY Written
<1> HIDE DEF low
<1>2. /\ Place(low, 1) = 1 /\ Place(low, 2) = Further(low, 1)
      /\ Place(low, 3) = Further(low, Further(low, 1))
  <2>1. ASSUME NEW n \in 1 .. 3
        PROVE  Place(low, n) = IF n = 1 THEN 1 ELSE IF n = 2 THEN Further(low, 1)
                               ELSE Further(low, Further(low, 1))
    <3>1. n \in 1 .. 6 /\ ~(n > 3)
      OBVIOUS
    <3> QED
      BY <3>1, PlaceSteps
  <2> QED
    BY <2>1
<1>3. ToLower(<<path[2]>>) = <<Low(path[2])>> /\ ToLower(<<path[4]>>) = <<Low(path[4])>>
  BY ToLowerOne
<1>4. CASE len = 1
  <2>1. Part(low, 1) = <<>> /\ Further(low, 1) = 3
    BY <1>1, <1>4, FirstPart
  <2>2. WordCount(path) = 1 /\ Word(path, 1) = <<>>
    BY <1>4 DEF WordCount, Word
  <2>3. Further(low, 3) = 3
    BY <1>1, <1>4 DEF Further, AtEnd
  <2> QED
    BY <1>1, <1>2, <1>4, <2>1, <2>2, <2>3 DEF Got, AtEnd, low
<1>5. CASE len >= 2
  <2>1. Part(low, 1) = <<low[2]>> /\ Further(low, 1) = 4
    BY <1>1, <1>5, FirstPart
  <2>2. WordCount(path) = len \div 2 /\ Word(path, 1) = <<Low(path[2])>>
        /\ Word(path, 2) = <<Low(path[4])>>
    <3>1. 2 * 1 = 2 /\ 2 * 2 = 4 /\ len # 1
      BY <1>1, <1>5
    <3> QED
      BY <1>3, <3>1 DEF WordCount, Word
  <2>3. low[2] = Low(path[2])
    BY <1>1, <1>5
  <2>4. ~AtEnd(path, Place(low, 1)) /\ Got(path, 1) = Word(path, 1)
    BY <1>1, <1>2, <1>5, <2>1, <2>2, <2>3 DEF Got, AtEnd, low
  <2>5. CASE len < 4
    <3>1. len \div 2 \in Nat /\ len \div 2 = 1
      BY <1>1, <1>5, <2>5
    <3>2. Further(low, 4) = 4
      BY <1>1, <2>5 DEF Further, AtEnd
    <3> QED
      BY <1>1, <1>2, <2>1, <2>2, <2>4, <2>5, <3>1, <3>2 DEF AtEnd, low
  <2>6. CASE len >= 4
    <3>1. Part(low, 4) = SubSeq(low, 4, 4) /\ Further(low, 4) = 6
      <4> DEFINE n == 1
      <4>1. /\ n \in {1, 3} /\ n # 3 /\ low[4] # "/" /\ (len >= 4 + n => low[4 + n] = "/")
            /\ 3 + n = 4 /\ 5 + n = 6
        BY <1>1, <2>6
      <4> HIDE DEF n
      <4>2. Part(low, 4) = SubSeq(low, 4, 3 + n) /\ Further(low, 4) = 5 + n
        BY <1>1, <2>6, <4>1, SecondPart
      <4> QED
        BY <4>1, <4>2
    <3>2. Part(low, 4) = <<Low(path[4])>>
      <4>1. SubSeq(low, 4, 4) = <<low[4]>>
        BY SubSeqOne
      <4>2. low[4] = Low(path[4])
        BY <1>1, <2>6
      <4> QED
        BY <3>1, <4>1, <4>2
    <3>3. len \div 2 \in Nat /\ len \div 2 >= 2 /\ (6 > len <=> len \div 2 <= 2)
      BY <1>1, <2>6
    <3> QED
      BY <1>1, <1>2, <2>1, <2>2, <2>4, <2>6, <3>1, <3>2, <3>3 DEF Got, AtEnd, low
  <2> QED
    BY <1>1, <2>5, <2>6
<1> QED
  BY <1>1, <1>4, <1>5

\* The two kinds of segments against such a path.
LEMMA MatchWritten ==
  ASSUME NEW S, NEW path \in Seq(S), WellWritten(path), NEW g, NEW part, NEW var,
         OneFixed(g, part) \/ FixedThenVar(g, part, var)
  PROVE  /\ match(path, g) <=>
              /\ Len(g) = WordCount(path)
              /\ \A i \in DOMAIN g : g[i].IsVar \/ g[i].Part = Word(path, i)
         /\ match(path, g) =>
              routeParams(path, g) =
                {<<g[i].Part, Word(path, i)>> : i \in {j \in DOMAIN g : g[j].IsVar}}
<1> DEFINE low == ToLower(path)
           count == WordCount(path)
<1>1. /\ count \in Nat /\ count >= 1
      /\ ~AtEnd(path, Place(low, 1)) /\ Got(path, 1) = Word(path, 1)
      /\ AtEnd(path, Place(low, 2)) <=> count = 1
      /\ count >= 2 => Got(path, 2) = Word(path, 2)
      /\ AtEnd(path, Place(low, 3)) <=> count <= 2
  BY ReadWritten
<1> HIDE DEF count
<1>3. CASE OneFixed(g, part)
  <2>1. DOMAIN g = 1 .. 1 /\ Len(g) = 1 /\ ~g[1].IsVar /\ g[1].Part = part
    BY <1>3 DEF OneFixed
  <2>2. match(path, g) <=> Got(path, 1) = g[1].Part /\ AtEnd(path, Place(low, 2))
    BY <1>1, <2>1 DEF match
  <2>3. {j \in DOMAIN g : g[j].IsVar} = {}
    BY <2>1
  <2>4. match(path, g) <=>
          /\ Len(g) = WordCount(path)
          /\ \A i \in DOMAIN g : g[i].IsVar \/ g[i].Part = Word(path, i)
    <3>1. (\A i \in DOMAIN g : g[i].IsVar \/ g[i].Part = Word(path, i))
            <=> g[1].Part = Word(path, 1)
      BY <2>1
    <3> QED
      BY <1>1, <2>1, <2>2, <3>1 DEF count
  <2> QED
    BY <2>3, <2>4 DEF routeParams
<1>4. CASE FixedThenVar(g, part, var)
  <2>1. DOMAIN g = 1 .. 2 /\ Len(g) = 2 /\ ~g[1].IsVar /\ g[1].Part = part
        /\ g[2].IsVar /\ g[2].Part = var
    BY <1>4 DEF FixedThenVar
  <2>2. match(path, g) <=>
          Got(path, 1) = g[1].Part /\ ~AtEnd(path, Place(low, 2)) /\ AtEnd(path, Place(low, 3))
    BY <1>1, <2>1 DEF match
  <2>3. {j \in DOMAIN g : g[j].IsVar} = {2}
    BY <2>1
  <2>4. match(path, g) <=>
          /\ Len(g) = WordCount(path)
          /\ \A i \in DOMAIN g : g[i].IsVar \/ g[i].Part = Word(path, i)
    <3>1. (\A i \in DOMAIN g : g[i].IsVar \/ g[i].Part = Word(path, i))
            <=> g[1].Part = Word(path, 1)
      BY <2>1
    <3>2. ~AtEnd(path, Place(low, 2)) /\ AtEnd(path, Place(low, 3)) <=> count = 2
      BY <1>1
    <3>3. Got(path, 1) = Word(path, 1)
      BY <1>1
    <3> HIDE DEF low
    <3> QED
      BY <2>1, <2>2, <3>1, <3>2, <3>3 DEF count
  <2>5. match(path, g) => Got(path, 2) = Word(path, 2)
    BY <1>1, <2>1, <2>4 DEF count
  <2> DEFINE places == {j \in DOMAIN g : g[j].IsVar}
             bound == {<<g[i].Part, Word(path, i)>> : i \in places}
  <2>6. /\ routeParams(path, g) = {<<g[i].Part, Got(path, i)>> : i \in places}
    BY DEF routeParams
  <2> HIDE DEF places
  <2>7. match(path, g) => \A i \in places : Got(path, i) = Word(path, i)
    BY <2>3, <2>5 DEF places
  <2>8. match(path, g) => routeParams(path, g) = bound
    BY <2>6, <2>7
  <2> QED
    BY <2>4, <2>8 DEF places
<1> QED
  BY <1>3, <1>4

-----------------------------------------------------------------------------
(* Paths with any slashes *)

\* Every set of naturals that is not empty has a least element.
LEMMA Least ==
  ASSUME NEW T, T \subseteq Nat, T # {}
  PROVE  \E m \in T : \A k \in T : m <= k
<1> DEFINE R == OpToRel(<, Nat)
<1>1. IsWellFoundedOn(R, Nat)
  BY NatLessThanWellFounded, Zenon
<1>2. \A x, y \in Nat : <<y, x>> \in R <=> y < x
  BY DEF OpToRel
<1> HIDE DEF R
<1>3. PICK m \in T : \A k \in T : ~(<<k, m>> \in R)
  BY <1>1, WFMin
<1>4. ASSUME NEW k \in T PROVE m <= k
  <2>1. m \in Nat /\ k \in Nat
    OBVIOUS
  <2>2. ~(k < m)
    BY <1>2, <1>3, <2>1
  <2> QED
    BY <2>1, <2>2
<1> QED
  BY <1>4

\* One iteration from place i: its part begins at p and ends before e.
Reads(s, i, p, e) ==
  /\ p = (IF s[i] = "/" THEN i + 1 ELSE i)
  /\ e \in p .. Len(s) + 1 /\ (e = Len(s) + 1 \/ s[e] = "/")
  /\ \A k \in p .. e - 1 : s[k] # "/"
  /\ Further(s, i) = e + 1 /\ Part(s, i) = SubSeq(s, p, e - 1)

\* An iteration discards one slash at most, and its part goes up to the next one
\* or to the end.
LEMMA PartFound ==
  ASSUME NEW s, NEW len \in Nat, Len(s) = len, NEW i \in 1 .. len
  PROVE  Reads(s, i, PartStart(s, i), PartEnd(s, i))
<1> DEFINE p == PartStart(s, i)
           e == PartEnd(s, i)
<1>1. p = (IF s[i] = "/" THEN i + 1 ELSE i)
  BY DEF PartStart
<1> DEFINE ends == {j \in p .. len + 1 : j = len + 1 \/ s[j] = "/"}
<1>2. p \in Nat /\ p <= len + 1 /\ ends \subseteq Nat /\ len + 1 \in ends
  BY <1>1
<1>3. PICK j \in ends : \A k \in ends : j <= k
  <2>1. ends # {}
    BY <1>2
  <2> HIDE DEF ends
  <2> QED
    BY <1>2, <2>1, Least
<1>4. j \in p .. len + 1 /\ (j = len + 1 \/ s[j] = "/")
  BY <1>2, <1>3
<1>5. \A k \in p .. j - 1 : s[k] # "/"
  <2>1. ASSUME NEW k \in p .. j - 1, s[k] = "/" PROVE FALSE
    <3>1. k \in p .. len + 1 /\ k < j
      BY <1>2, <1>4
    <3>2. k \in ends
      BY <2>1, <3>1
    <3> QED
      BY <1>2, <1>3, <1>4, <3>1, <3>2
  <2> QED
    BY <2>1
<1>6. PartEnd(s, i) = j
  <2>1. PartStart(s, i) = p
    OBVIOUS
  <2> QED
    BY <1>2, <1>4, <1>5, <2>1, PartEndIs
<1>7. Further(s, i) = e + 1
  BY DEF Further, AtEnd
<1>8. Part(s, i) = SubSeq(s, p, e - 1)
  BY DEF Part
<1> QED
  BY <1>1, <1>2, <1>4, <1>5, <1>6, <1>7, <1>8 DEF Reads

\* A subsequence that a part begins with or that follows the last one is a slash
\* or nothing.
LEMMA OneGap ==
  ASSUME NEW s, NEW i \in Nat, NEW j \in Nat, j = i \/ (j = i + 1 /\ s[i] = "/")
  PROVE  SubSeq(s, i, j - 1) \in {<<>>, <<"/">>}
<1>1. CASE j = i
  BY <1>1, SubSeqEmpty
<1>2. CASE j = i + 1 /\ s[i] = "/"
  <2>1. j - 1 = i
    BY <1>2
  <2> QED
    BY <1>2, <2>1, SubSeqOne
<1> QED
  BY <1>1, <1>2

\* A part has no slash, and the slashes around it are outside.
LEMMA PartSlashFree ==
  ASSUME NEW S, NEW s \in Seq(S), NEW p \in 1 .. Len(s) + 1, NEW e \in p .. Len(s) + 1,
         \A k \in p .. e - 1 : s[k] # "/"
  PROVE  /\ SlashFree(SubSeq(s, p, e - 1)) /\ Len(SubSeq(s, p, e - 1)) = e - p
<1> DEFINE t == SubSeq(s, p, e - 1)
<1>0. Len(s) \in Nat /\ \A k \in 1 .. Len(s) : s[k] \in S
  BY LenProperties, ElementOfSeq
<1>1. \A k \in p .. e - 1 : s[k] \in S
  BY <1>0
<1>2. /\ p \in Int /\ e - 1 \in Int /\ e - 1 - p + 1 = e - p
      /\ (IF p <= e - 1 THEN e - 1 - p + 1 ELSE 0) = e - p
  BY <1>0
<1>3. t \in Seq(S) /\ Len(t) = e - p /\ \A k \in 1 .. e - p : t[k] = s[p + k - 1]
  BY <1>1, <1>2, SubSeqProperties
<1>4. DOMAIN t = 1 .. e - p
  BY <1>3, LenProperties
<1> HIDE DEF t
<1>5. ASSUME NEW k \in DOMAIN t PROVE t[k] # "/"
  <2>1. p + k - 1 \in p .. e - 1
    BY <1>0, <1>4
  <2> QED
    BY <1>3, <1>4, <2>1
<1> QED
  BY <1>3, <1>5 DEF SlashFree, t

\* A match of a pattern of one part: the path is that part, with a slash or none
\* on each side.
LEMMA OneFixedWhole ==
  ASSUME NEW S, NEW path \in Seq(S), NEW g, NEW part, OneFixed(g, part), match(path, g)
  PROVE  \E before, after \in {<<>>, <<"/">>} :
           ToLower(path) = before \o part \o <<>> \o <<>> \o after
<1> DEFINE s == ToLower(path)
           T == {Low(w) : w \in S}
           len == Len(path)
<1>1. s \in Seq(T) /\ Len(s) = len /\ len \in Nat
  BY ToLowerPieces, LenProperties
<1>2. DOMAIN g = 1 .. 1 /\ Len(g) = 1 /\ ~g[1].IsVar /\ g[1].Part = part
  BY DEF OneFixed
<1>3. ~AtEnd(path, Place(s, 1)) /\ Part(s, Place(s, 1)) = part /\ AtEnd(path, Place(s, 2))
  BY <1>2 DEF match, Got
<1> HIDE DEF s, T
<1>4. Place(s, 1) = 1 /\ Place(s, 2) = Further(s, 1)
  <2>1. ASSUME NEW n \in 1 .. 2
        PROVE  Place(s, n) = IF n = 1 THEN 1 ELSE Further(s, 1)
    <3>1. n \in 1 .. 6 /\ ~(n > 3)
      OBVIOUS
    <3> QED
      BY <3>1, PlaceSteps
  <2> QED
    BY <2>1
<1>5. 1 \in 1 .. len
  BY <1>1, <1>3, <1>4 DEF AtEnd
<1> DEFINE p == PartStart(s, 1)
           e == PartEnd(s, 1)
<1> HIDE DEF p, e, len
<1>6. /\ p = (IF s[1] = "/" THEN 2 ELSE 1)
      /\ e \in p .. len + 1 /\ (e = len + 1 \/ s[e] = "/")
      /\ Further(s, 1) = e + 1 /\ Part(s, 1) = SubSeq(s, p, e - 1)
  <2>1. 1 + 1 = 2
    OBVIOUS
  <2> DEFINE i == 1
  <2>2. i \in 1 .. len /\ i = 1
    BY <1>5
  <2> HIDE DEF i
  <2>3. p = PartStart(s, i) /\ e = PartEnd(s, i)
    BY <2>2 DEF p, e
  <2>4. Reads(s, i, p, e)
    BY <1>1, <2>2, <2>3, PartFound
  <2> QED
    BY <1>1, <2>1, <2>2, <2>4 DEF Reads
<1>7. e \in Nat /\ e >= 1 /\ (e = len + 1 \/ e = len)
  BY <1>1, <1>3, <1>4, <1>6 DEF AtEnd, len
<1>8. SubSeq(s, 1, p - 1) \in {<<>>, <<"/">>}
  <2>1. p \in Nat /\ (p = 1 \/ (p = 1 + 1 /\ s[1] = "/"))
    BY <1>6
  <2> QED
    BY <2>1, OneGap
<1>9. SubSeq(s, e, len) \in {<<>>, <<"/">>}
  <2> DEFINE j == len + 1
  <2>1. j \in Nat /\ (j = e \/ (j = e + 1 /\ s[e] = "/")) /\ j - 1 = len
    BY <1>1, <1>6, <1>7
  <2> HIDE DEF j
  <2> QED
    BY <1>7, <2>1, OneGap
<1>10. s = SubSeq(s, 1, p - 1) \o SubSeq(s, p, e - 1) \o <<>> \o <<>> \o SubSeq(s, e, len)
  <2>1. p - 1 + 1 = p /\ e - 1 + 1 = e /\ 1 - 1 = 0 /\ p - 1 \in 0 .. len
        /\ e - 1 \in p - 1 .. len /\ len \in e - 1 .. len /\ 1 \in 1 .. len + 1
    BY <1>1, <1>5, <1>6, <1>7
  <2>2. SubSeq(s, 1, p - 1) \o SubSeq(s, p, e - 1) = SubSeq(s, 1, e - 1)
    BY <1>1, <2>1, ConcatAdjacentSubSeq, ZenonT(60)
  <2>3. SubSeq(s, 1, e - 1) \o SubSeq(s, e, len) = SubSeq(s, 1, len)
    <3>1. e - 1 \in 0 .. len
      BY <1>1, <1>5, <1>6, <1>7
    <3> QED
      BY <1>1, <2>1, <3>1, ConcatAdjacentSubSeq
  <2>4. SubSeq(s, 1, len) = s
    BY <1>1, SubSeqFull
  <2>5. SubSeq(s, 1, e - 1) \o <<>> = SubSeq(s, 1, e - 1)
    <3>1. \A k \in 1 .. e - 1 : s[k] \in T
      <4>1. \A k \in 1 .. len : s[k] \in T
        BY <1>1, ElementOfSeq
      <4> QED
        BY <1>1, <1>7, <4>1
    <3>2. SubSeq(s, 1, e - 1) \in Seq(T)
      BY <1>7, <3>1, SubSeqProperties
    <3> QED
      BY <3>2, ConcatEmptySeq
  <2> QED
    BY <2>2, <2>3, <2>4, <2>5
<1>11. SubSeq(s, p, e - 1) = part
  BY <1>3, <1>4, <1>6
<1> QED
  BY <1>8, <1>9, <1>10, <1>11 DEF s

\* Two sequences of one.
LEMMA TwoOnes ==
  ASSUME NEW w
  PROVE  <<w>> \o <<w>> = <<w, w>>
<1> DEFINE S == {w}
           s == <<w>>
           t == <<w, w>>
<1>1. s \in Seq(S) /\ Len(s) = 1 /\ t \in Seq(S) /\ Len(t) = 2
      /\ s[1] = w /\ t[1] = w /\ t[2] = w
  OBVIOUS
<1> HIDE DEF s, t, S
<1>2. /\ s \o s \in Seq(S) /\ Len(s \o s) = Len(s) + Len(s)
      /\ \A i \in 1 .. Len(s) + Len(s) :
           (s \o s)[i] = IF i <= Len(s) THEN s[i] ELSE s[i - Len(s)]
  BY <1>1, ConcatProperties
<1>3. \A i \in 1 .. 2 : (s \o s)[i] = t[i]
  BY <1>1, <1>2
<1>4. s \o s = t
  BY <1>1, <1>2, <1>3, SeqEqual
<1> QED
  BY <1>4 DEF s, t

\* A match of a pattern of two parts: between the parts are one slash or two.
LEMMA FixedThenVarWhole ==
  ASSUME NEW S, NEW path \in Seq(S), NEW g, NEW part, NEW var,
         FixedThenVar(g, part, var), match(path, g)
  PROVE  /\ \E before, after \in {<<>>, <<"/">>}, between \in {<<"/">>, <<"/", "/">>} :
              ToLower(path) = before \o part \o between \o Got(path, 2) \o after
         /\ SlashFree(Got(path, 2))
         /\ Got(path, 2) = <<>> => Doubled(path)
<1> DEFINE s == ToLower(path)
           T == {Low(w) : w \in S}
           len == Len(path)
<1>1. s \in Seq(T) /\ Len(s) = len /\ len \in Nat
  BY ToLowerPieces, LenProperties
<1>a. \A j \in 1 .. len : s[j] = "/" <=> path[j] = "/"
  BY ToLowerPieces
<1>2. DOMAIN g = 1 .. 2 /\ Len(g) = 2 /\ ~g[1].IsVar /\ g[1].Part = part
  BY DEF FixedThenVar
<1>3. /\ ~AtEnd(path, Place(s, 1)) /\ Part(s, Place(s, 1)) = part
      /\ ~AtEnd(path, Place(s, 2)) /\ AtEnd(path, Place(s, 3))
      /\ Got(path, 2) = Part(s, Place(s, 2))
  BY <1>2 DEF match, Got
<1> HIDE DEF s, T
<1>4. /\ Place(s, 1) = 1 /\ Place(s, 2) = Further(s, 1)
      /\ Place(s, 3) = Further(s, Further(s, 1))
  <2>1. ASSUME NEW n \in 1 .. 3
        PROVE  Place(s, n) = IF n = 1 THEN 1 ELSE IF n = 2 THEN Further(s, 1)
                             ELSE Further(s, Further(s, 1))
    <3>1. n \in 1 .. 6 /\ ~(n > 3)
      OBVIOUS
    <3> QED
      BY <3>1, PlaceSteps
  <2> QED
    BY <2>1
<1>5. 1 \in 1 .. len
  BY <1>1, <1>3, <1>4 DEF AtEnd
<1> DEFINE p == PartStart(s, 1)
           e == PartEnd(s, 1)
           i == e + 1
           q == PartStart(s, i)
           f == PartEnd(s, i)
<1> HIDE DEF len
<1>6. /\ p \in Nat /\ (p = 1 \/ (p = 1 + 1 /\ s[1] = "/"))
      /\ e \in p .. len + 1 /\ (e = len + 1 \/ s[e] = "/")
      /\ Further(s, 1) = i /\ Part(s, 1) = SubSeq(s, p, e - 1)
  <2> DEFINE one == 1
  <2>1. one \in 1 .. len /\ one = 1
    BY <1>5
  <2> HIDE DEF one, p, e
  <2>2. Reads(s, one, p, e)
    <3>1. p = PartStart(s, one) /\ e = PartEnd(s, one)
      BY <2>1 DEF p, e
    <3> QED
      BY <1>1, <2>1, <3>1, PartFound
  <2> QED
    BY <1>1, <2>1, <2>2 DEF Reads, i
<1> HIDE DEF p, e
<1>7. e \in 1 .. len /\ i \in 1 .. len /\ s[e] = "/"
  BY <1>1, <1>3, <1>4, <1>6 DEF AtEnd, len
<1> HIDE DEF i, q, f
<1>8. /\ q = (IF s[i] = "/" THEN i + 1 ELSE i)
      /\ f \in q .. len + 1 /\ (f = len + 1 \/ s[f] = "/")
      /\ \A k \in q .. f - 1 : s[k] # "/"
      /\ Further(s, i) = f + 1 /\ Part(s, i) = SubSeq(s, q, f - 1)
  <2>1. Reads(s, i, q, f)
    BY <1>1, <1>7, PartFound DEF q, f
  <2> QED
    BY <1>1, <2>1 DEF Reads
<1>9. f \in Nat /\ f >= 1 /\ (f = len + 1 \/ f = len)
  BY <1>1, <1>3, <1>4, <1>6, <1>7, <1>8 DEF AtEnd, len
<1>10. part = SubSeq(s, p, e - 1) /\ Got(path, 2) = SubSeq(s, q, f - 1)
  BY <1>3, <1>4, <1>6, <1>8
<1>11. SubSeq(s, 1, p - 1) \in {<<>>, <<"/">>}
  BY <1>6, OneGap
<1>12. SubSeq(s, f, len) \in {<<>>, <<"/">>}
  <2> DEFINE j == len + 1
  <2>1. j \in Nat /\ (j = f \/ (j = f + 1 /\ s[f] = "/")) /\ j - 1 = len
    BY <1>1, <1>8, <1>9
  <2> HIDE DEF j
  <2> QED
    BY <1>9, <2>1, OneGap
<1>13. SubSeq(s, e, q - 1) \in {<<"/">>, <<"/", "/">>}
  <2>1. SubSeq(s, e, e) = <<"/">>
    BY <1>7, SubSeqOne
  <2>2. CASE q = i
    <3>1. q - 1 = e
      BY <1>7, <2>2 DEF i
    <3> QED
      BY <2>1, <3>1
  <2>3. CASE q = i + 1 /\ s[i] = "/"
    <3>1. q - 1 = i /\ i = e + 1 /\ e \in 1 .. len + 1 /\ e \in e - 1 .. len /\ i \in e .. len
      BY <1>1, <1>7, <2>3 DEF i
    <3>2. SubSeq(s, i, i) = <<"/">>
      BY <1>7, <2>3, SubSeqOne
    <3>3. SubSeq(s, e, e) \o SubSeq(s, i, i) = SubSeq(s, e, i)
      BY <1>1, <3>1, ConcatAdjacentSubSeq
    <3>4. <<"/">> \o <<"/">> = <<"/", "/">>
      BY TwoOnes
    <3> QED
      BY <2>1, <3>1, <3>2, <3>3, <3>4
  <2> QED
    BY <1>8, <2>2, <2>3
<1>14. s = SubSeq(s, 1, p - 1) \o SubSeq(s, p, e - 1) \o SubSeq(s, e, q - 1)
             \o SubSeq(s, q, f - 1) \o SubSeq(s, f, len)
  <2>1. ASSUME NEW a \in 1 .. len + 1, NEW n \in a - 1 .. len
        PROVE  SubSeq(s, 1, a - 1) \o SubSeq(s, a, n) = SubSeq(s, 1, n)
    <3>1. 1 \in 1 .. len + 1 /\ a - 1 \in 1 - 1 .. len /\ n \in a - 1 .. len
          /\ a - 1 + 1 = a
      BY <1>1, <1>5
    <3> QED
      BY <1>1, <3>1, ConcatAdjacentSubSeq
  <2>2. /\ p \in 1 .. len + 1 /\ e - 1 \in p - 1 .. len
        /\ e \in 1 .. len + 1 /\ q - 1 \in e - 1 .. len
        /\ q \in 1 .. len + 1 /\ f - 1 \in q - 1 .. len
        /\ f \in 1 .. len + 1 /\ len \in f - 1 .. len
    BY <1>1, <1>6, <1>7, <1>8, <1>9 DEF i
  <2>3. /\ SubSeq(s, 1, p - 1) \o SubSeq(s, p, e - 1) = SubSeq(s, 1, e - 1)
        /\ SubSeq(s, 1, e - 1) \o SubSeq(s, e, q - 1) = SubSeq(s, 1, q - 1)
        /\ SubSeq(s, 1, q - 1) \o SubSeq(s, q, f - 1) = SubSeq(s, 1, f - 1)
        /\ SubSeq(s, 1, f - 1) \o SubSeq(s, f, len) = SubSeq(s, 1, len)
    BY <2>1, <2>2
  <2>4. SubSeq(s, 1, len) = s
    BY <1>1, SubSeqFull
  <2> QED
    BY <2>3, <2>4
<1>15. SlashFree(Got(path, 2)) /\ Len(Got(path, 2)) = f - q
  <2>1. q \in 1 .. Len(s) + 1 /\ f \in q .. Len(s) + 1
    BY <1>1, <1>7, <1>8
  <2> QED
    BY <1>1, <1>8, <1>10, <2>1, PartSlashFree, ZenonT(60)
<1>16. Got(path, 2) = <<>> => Doubled(path)
  <2>1. SUFFICES ASSUME Got(path, 2) = <<>> PROVE Doubled(path)
    OBVIOUS
  <2>2. f = q
    <3>1. Len(Got(path, 2)) = 0
      BY <2>1
    <3>2. f \in Nat /\ q \in Nat
      BY <1>7, <1>8, <1>9
    <3> QED
      BY <1>15, <3>1, <3>2
  <2>3. s[i] = "/"
    <3>1. CASE q = i
      <4>1. f # len + 1
        BY <1>1, <1>7, <2>2, <3>1
      <4> QED
        BY <1>8, <2>2, <3>1, <4>1
    <3> QED
      BY <1>8, <3>1
  <2>4. path[e] = "/" /\ path[e + 1] = "/" /\ e \in 1 .. Len(path) - 1
    BY <1>1, <1>7, <1>a, <2>3 DEF i, len
  <2> QED
    BY <2>4 DEF Doubled
<1> QED
  <2>1. s = SubSeq(s, 1, p - 1) \o part \o SubSeq(s, e, q - 1) \o Got(path, 2)
            \o SubSeq(s, f, len)
    BY <1>10, <1>14
  <2>2. ToLower(path) = s
    BY DEF s
  <2> DEFINE before == SubSeq(s, 1, p - 1)
             between == SubSeq(s, e, q - 1)
             after == SubSeq(s, f, len)
  <2>3. /\ before \in {<<>>, <<"/">>} /\ after \in {<<>>, <<"/">>}
        /\ between \in {<<"/">>, <<"/", "/">>}
        /\ ToLower(path) = before \o part \o between \o Got(path, 2) \o after
    BY <1>11, <1>12, <1>13, <2>1, <2>2
  <2> HIDE DEF before, between, after
  <2> QED
    BY <1>15, <1>16, <2>3

-----------------------------------------------------------------------------
(* The requests that have arrived *)

Points == {"head", "body", "handle", "stream", "write", "written", "failed", "done", "silent"}

\* A connection past its head has one of the requests that Handle makes.
RequestInv ==
  /\ pc \in [Conns -> Points]
  /\ call \in [Conns -> Calls \cup {NoCall}]
  /\ \A c \in Conns : pc[c] # "head" => call[c] \in Calls

\* What UserAgent sends, and that it leaves the rest alone.
LEMMA UserAgentSends ==
  ASSUME NEW c, UserAgent(c)
  PROVE  /\ Handle(c, "uagent") /\ UNCHANGED <<files, history>>
         /\ \E status, body : SendPlain(c, status, body)
BY Zenon DEF UserAgent

\* Serve leaves the requests alone, and no connection goes back to its head.
LEMMA ServeKeepsRequests ==
  ASSUME RequestInv, NEW c \in Conns, Serve(c)
  PROVE  RequestInv'
<1> DEFINE Moves == /\ call' = call /\ pc[c] # "head"
                    /\ pc' = pc \/ \E label \in Points \ {"head"} : pc' = [pc EXCEPT ![c] = label]
<1>a. NotFound(c) => Moves
  BY DEF NotFound, Handle, At, Send, Finish, End, Points
<1>b. Root(c) => Moves
  BY DEF Root, Handle, At, Send, Finish, End, Points
<1>c. Echo(c) => Moves
  BY DEF Echo, Handle, At, Send, SendPlain, Finish, End, Points
<1>d. UserAgent(c) => Moves
  BY UserAgentSends DEF Handle, At, SendPlain, Finish, Points
<1>e. ReadDirectory(c) => Moves
  BY DEF ReadDirectory, Handle, At, Finish, End, Points
<1>f. ReadNothing(c) => Moves
  BY DEF ReadNothing, Handle, At, Send, Finish, End, Points
<1>g. OpenFile(c) => Moves
  BY DEF OpenFile, Handle, At, Goto, Points
<1>h. ReadBlock(c) => Moves
  BY DEF ReadBlock, At, Points
<1>i. ReadEof(c) => Moves
  BY DEF ReadEof, At, Finish, Points
<1>j. CreateFails(c) => Moves
  BY DEF CreateFails, Handle, At, Goto, Points
<1>k. CreateFile(c) => Moves
  BY DEF CreateFile, Handle, At, Goto, Points
<1>l. WriteFile(c) => Moves
  BY DEF WriteFile, At, Goto, Points
<1>m. Created(c) => Moves
  BY DEF Created, At, Send, Finish, End, Points
<1>n. OpenFails(c) => Moves
  BY DEF OpenFails, Handle, At, Goto, Points
<1>o. StatFails(c) => Moves
  BY DEF StatFails, Handle, At, Goto, Points
<1>p. ReadFails(c) => Moves
  BY DEF ReadFails, At, Finish, End, Points
<1>q. WriteFails(c) => Moves
  BY DEF WriteFails, At, Goto, Points
<1>r. Failed(c) => Moves
  BY DEF Failed, At, Send, Finish, End, Points
<1> HIDE DEF Moves
<1>1. Moves
  BY <1>a, <1>b, <1>c, <1>d, <1>e, <1>f, <1>g, <1>h, <1>i, <1>j, <1>k, <1>l, <1>m, <1>n, <1>o,
     <1>p, <1>q, <1>r DEF Serve, Proceed, CallFails
<1> USE DEF Moves
<1>2. CASE pc' = pc
  BY <1>1, <1>2 DEF RequestInv
<1>3. ASSUME NEW label \in Points \ {"head"}, pc' = [pc EXCEPT ![c] = label]
      PROVE  RequestInv'
  <2> HIDE DEF Points
  <2>1. pc' \in [Conns -> Points]
    BY <1>3 DEF RequestInv
  <2>2. \A d \in Conns : pc'[d] # "head" => call'[d] \in Calls
    BY <1>1, <1>3 DEF RequestInv
  <2> QED
    BY <1>1, <2>1, <2>2 DEF RequestInv
<1> QED
  BY <1>1, <1>2, <1>3

\* Every step keeps RequestInv.
LEMMA RequestStep ==
  ASSUME RequestInv, [Next]_vars
  PROVE  RequestInv'
<1> USE DEF RequestInv
<1>0. "head" \in Points /\ "body" \in Points /\ "handle" \in Points
  BY DEF Points
<1>1. ASSUME NEW c \in Conns, Accept(c) PROVE RequestInv'
  BY <1>0, <1>1 DEF Accept, At, Goto
<1>2. ASSUME NEW c \in Conns, ReadHead(c) PROVE RequestInv'
  <2>1. PICK r \in Calls : /\ call' = [call EXCEPT ![c] = r]
                          /\ pc' = [pc EXCEPT ![c] = IF r.typed THEN "body" ELSE "handle"]
    BY <1>2, Zenon DEF ReadHead, Goto
  <2>2. pc' \in [Conns -> Points]
    BY <1>0, <2>1
  <2> QED
    BY <2>1, <2>2
<1>3. ASSUME NEW c \in Conns, HeadCut(c) \/ BadLength(c) \/ BodyCut(c) PROVE RequestInv'
  BY <1>3 DEF HeadCut, BadLength, BodyCut, End
<1>4. ASSUME NEW c \in Conns, ReadBody(c) PROVE RequestInv'
  BY <1>0, <1>4 DEF ReadBody, At, Goto
<1>5. CASE Restart
  <2>1. /\ pc' = [c \in Conns |-> "head"]
        /\ call' = [c \in Conns |-> NoCall]
    BY <1>5 DEF Restart
  <2> QED
    BY <1>0, <2>1
<1>6. CASE UNCHANGED vars
  BY <1>6 DEF vars
<1>7. CASE AcceptFails
  BY <1>7 DEF AcceptFails, End
<1> HIDE DEF RequestInv
<1> QED
  BY <1>1, <1>2, <1>3, <1>4, <1>5, <1>6, <1>7, ServeKeepsRequests DEF Next

\* RequestInv is an invariant.
LEMMA RequestAlways == Spec => []RequestInv
<1>1. Init => RequestInv
  BY DEF Init, RequestInv, Points
<1> QED
  BY <1>1, RequestStep, PTL DEF Spec

\* A request that has arrived is what Handle made of one that a client sent.
LEMMA ArrivedAre ==
  ASSUME RequestInv, NEW q \in Arrived
  PROVE  \E r \in Requests :
           /\ q.method = r.method /\ q.path = r.path
           /\ q.handle = Choose(r.method, r.path).handle
           /\ q.vars = Choose(r.method, r.path).vars
<1>1. q \in Calls
  BY DEF Arrived, RequestInv
<1>2. PICK r \in Requests : q = Call(r)
  BY <1>1, Zenon DEF Calls
<1> QED
  BY <1>2 DEF Call

\* The first components of one pair.
LEMMA FirstOfOne ==
  ASSUME NEW V, NEW pair, V = {pair}
  PROVE  {v[1] : v \in V} = {pair[1]}
<1> DEFINE W == {v[1] : v \in V}
<1>1. ASSUME NEW w \in W PROVE w = pair[1]
  <2>1. PICK v \in V : w = v[1]
    BY Zenon
  <2>2. v = pair
    OBVIOUS
  <2> QED
    BY <2>1, <2>2
<1>2. pair[1] \in W
  <2>1. pair \in V
    OBVIOUS
  <2> QED
    BY <2>1, Zenon
<1> HIDE DEF W
<1>3. W = {pair[1]}
  BY <1>1, <1>2
<1> QED
  BY <1>3 DEF W

\* The router's answer does not depend on the order of the handlers, and a handler
\* that looks its variable up finds it, whatever the clients ask.
THEOREM RoutesToOne == Spec => []OneHandler
<1>1. RequestInv => OneHandler
  <2> SUFFICES ASSUME RequestInv, NEW q \in Arrived
               PROVE  /\ Cardinality(Matching(q.method, q.path)) <= 1
                      /\ q.handle \in {"echo", "fileread", "filewrite"} =>
                           {v[1] : v \in q.vars} =
                             {IF q.handle = "echo" THEN <<"command">> ELSE <<"fileName">>}
    BY DEF OneHandler
  <2>1. PICK r \in Requests : /\ q.method = r.method /\ q.path = r.path
                             /\ q.handle = Choose(r.method, r.path).handle
                             /\ q.vars = Choose(r.method, r.path).vars
    BY ArrivedAre
  <2>2. ASSUME NEW V, NEW pair, V = {pair} PROVE {v[1] : v \in V} = {pair[1]}
    BY <2>2, FirstOfOne
  <2> DEFINE choice == Choose(q.method, q.path)
             value == Got(q.path, 2)
  <2>3. /\ Cardinality(Matching(q.method, q.path)) <= 1
        /\ choice.handle = "echo" => choice.vars = {<< <<"command">>, value>>}
        /\ choice.handle \in {"fileread", "filewrite"} => choice.vars = {<< <<"fileName">>, value>>}
    BY ChosenHandler, Zenon
  <2>4. q.handle = choice.handle /\ q.vars = choice.vars
    BY <2>1
  <2> HIDE DEF choice, value
  <2> DEFINE command == << <<"command">>, value>>
             fileName == << <<"fileName">>, value>>
  <2>5. command[1] = <<"command">> /\ fileName[1] = <<"fileName">>
    OBVIOUS
  <2> HIDE DEF command, fileName
  <2>6. q.handle = "echo" => {v[1] : v \in q.vars} = {<<"command">>}
    <3>1. q.handle = "echo" => q.vars = {command}
      BY <2>3, <2>4 DEF command
    <3> QED
      BY <2>2, <2>5, <3>1
  <2>7. q.handle \in {"fileread", "filewrite"} => {v[1] : v \in q.vars} = {<<"fileName">>}
    <3>1. q.handle \in {"fileread", "filewrite"} => q.vars = {fileName}
      BY <2>3, <2>4 DEF fileName
    <3> QED
      BY <2>2, <2>5, <3>1
  <2> QED
    BY <2>3, <2>6, <2>7
<1> QED
  BY <1>1, RequestAlways, PTL

\* For every path without double slashes, of any length, matching and joining are
\* inverse to each other (the scanning loops of match and getPathSegments).
THEOREM MatchingInvertsJoining == Spec => []MatchInvertsJoin
<1>1. RequestInv => MatchInvertsJoin
  <2> SUFFICES ASSUME RequestInv, NEW q \in Arrived, WellWritten(q.path), NEW k \in DOMAIN Handlers
               PROVE  LET pattern == Segments[k] IN
                      /\ match(q.path, pattern) <=>
                           /\ Len(pattern) = WordCount(q.path)
                           /\ \A i \in DOMAIN pattern :
                                pattern[i].IsVar \/ pattern[i].Part = Word(q.path, i)
                      /\ match(q.path, pattern) =>
                           routeParams(q.path, pattern) =
                             {<<pattern[i].Part, Word(q.path, i)>> :
                                i \in {j \in DOMAIN pattern : pattern[j].IsVar}}
    BY Zenon DEF MatchInvertsJoin
  <2>1. \E S : q.path \in Seq(S)
    <3>1. PICK r \in Requests : q.path = r.path
      BY ArrivedAre
    <3>2. r.path \in Seq(STRING)
      BY HttpConstants, Zenon
    <3> QED
      BY <3>1, <3>2, Zenon
  <2>2. \E part, var : OneFixed(Segments[k], part) \/ FixedThenVar(Segments[k], part, var)
    <3>1. k \in 1 .. 5
      BY HandlersAre
    <3> QED
      BY <3>1, SegmentsAre, SMTT(60)
  <2> DEFINE path == q.path
             g == Segments[k]
  <2> HIDE DEF path, g
  <2>3. PICK S : path \in Seq(S)
    BY <2>1 DEF path
  <2>4. PICK part, var : OneFixed(g, part) \/ FixedThenVar(g, part, var)
    BY <2>2 DEF g
  <2>5. WellWritten(path)
    BY DEF path
  <2>6. /\ match(path, g) <=>
             /\ Len(g) = WordCount(path)
             /\ \A i \in DOMAIN g : g[i].IsVar \/ g[i].Part = Word(path, i)
        /\ match(path, g) =>
             routeParams(path, g) =
               {<<g[i].Part, Word(path, i)>> : i \in {j \in DOMAIN g : g[j].IsVar}}
    BY <2>3, <2>4, <2>5, MatchWritten
  <2> QED
    BY <2>6, Zenon DEF path, g
<1> QED
  BY <1>1, RequestAlways, PTL

\* Whatever the slashes of a path, of any length, a match neither loses nor moves a
\* character of it (the scanning loop of match).
THEOREM MatchLosesNothing == Spec => []NothingLost
<1>1. RequestInv => NothingLost
  <2> SUFFICES ASSUME RequestInv, NEW q \in Arrived, NEW k \in Matching(q.method, q.path)
               PROVE  LET fixed == Segments[k][1].Part
                          value == IF Len(Segments[k]) < 2 THEN <<>> ELSE Got(q.path, 2)
                          gaps == IF Len(Segments[k]) < 2 THEN {<<>>} ELSE {<<"/">>, <<"/", "/">>}
                      IN /\ \E before, after \in {<<>>, <<"/">>}, between \in gaps :
                              ToLower(q.path) = before \o fixed \o between \o value \o after
                         /\ SlashFree(value)
                         /\ \A v \in routeParams(q.path, Segments[k]) :
                              v[2] = <<>> => Doubled(q.path)
    BY Zenon DEF NothingLost
  <2>1. \E S : q.path \in Seq(S)
    <3>1. PICK r \in Requests : q.path = r.path
      BY ArrivedAre
    <3>2. r.path \in Seq(STRING)
      BY HttpConstants, Zenon
    <3> QED
      BY <3>1, <3>2, Zenon
  <2>2. /\ \E part, var : OneFixed(Segments[k], part) \/ FixedThenVar(Segments[k], part, var)
        /\ match(q.path, Segments[k])
    <3>1. k \in 1 .. 5 /\ match(q.path, Segments[k])
      BY HandlersAre, Zenon DEF Matching
    <3> QED
      BY <3>1, SegmentsAre
  <2> DEFINE path == q.path
             g == Segments[k]
  <2> HIDE DEF path, g
  <2>3. PICK S : path \in Seq(S)
    BY <2>1 DEF path
  <2>4. PICK part, var : OneFixed(g, part) \/ FixedThenVar(g, part, var)
    BY <2>2 DEF g
  <2>5. match(path, g)
    BY <2>2 DEF path, g
  <2>6. CASE OneFixed(g, part)
    <3>1. DOMAIN g = 1 .. 1 /\ Len(g) = 1 /\ g[1].Part = part /\ ~g[1].IsVar
      BY <2>6 DEF OneFixed
    <3>2. \E before, after \in {<<>>, <<"/">>} :
            ToLower(path) = before \o part \o <<>> \o <<>> \o after
      BY <2>3, <2>5, <2>6, OneFixedWhole
    <3>3. Len(g) < 2
      BY <3>1
    <3>4. SlashFree(<<>>)
      BY DEF SlashFree
    <3>5. routeParams(path, g) = {}
      <4>1. {n \in DOMAIN g : g[n].IsVar} = {}
        BY <3>1
      <4> QED
        BY <4>1 DEF routeParams
    <3> QED
      BY <3>1, <3>2, <3>3, <3>4, <3>5, Zenon DEF path, g
  <2>7. CASE FixedThenVar(g, part, var)
    <3>1. DOMAIN g = 1 .. 2 /\ Len(g) = 2 /\ g[1].Part = part /\ ~g[1].IsVar /\ g[2].IsVar
      BY <2>7 DEF FixedThenVar
    <3>2. /\ \E before, after \in {<<>>, <<"/">>}, between \in {<<"/">>, <<"/", "/">>} :
               ToLower(path) = before \o part \o between \o Got(path, 2) \o after
          /\ SlashFree(Got(path, 2))
          /\ Got(path, 2) = <<>> => Doubled(path)
      BY <2>3, <2>5, <2>7, FixedThenVarWhole
    <3>3. \A v \in routeParams(path, g) : v[2] = Got(path, 2)
      <4>1. {n \in DOMAIN g : g[n].IsVar} = {2}
        BY <3>1
      <4> QED
        BY <4>1 DEF routeParams
    <3>4. ~(Len(g) < 2)
      BY <3>1
    <3> QED
      BY <3>1, <3>2, <3>3, <3>4, Zenon DEF path, g
  <2> QED
    BY <2>4, <2>6, <2>7
<1> QED
  BY <1>1, RequestAlways, PTL

-----------------------------------------------------------------------------
(* The inductive invariant *)

\* What a file can hold: blocks of a body, and what was there at the start.
Blocks == (STRING \X Nat) \cup {<<"missing", 0>>, <<"old", 1>>}

\* The contents, and the shape of a response.
TypeInv ==
  /\ RequestInv
  /\ resp = [c \in Conns |-> [status |-> resp[c].status, length |-> resp[c].length,
                              body |-> resp[c].body]]
  /\ files \in [Names -> Seq(Blocks)] /\ stored \in [Names -> Seq(Blocks)]
  /\ seen = [c \in Conns |-> seen[c]]
  /\ \A c \in Conns : seen[c] \in Seq(Blocks)

\* A connection that has a file open was asked for that file.
CallInv ==
  \A c \in Conns :
    /\ pc[c] = "stream" => call[c].handle = "fileread" /\ File(c) \in Names
    /\ pc[c] \in {"write", "written"} => call[c].handle = "filewrite" /\ File(c) \in Names

\* Who has a file open while another one writes it knows of it, and a file that
\* one POST alone has created is empty until it is written.
OverlapInv ==
  \A c \in Conns :
    /\ \A d \in Conns \ {c} :
         pc[c] \in {"stream", "write"} /\ pc[d] = "write" /\ File(c) = File(d) => c \in disturbed
    /\ pc[c] = "write" /\ c \notin disturbed => files[File(c)] = <<>>

\* A GET that no POST overlapped has read a part of the file from its start, and
\* the file is what it was when it was opened.
StreamInv ==
  \A c \in Conns :
    pc[c] = "stream" =>
      /\ resp[c].body \in Seq(Blocks)
      /\ c \notin disturbed =>
           /\ files[File(c)] = seen[c] /\ resp[c].length = Len(seen[c])
           /\ Len(resp[c].body) <= Len(seen[c])
           /\ \A i \in 1 .. Len(resp[c].body) : resp[c].body[i] = seen[c][i]

\* The run's invariants GetsSnapshot and LengthExact, one connection at a time.
AnswerInv(c) ==
  pc[c] = "done" =>
    /\ c \notin disturbed /\ IsRead(c) => resp[c].body = Encoded(c, seen[c])
    /\ (call[c].handle = "fileread" /\ resp[c].status = 200 =>
          File(c) \notin Directories /\ (c \in disturbed => call[c].gzip))
         => resp[c].length \in {0, Len(resp[c].body)}

IInv ==
  /\ TypeInv /\ CallInv /\ OverlapInv /\ StreamInv
  /\ \A c \in Conns : AnswerInv(c)
  /\ FileIsLastPost
  /\ DownOnlyFrom

-----------------------------------------------------------------------------
(* Facts about requests *)

\* Every body is made of blocks.
LEMMA BodyIs ==
  ASSUME RequestInv, NEW c \in Conns, pc[c] # "head"
  PROVE  call[c].body \in Seq(Blocks)
<1>1. PICK r \in Requests : call[c] = Call(r)
  <2>1. call[c] \in Calls
    BY DEF RequestInv
  <2> QED
    BY <2>1, Zenon DEF Calls
<1>2. r.body \in Seq(STRING \X Nat)
  BY HttpConstants, Zenon
<1>3. r.body \in Seq(Blocks)
  <2>1. ASSUME NEW S, NEW T, S \subseteq T, NEW s \in Seq(S) PROVE s \in Seq(T)
    <3>1. s \in [1 .. Len(s) -> S] /\ Len(s) \in Nat
      OBVIOUS
    <3>2. s \in [1 .. Len(s) -> T]
      BY <2>1, <3>1
    <3> QED
      BY <3>1, <3>2
  <2>2. STRING \X Nat \subseteq Blocks
    BY Zenon DEF Blocks
  <2> QED
    BY <1>2, <2>1, <2>2, Zenon
<1>4. <<>> \in Seq(Blocks)
  OBVIOUS
<1>5. call[c].body = IF r.typed THEN r.body ELSE <<>>
  BY <1>1 DEF Call
<1> QED
  BY <1>3, <1>4, <1>5

\* A handler finds the variable it looks up.
LEMMA VariableBound ==
  ASSUME RequestInv, NEW c \in Conns, pc[c] # "head"
  PROVE  /\ call[c].handle = "echo" => Exists(c, "command")
         /\ call[c].handle \in {"fileread", "filewrite"} => Exists(c, "fileName")
<1>1. PICK r \in Requests : /\ call[c].handle = Choose(r.method, r.path).handle
                            /\ call[c].vars = Choose(r.method, r.path).vars
  <2>1. call[c] \in Arrived
    BY DEF Arrived
  <2> QED
    BY <2>1, ArrivedAre, Zenon
<1> DEFINE choice == Choose(r.method, r.path)
           value == Got(r.path, 2)
<1>2. /\ choice.handle = "echo" => choice.vars = {<< <<"command">>, value>>}
      /\ choice.handle \in {"fileread", "filewrite"} => choice.vars = {<< <<"fileName">>, value>>}
  BY ChosenHandler, Zenon
<1>3. call[c].handle = choice.handle /\ call[c].vars = choice.vars
  BY <1>1
<1> HIDE DEF choice, value
<1>4. ASSUME NEW name, call[c].vars = {<< <<name>>, value>>} PROVE Exists(c, name)
  <2> DEFINE pair == << <<name>>, value>>
  <2>1. pair[1] = <<name>>
    OBVIOUS
  <2>2. pair \in call[c].vars
    BY <1>4
  <2> HIDE DEF pair
  <2> QED
    BY <2>1, <2>2, Zenon DEF Exists
<1> QED
  BY <1>2, <1>3, <1>4

-----------------------------------------------------------------------------
(* What a step leaves alone *)

\* The file of a request depends on nothing but the request.
LEMMA SameFile ==
  ASSUME NEW c, call'[c] = call[c]
  PROVE  File(c)' = File(c)
BY Zenon DEF File, RouteVar

\* A step that changes no content and neither begins nor ends a write.
LEMMA KeepsPosts ==
  ASSUME FileIsLastPost, files' = files, stored' = stored, damaged' = damaged,
         \A d \in Conns : pc[d] = "write" => pc'[d] = "write" /\ File(d)' = File(d)
  PROVE  FileIsLastPost'
BY DEF FileIsLastPost

\* A step that changes no content and opens no file.
LEMMA KeepsOverlap ==
  ASSUME OverlapInv, files' = files,
         \A d \in Conns : pc'[d] \in {"stream", "write"} =>
            pc[d] = pc'[d] /\ File(d)' = File(d) /\ (d \in disturbed => d \in disturbed')
  PROVE  OverlapInv'
BY DEF OverlapInv

\* A step that changes nothing of a GET that is being answered.
LEMMA KeepsStream ==
  ASSUME StreamInv, files' = files,
         \A d \in Conns : pc'[d] = "stream" =>
            /\ pc[d] = "stream" /\ File(d)' = File(d) /\ (d \in disturbed => d \in disturbed')
            /\ resp'[d] = resp[d] /\ seen'[d] = seen[d]
  PROVE  StreamInv'
BY DEF StreamInv

\* A step that changes nothing of an answer that was given.
LEMMA KeepsAnswer ==
  ASSUME NEW d, AnswerInv(d),
         pc'[d] = "done" =>
            /\ pc[d] = "done" /\ call'[d] = call[d] /\ (d \in disturbed => d \in disturbed')
            /\ resp'[d] = resp[d] /\ seen'[d] = seen[d]
  PROVE  AnswerInv(d)'
<1> SUFFICES ASSUME pc'[d] = "done" PROVE AnswerInv(d)'
  BY DEF AnswerInv
<1>1. /\ pc[d] = "done" /\ call'[d] = call[d] /\ (d \in disturbed => d \in disturbed')
      /\ resp'[d] = resp[d] /\ seen'[d] = seen[d] /\ File(d)' = File(d)
  BY SameFile
<1> QED
  BY <1>1 DEF AnswerInv, IsRead, Encoded

\* A step that moves nobody to an open file.
LEMMA KeepsCalls ==
  ASSUME CallInv,
         \A d \in Conns : pc'[d] \in {"stream", "write", "written"} =>
            pc'[d] = pc[d] /\ call'[d] = call[d]
  PROVE  CallInv'
<1>1. \A d \in Conns : pc'[d] \in {"stream", "write", "written"} =>
         pc'[d] = pc[d] /\ call'[d] = call[d] /\ File(d)' = File(d)
  BY SameFile
<1> QED
  BY <1>1 DEF CallInv

\* A step of one connection that opens, reads or writes no file and answers nothing.
LEMMA BeforeHandler ==
  ASSUME IInv, NEW c \in Conns, RequestInv', ~down, down' = down,
         pc[c] \notin {"stream", "write", "written"},
         NEW label \in {"head", "body", "handle", "failed", "silent"},
         pc' = [pc EXCEPT ![c] = label],
         UNCHANGED <<files, stored, damaged>>,
         NEW r, call' = [call EXCEPT ![c] = r],
         NEW q, resp' = [resp EXCEPT ![c] = q],
         q = [status |-> q.status, length |-> q.length, body |-> q.body],
         NEW s \in Seq(Blocks), seen' = [seen EXCEPT ![c] = s],
         \A d \in Conns \ {c} : d \in disturbed => d \in disturbed'
  PROVE  IInv'
<1>1. /\ pc'[c] = label /\ \A d \in Conns \ {c} : /\ pc'[d] = pc[d] /\ call'[d] = call[d]
                                                 /\ resp'[d] = resp[d] /\ seen'[d] = seen[d]
  BY DEF IInv, TypeInv, RequestInv
<1>2. \A d \in Conns \ {c} : File(d)' = File(d)
  BY <1>1, SameFile
<1>3. \A d \in Conns : pc'[d] \in {"stream", "write", "written", "done"} \/ pc[d] = "write" => d # c
  BY <1>1
<1>4. TypeInv'
  BY DEF IInv, TypeInv
<1>5. CallInv'
  BY <1>1, <1>3, KeepsCalls DEF IInv
<1>6. OverlapInv'
  BY <1>1, <1>2, <1>3, KeepsOverlap DEF IInv
<1>7. StreamInv'
  BY <1>1, <1>2, <1>3, KeepsStream DEF IInv
<1>8. \A d \in Conns : AnswerInv(d)'
  BY <1>1, <1>3, KeepsAnswer DEF IInv
<1>9. FileIsLastPost'
  BY <1>1, <1>2, <1>3, KeepsPosts DEF IInv
<1>10. DownOnlyFrom'
  BY DEF DownOnlyFrom
<1> QED
  BY <1>4, <1>5, <1>6, <1>7, <1>8, <1>9, <1>10 DEF IInv

\* The same for a step that leaves the response and the history alone.
LEMMA BeforeHandlerKeeps ==
  ASSUME IInv, NEW c \in Conns, RequestInv', ~down, down' = down,
         pc[c] \notin {"stream", "write", "written"},
         NEW label \in {"head", "body", "handle", "failed", "silent"},
         pc' = [pc EXCEPT ![c] = label],
         UNCHANGED <<files, stored, damaged>>,
         NEW r, call' = [call EXCEPT ![c] = r],
         resp' = resp, seen' = seen, disturbed' = disturbed
  PROVE  IInv'
<1>1. /\ resp' = [resp EXCEPT ![c] = resp[c]] /\ seen' = [seen EXCEPT ![c] = seen[c]]
      /\ resp[c] = [status |-> resp[c].status, length |-> resp[c].length, body |-> resp[c].body]
      /\ seen[c] \in Seq(Blocks)
  BY DEF IInv, TypeInv
<1> DEFINE q == resp[c]
           s == seen[c]
<1> HIDE DEF q, s
<1>2. /\ resp' = [resp EXCEPT ![c] = q] /\ seen' = [seen EXCEPT ![c] = s] /\ s \in Seq(Blocks)
      /\ q = [status |-> q.status, length |-> q.length, body |-> q.body]
  BY <1>1 DEF q, s
<1> QED
  BY <1>2, BeforeHandler

\* An answer without a file, or the one for the directory.
LEMMA AnswerStep ==
  ASSUME IInv, NEW c \in Conns, RequestInv', ~down, pc[c] \in {"handle", "written", "failed"},
         NEW status, NEW length, NEW body, Finish(c, status, length, body),
         UNCHANGED <<files, history>>,
         IF call[c].handle = "fileread" /\ status = 200 THEN File(c) \in Directories
         ELSE length \in {0, Len(body)}
  PROVE  IInv'
<1> USE DEF IInv, Finish, history
<1>1. /\ pc'[c] = "done" /\ resp'[c] = [status |-> status, length |-> length, body |-> body]
      /\ \A d \in Conns \ {c} : pc'[d] = pc[d] /\ resp'[d] = resp[d]
      /\ call' = call /\ files' = files /\ stored' = stored /\ damaged' = damaged
      /\ disturbed' = disturbed /\ seen' = seen /\ down' = down
  BY DEF TypeInv, RequestInv
<1>2. \A d : File(d)' = File(d)
  BY <1>1, SameFile
<1>3. \A d \in Conns : pc'[d] \in {"stream", "write", "written"} \/ pc[d] = "write" => d # c
  BY <1>1
<1>4. TypeInv'
  BY DEF TypeInv
<1>5. CallInv'
  BY <1>1, <1>3, KeepsCalls
<1>6. OverlapInv'
  BY <1>1, <1>2, <1>3, KeepsOverlap
<1>7. StreamInv'
  BY <1>1, <1>2, <1>3, KeepsStream
<1>8. AnswerInv(c)'
  BY <1>1, <1>2 DEF AnswerInv, IsRead
<1>9. \A d \in Conns \ {c} : AnswerInv(d)'
  BY <1>1, KeepsAnswer
<1>10. FileIsLastPost'
  BY <1>1, <1>2, <1>3, KeepsPosts
<1>11. DownOnlyFrom'
  BY <1>1 DEF DownOnlyFrom
<1> QED
  BY <1>4, <1>5, <1>6, <1>7, <1>8, <1>9, <1>10, <1>11

\* The end of the process, for one of the reasons that DownOnlyFrom lists.
LEMMA EndStep ==
  ASSUME IInv, RequestInv', End, UNCHANGED <<files, seen, disturbed, stored, damaged>>,
         failure' \/ cut' # {} \/ \E c \in Conns : Unsized(c) \/ (Bodyless(c) /\ call[c].gzip)
  PROVE  IInv'
<1> USE DEF IInv
<1>1. /\ pc' = pc /\ call' = call /\ resp' = resp /\ files' = files /\ stored' = stored
      /\ damaged' = damaged /\ disturbed' = disturbed /\ seen' = seen
  BY DEF End
<1>2. \A d : File(d)' = File(d)
  BY <1>1, SameFile
<1>3. TypeInv'
  BY <1>1 DEF TypeInv
<1>4. CallInv'
  BY <1>1, KeepsCalls
<1>5. OverlapInv'
  BY <1>1, <1>2, KeepsOverlap
<1>6. StreamInv'
  BY <1>1, <1>2, KeepsStream
<1>7. \A d \in Conns : AnswerInv(d)'
  BY <1>1, KeepsAnswer
<1>8. FileIsLastPost'
  BY <1>1, <1>2, KeepsPosts
<1>9. DownOnlyFrom'
  BY <1>1, <1>2 DEF DownOnlyFrom, Bodyless, Unsized
<1> QED
  BY <1>3, <1>4, <1>5, <1>6, <1>7, <1>8, <1>9

\* Send ends the process if gzip is accepted, and answers otherwise.
LEMMA SendStep ==
  ASSUME IInv, NEW c \in Conns, RequestInv', ~down, pc[c] \in {"handle", "written", "failed"},
         NEW status, Send(c, status), UNCHANGED <<files, history>>,
         Bodyless(c), ~(call[c].handle = "fileread" /\ status = 200)
  PROVE  IInv'
<1>1. CASE call[c].gzip
  <2>1. End
    BY <1>1, Zenon DEF Send
  <2> QED
    BY <1>1, <2>1, EndStep DEF history
<1>2. CASE ~call[c].gzip
  <2> DEFINE length == 0
             body == <<>>
  <2>1. length \in {0, Len(body)}
    OBVIOUS
  <2>2. Finish(c, status, length, body)
    BY <1>2, Zenon DEF Send
  <2> HIDE DEF length, body
  <2> QED
    BY <2>1, <2>2, AnswerStep
<1> QED
  BY <1>1, <1>2

\* SendPlain announces the length of what it sends.
LEMMA SendPlainStep ==
  ASSUME IInv, NEW c \in Conns, RequestInv', ~down, pc[c] \in {"handle", "written", "failed"},
         NEW status, NEW s, SendPlain(c, status, s), UNCHANGED <<files, history>>,
         call[c].handle # "fileread"
  PROVE  IInv'
<1> DEFINE body == Encoded(c, s)
           length == Len(body)
<1>1. Finish(c, status, length, body)
  BY Zenon DEF SendPlain
<1>2. length \in {0, Len(body)}
  OBVIOUS
<1> HIDE DEF length, body
<1> QED
  BY <1>1, <1>2, AnswerStep

-----------------------------------------------------------------------------
(* The steps that open, read and write files *)

\* Who opens a file that is being written is marked as overlapped.
LEMMA OpenFileStep ==
  ASSUME IInv, NEW c \in Conns, RequestInv', OpenFile(c)
  PROVE  IInv'
<1> USE DEF IInv
<1> DEFINE f == File(c)
<1>1. /\ ~down /\ pc[c] = "handle" /\ call[c].handle = "fileread" /\ f \in Names
      /\ pc'[c] = "stream" /\ call' = call /\ files' = files /\ stored' = stored
      /\ damaged' = damaged /\ down' = down
      /\ resp' = [resp EXCEPT ![c] = [status |-> 200, length |-> Len(files[f]), body |-> <<>>]]
      /\ seen' = [seen EXCEPT ![c] = files[f]]
      /\ disturbed' = IF Writing(c, f) = {} THEN disturbed ELSE disturbed \cup {c}
      /\ \A d \in Conns \ {c} : pc'[d] = pc[d]
  BY DEF OpenFile, Handle, At, Goto, TypeInv, RequestInv
<1>2. \A d : File(d)' = File(d)
  BY <1>1, SameFile
<1>3. /\ resp'[c].length = Len(files[f]) /\ resp'[c].body = <<>> /\ seen'[c] = files[f]
      /\ \A d \in Conns \ {c} : resp'[d] = resp[d] /\ seen'[d] = seen[d]
  BY <1>1 DEF TypeInv
<1>4. \A d \in Conns \ {c} : d \in disturbed' <=> d \in disturbed
  BY <1>1
<1>5. \A d \in Conns \ {c} : pc[d] = "write" /\ File(d) = f => c \in disturbed'
  <2>1. ASSUME NEW d \in Conns \ {c}, pc[d] = "write", File(d) = f PROVE d \in Writing(c, f)
    BY <2>1 DEF Writing, Open
  <2> HIDE DEF f
  <2> QED
    BY <1>1, <2>1
<1>6. files[f] \in Seq(Blocks)
  BY <1>1 DEF TypeInv
<1> HIDE DEF f
<1>7. TypeInv'
  BY <1>1, <1>6, ZenonT(60) DEF TypeInv
<1>8. CallInv'
  BY <1>1, <1>2 DEF CallInv, f
<1>9. OverlapInv'
  BY <1>1, <1>2, <1>4, <1>5 DEF OverlapInv, f
<1>10. StreamInv'
  <2>1. ASSUME NEW d \in Conns \ {c}, pc'[d] = "stream"
        PROVE  /\ resp'[d].body \in Seq(Blocks)
               /\ d \notin disturbed' =>
                    /\ files'[File(d)'] = seen'[d] /\ resp'[d].length = Len(seen'[d])
                    /\ Len(resp'[d].body) <= Len(seen'[d])
                    /\ \A i \in 1 .. Len(resp'[d].body) : resp'[d].body[i] = seen'[d][i]
    BY <1>1, <1>2, <1>3, <1>4, <2>1 DEF StreamInv
  <2>2. /\ resp'[c].body \in Seq(Blocks) /\ files'[File(c)'] = seen'[c]
        /\ resp'[c].length = Len(seen'[c])
        /\ Len(resp'[c].body) <= Len(seen'[c])
        /\ \A i \in 1 .. Len(resp'[c].body) : resp'[c].body[i] = seen'[c][i]
    <3>1. ASSUME NEW S, NEW s \in Seq(S)
          PROVE  <<>> \in Seq(S) /\ Len(<<>>) <= Len(s) /\ 1 .. Len(<<>>) = {}
      BY <3>1
    <3>2. files'[File(c)'] = seen'[c]
      BY <1>1, <1>2, <1>3 DEF f
    <3>3. resp'[c].body = <<>> /\ seen'[c] = files[f] /\ resp'[c].length = Len(seen'[c])
      BY <1>3
    <3> QED
      BY <1>6, <3>1, <3>2, <3>3
  <2> QED
    BY <2>1, <2>2 DEF StreamInv
<1>11. \A d \in Conns : AnswerInv(d)'
  <2>1. AnswerInv(c)'
    BY <1>1 DEF AnswerInv
  <2> QED
    BY <1>1, <1>3, <1>4, <2>1, KeepsAnswer
<1>12. FileIsLastPost'
  BY <1>1, <1>2, KeepsPosts
<1>13. DownOnlyFrom'
  BY <1>1 DEF DownOnlyFrom
<1> QED
  BY <1>7, <1>8, <1>9, <1>10, <1>11, <1>12, <1>13

\* A Read adds the next block of the content that was seen.
LEMMA ReadBlockStep ==
  ASSUME IInv, NEW c \in Conns, RequestInv', ReadBlock(c)
  PROVE  IInv'
<1> USE DEF IInv
<1> DEFINE f == File(c)
           body == resp[c].body
           block == files[f][Len(body) + 1]
<1>1. /\ ~down /\ pc[c] = "stream" /\ Len(body) < Len(files[f])
      /\ resp' = [resp EXCEPT ![c].body = Append(@, block)]
      /\ down' = down /\ pc' = pc /\ call' = call /\ files' = files /\ stored' = stored
      /\ damaged' = damaged /\ disturbed' = disturbed /\ seen' = seen
  BY DEF ReadBlock, At, history
<1>2. \A d : File(d)' = File(d)
  BY <1>1, SameFile
<1>3. f \in Names /\ body \in Seq(Blocks) /\ files[f] \in Seq(Blocks)
  BY <1>1 DEF CallInv, StreamInv, TypeInv
<1>4. /\ Len(body) \in Nat /\ Len(files[f]) \in Nat /\ block \in Blocks
      /\ Append(body, block) \in Seq(Blocks) /\ Len(Append(body, block)) = Len(body) + 1
      /\ \A i \in 1 .. Len(body) : Append(body, block)[i] = body[i]
      /\ Append(body, block)[Len(body) + 1] = block
  <2>1. Len(body) \in Nat /\ Len(files[f]) \in Nat
    BY <1>3
  <2>2. block \in Blocks
    BY <1>1, <1>3, <2>1
  <2> HIDE DEF body, f, block
  <2> QED
    BY <1>3, <2>1, <2>2, AppendProperties
<1>5. resp'[c].body = Append(body, block) /\ resp'[c].length = resp[c].length
      /\ \A d \in Conns \ {c} : resp'[d] = resp[d]
  <2>1. /\ resp = [d \in Conns |-> [status |-> resp[d].status, length |-> resp[d].length,
                                    body |-> resp[d].body]]
        /\ resp' = [resp EXCEPT ![c].body = Append(body, block)]
    BY <1>1, Zenon DEF TypeInv
  <2> HIDE DEF IInv, f, block
  <2> QED
    BY <2>1
<1>6. TypeInv'
  <2>1. resp' = [d \in Conns |-> [status |-> resp'[d].status, length |-> resp'[d].length,
                                 body |-> resp'[d].body]]
    <3>1. resp[c] = [status |-> resp[c].status, length |-> resp[c].length, body |-> resp[c].body]
      BY DEF TypeInv
    <3>2. resp'[c] = [status |-> resp[c].status, length |-> resp[c].length,
                      body |-> Append(body, block)]
      <4> DEFINE old == resp[c]
      <4>1. resp'[c] = [old EXCEPT !.body = Append(body, block)]
        BY <1>1 DEF TypeInv
      <4> QED
        BY <3>1, <4>1
    <3>3. resp' = [d \in Conns |-> resp'[d]]
      BY <1>1 DEF TypeInv
    <3>4. \A d \in Conns : resp'[d] = [status |-> resp'[d].status, length |-> resp'[d].length,
                                      body |-> resp'[d].body]
      BY <1>5, <3>2 DEF TypeInv
    <3> QED
      BY <3>3, <3>4
  <2> QED
    BY <1>1, <2>1 DEF TypeInv
<1>7. CallInv'
  BY <1>1, KeepsCalls
<1>8. OverlapInv'
  BY <1>1, <1>2, KeepsOverlap
<1>9. StreamInv'
  <2>1. ASSUME NEW d \in Conns \ {c}, pc'[d] = "stream"
        PROVE  /\ resp'[d].body \in Seq(Blocks)
               /\ d \notin disturbed' =>
                    /\ files'[File(d)'] = seen'[d] /\ resp'[d].length = Len(seen'[d])
                    /\ Len(resp'[d].body) <= Len(seen'[d])
                    /\ \A i \in 1 .. Len(resp'[d].body) : resp'[d].body[i] = seen'[d][i]
    BY <1>1, <1>2, <1>5, <2>1 DEF StreamInv
  <2>2. ASSUME c \notin disturbed
        PROVE  /\ files[f] = seen[c] /\ resp'[c].length = Len(seen[c])
               /\ Len(resp'[c].body) <= Len(seen[c])
               /\ \A i \in 1 .. Len(resp'[c].body) : resp'[c].body[i] = seen[c][i]
    <3>1. /\ files[f] = seen[c] /\ resp[c].length = Len(seen[c])
          /\ \A i \in 1 .. Len(body) : body[i] = seen[c][i]
      BY <1>1, <2>2 DEF StreamInv
    <3>2. block = seen[c][Len(body) + 1]
      BY <3>1
    <3> HIDE DEF body, f, block
    <3> QED
      BY <1>1, <1>4, <1>5, <3>1, <3>2
  <2> QED
    BY <1>1, <1>2, <1>4, <1>5, <2>1, <2>2 DEF StreamInv
<1>10. \A d \in Conns : AnswerInv(d)'
  BY <1>1, <1>5, KeepsAnswer
<1>11. FileIsLastPost'
  BY <1>1, <1>2, KeepsPosts
<1>12. DownOnlyFrom'
  BY <1>1 DEF DownOnlyFrom
<1> QED
  BY <1>6, <1>7, <1>8, <1>9, <1>10, <1>11, <1>12

\* What has been read at the end is the whole content.
LEMMA ReadEofStep ==
  ASSUME IInv, NEW c \in Conns, RequestInv', ReadEof(c)
  PROVE  IInv'
<1> USE DEF IInv
<1> DEFINE f == File(c)
           body == resp[c].body
           sent == Encoded(c, body)
           length == IF call[c].gzip THEN Len(sent) ELSE resp[c].length
<1>1. /\ ~down /\ pc[c] = "stream" /\ Len(body) >= Len(files[f])
      /\ resp' = [resp EXCEPT ![c] = [status |-> 200, length |-> length, body |-> sent]]
      /\ pc' = [pc EXCEPT ![c] = "done"]
      /\ down' = down /\ call' = call /\ files' = files /\ stored' = stored
      /\ damaged' = damaged /\ disturbed' = disturbed /\ seen' = seen
  BY DEF ReadEof, At, Finish, history
<1>2. \A d : File(d)' = File(d)
  BY <1>1, SameFile
<1>3. f \in Names /\ body \in Seq(Blocks) /\ files[f] \in Seq(Blocks) /\ seen[c] \in Seq(Blocks)
  BY <1>1 DEF CallInv, StreamInv, TypeInv
<1>4. c \notin disturbed => body = seen[c] /\ resp[c].length = Len(body)
  <2> SUFFICES ASSUME c \notin disturbed PROVE body = seen[c] /\ resp[c].length = Len(body)
    OBVIOUS
  <2>1. /\ files[f] = seen[c] /\ resp[c].length = Len(seen[c])
        /\ Len(body) <= Len(seen[c])
        /\ \A i \in 1 .. Len(body) : body[i] = seen[c][i]
    BY <1>1 DEF StreamInv
  <2>2. Len(body) = Len(seen[c])
    <3>1. Len(body) \in Nat /\ Len(seen[c]) \in Nat
      BY <1>3
    <3> HIDE DEF body, f
    <3> QED
      BY <1>1, <2>1, <3>1
  <2> HIDE DEF body, f
  <2>3. body = seen[c]
    BY <1>3, <2>1, <2>2, SeqEqual
  <2> QED
    BY <2>1, <2>3
<1>5. /\ pc'[c] = "done" /\ resp'[c] = [status |-> 200, length |-> length, body |-> sent]
      /\ \A d \in Conns \ {c} : pc'[d] = pc[d] /\ resp'[d] = resp[d]
  BY <1>1 DEF TypeInv, RequestInv
<1>6. \A d \in Conns : pc'[d] \in {"stream", "write", "written"} \/ pc[d] = "write" => d # c
  BY <1>1, <1>5
<1>7. TypeInv'
  BY <1>1, ZenonT(60) DEF TypeInv
<1>8. CallInv'
  BY <1>1, <1>5, <1>6, KeepsCalls
<1>9. OverlapInv'
  BY <1>1, <1>2, <1>5, <1>6, KeepsOverlap
<1>10. StreamInv'
  BY <1>1, <1>2, <1>5, <1>6, KeepsStream
<1>11. AnswerInv(c)'
  <2>1. c \notin disturbed => sent = Encoded(c, seen[c])
    <3> HIDE DEF body
    <3> QED
      BY <1>4
  <2>2. call[c].gzip \/ c \notin disturbed => length = Len(sent)
    <3>1. CASE call[c].gzip
      BY <3>1
    <3>2. CASE ~call[c].gzip /\ c \notin disturbed
      <4>1. sent = body
        BY <3>2 DEF Encoded
      <4> QED
        BY <1>4, <3>2, <4>1
    <3> QED
      BY <3>1, <3>2
  <2>3. resp'[c].body = sent /\ resp'[c].length = length /\ resp'[c].status = 200
    BY <1>5
  <2>4. Encoded(c, seen[c])' = Encoded(c, seen[c])
    BY <1>1 DEF Encoded
  <2>5. call[c].handle = "fileread"
    BY <1>1 DEF CallInv
  <2> HIDE DEF sent, length
  <2> QED
    BY <1>1, <2>1, <2>2, <2>3, <2>4, <2>5 DEF AnswerInv
<1>12. \A d \in Conns \ {c} : AnswerInv(d)'
  BY <1>1, <1>5, KeepsAnswer
<1>13. FileIsLastPost'
  BY <1>1, <1>2, <1>5, <1>6, KeepsPosts
<1>14. DownOnlyFrom'
  BY <1>1 DEF DownOnlyFrom
<1> QED
  BY <1>7, <1>8, <1>9, <1>10, <1>11, <1>12, <1>13, <1>14

\* A POST that empties a file marks everybody who has it open.
LEMMA CreateFileStep ==
  ASSUME IInv, NEW c \in Conns, RequestInv', CreateFile(c)
  PROVE  IInv'
<1> USE DEF IInv
<1> DEFINE f == File(c)
<1>1. /\ ~down /\ pc[c] = "handle" /\ call[c].handle = "filewrite" /\ f \in Names
      /\ files' = [files EXCEPT ![f] = <<>>] /\ pc' = [pc EXCEPT ![c] = "write"]
      /\ disturbed' = disturbed \cup Open(c, f) \cup (IF Writing(c, f) = {} THEN {} ELSE {c})
      /\ down' = down /\ call' = call /\ resp' = resp /\ stored' = stored
      /\ damaged' = damaged /\ seen' = seen
  BY DEF CreateFile, Handle, At, Goto
<1>2. \A d : File(d)' = File(d)
  BY <1>1, SameFile
<1>3. pc'[c] = "write" /\ \A d \in Conns \ {c} : pc'[d] = pc[d]
  BY <1>1 DEF TypeInv, RequestInv
<1>4. files'[f] = <<>> /\ \A g \in Names \ {f} : files'[g] = files[g]
  BY <1>1 DEF TypeInv
<1>5. /\ disturbed \subseteq disturbed'
      /\ \A d \in Conns \ {c} : pc[d] \in {"stream", "write"} /\ File(d) = f => d \in disturbed'
      /\ \A d \in Conns \ {c} : pc[d] = "write" /\ File(d) = f => c \in disturbed'
  <2>1. \A d \in Conns \ {c} : pc[d] \in {"stream", "write"} /\ File(d) = f => d \in Open(c, f)
    BY DEF Open
  <2>2. \A d \in Conns \ {c} : pc[d] = "write" /\ File(d) = f => d \in Writing(c, f)
    BY DEF Writing, Open
  <2> HIDE DEF f
  <2> QED
    BY <1>1, <2>1, <2>2
<1>6. TypeInv'
  <2>1. <<>> \in Seq(Blocks)
    OBVIOUS
  <2> HIDE DEF f
  <2> QED
    BY <1>1, <2>1 DEF TypeInv
<1>7. CallInv'
  BY <1>1, <1>2, <1>3 DEF CallInv
<1>8. OverlapInv'
  <2>1. ASSUME NEW d \in Conns, NEW e \in Conns \ {d}, pc'[d] \in {"stream", "write"},
               pc'[e] = "write", File(d) = File(e)
        PROVE  d \in disturbed'
    <3>1. CASE d = c
      BY <1>3, <1>5, <2>1, <3>1
    <3>2. CASE e = c
      BY <1>3, <1>5, <2>1, <3>2
    <3>3. CASE d # c /\ e # c
      BY <1>3, <1>5, <2>1, <3>3 DEF OverlapInv
    <3> QED
      BY <3>1, <3>2, <3>3
  <2>2. ASSUME NEW d \in Conns, pc'[d] = "write", d \notin disturbed'
        PROVE  files'[File(d)] = <<>>
    <3>1. CASE File(d) = f
      BY <1>4, <3>1
    <3>2. CASE File(d) # f
      <4>1. pc[d] = "write" /\ d \notin disturbed
        BY <1>3, <1>5, <2>2, <3>2
      <4> QED
        BY <1>4, <3>2, <4>1 DEF OverlapInv, CallInv
    <3> QED
      BY <3>1, <3>2
  <2> QED
    BY <1>2, <2>1, <2>2 DEF OverlapInv
<1>9. StreamInv'
  <2> SUFFICES ASSUME NEW d \in Conns, pc'[d] = "stream"
               PROVE  /\ resp'[d].body \in Seq(Blocks)
                      /\ d \notin disturbed' =>
                           /\ files'[File(d)'] = seen'[d] /\ resp'[d].length = Len(seen'[d])
                           /\ Len(resp'[d].body) <= Len(seen'[d])
                           /\ \A i \in 1 .. Len(resp'[d].body) : resp'[d].body[i] = seen'[d][i]
    BY DEF StreamInv
  <2>1. d # c /\ pc[d] = "stream" /\ File(d) \in Names
    BY <1>3 DEF CallInv
  <2>2. d \notin disturbed' => d \notin disturbed /\ File(d) # f
    BY <1>5, <2>1
  <2>3. d \notin disturbed' => files'[File(d)'] = files[File(d)]
    BY <1>2, <1>4, <2>1, <2>2
  <2> QED
    BY <1>1, <1>2, <2>1, <2>2, <2>3 DEF StreamInv
<1>10. \A d \in Conns : AnswerInv(d)'
  <2>1. \A d \in Conns : d \in disturbed => d \in disturbed'
    BY <1>5
  <2> QED
    BY <1>1, <1>3, <2>1, KeepsAnswer
<1>11. FileIsLastPost'
  <2> SUFFICES ASSUME NEW g \in Names \ damaged', \A d \in Conns : pc'[d] = "write" => File(d)' # g
               PROVE  files'[g] = stored'[g]
    BY DEF FileIsLastPost
  <2>1. g # f /\ \A d \in Conns : pc[d] = "write" => File(d) # g
    BY <1>1, <1>2, <1>3
  <2> QED
    BY <1>1, <1>4, <2>1 DEF FileIsLastPost
<1>12. DownOnlyFrom'
  BY <1>1 DEF DownOnlyFrom
<1> QED
  BY <1>6, <1>7, <1>8, <1>9, <1>10, <1>11, <1>12

\* A write into an empty file makes it the body.
LEMMA OverlaidIs ==
  ASSUME NEW S, NEW s \in Seq(S), NEW body \in Seq(S)
  PROVE  /\ Overlaid(s, body) \in Seq(S)
         /\ s = <<>> => Overlaid(s, body) = body
<1> DEFINE rest == SubSeq(s, Len(body) + 1, Len(s))
<1>1. Len(body) \in Nat /\ Len(s) \in Nat
  OBVIOUS
<1>2. rest \in Seq(S)
  <2>1. \A i \in Len(body) + 1 .. Len(s) : s[i] \in S
    BY <1>1
  <2> QED
    BY <1>1, <2>1, SubSeqProperties
<1>3. s = <<>> => rest = <<>>
  <2>1. s = <<>> => Len(s) < Len(body) + 1
    BY <1>1
  <2> QED
    BY <1>1, <2>1, SubSeqEmpty
<1> HIDE DEF rest
<1>4. body \o rest \in Seq(S) /\ body \o <<>> = body
  BY <1>2, ConcatProperties, ConcatEmptySeq
<1> QED
  BY <1>3, <1>4 DEF Overlaid, rest

\* A write that nobody overlapped leaves the body behind.
LEMMA WriteFileStep ==
  ASSUME IInv, NEW c \in Conns, RequestInv', WriteFile(c)
  PROVE  IInv'
<1> USE DEF IInv
<1> DEFINE f == File(c)
           body == call[c].body
           content == Overlaid(files[f], body)
<1>1. /\ ~down /\ pc[c] = "write"
      /\ files' = [files EXCEPT ![f] = content] /\ pc' = [pc EXCEPT ![c] = "written"]
      /\ stored' = [stored EXCEPT ![f] = body]
      /\ damaged' = IF c \in disturbed THEN damaged \cup {f} ELSE damaged \ {f}
      /\ down' = down /\ call' = call /\ resp' = resp
      /\ disturbed' = disturbed /\ seen' = seen
  BY DEF WriteFile, At, Goto
<1>2. \A d : File(d)' = File(d)
  BY <1>1, SameFile
<1>3. pc'[c] = "written" /\ \A d \in Conns \ {c} : pc'[d] = pc[d]
  BY <1>1 DEF TypeInv, RequestInv
<1>4. f \in Names /\ files[f] \in Seq(Blocks) /\ body \in Seq(Blocks)
  BY <1>1, BodyIs DEF CallInv, TypeInv
<1>5. content \in Seq(Blocks) /\ (files[f] = <<>> => content = body)
  <2> DEFINE old == files[f]
  <2>1. old \in Seq(Blocks) /\ body \in Seq(Blocks) /\ old = files[f]
    BY <1>4
  <2>2. content = Overlaid(old, body)
    OBVIOUS
  <2> HIDE DEF old, body, content, f
  <2>3. Overlaid(old, body) \in Seq(Blocks) /\ (old = <<>> => Overlaid(old, body) = body)
    BY <2>1, OverlaidIs
  <2> QED
    BY <2>1, <2>2, <2>3
<1>6. c \notin disturbed => content = body
  BY <1>1, <1>5 DEF OverlapInv
<1>7. \A d \in Conns \ {c} : pc[d] \in {"stream", "write"} /\ File(d) = f => d \in disturbed
  BY <1>1 DEF OverlapInv
<1> HIDE DEF content, body
<1>8. /\ files'[f] = content /\ stored'[f] = body
      /\ \A g \in Names \ {f} : files'[g] = files[g] /\ stored'[g] = stored[g]
  BY <1>1, <1>4 DEF TypeInv
<1>9. TypeInv'
  <2> HIDE DEF f
  <2> QED
    BY <1>1, <1>4, <1>5 DEF TypeInv
<1>10. CallInv'
  BY <1>1, <1>2, <1>3 DEF CallInv
<1>11. OverlapInv'
  <2>1. ASSUME NEW d \in Conns, NEW e \in Conns \ {d}, pc'[d] \in {"stream", "write"},
               pc'[e] = "write", File(d) = File(e)
        PROVE  d \in disturbed'
    BY <1>1, <1>3, <2>1 DEF OverlapInv
  <2>2. ASSUME NEW d \in Conns, pc'[d] = "write", d \notin disturbed'
        PROVE  files'[File(d)] = <<>>
    <3>1. d # c /\ pc[d] = "write" /\ d \notin disturbed
      BY <1>1, <1>3, <2>2
    <3>2. File(d) \in Names \ {f}
      BY <1>7, <3>1 DEF CallInv
    <3> QED
      BY <1>8, <3>1, <3>2 DEF OverlapInv
  <2> QED
    BY <1>2, <2>1, <2>2 DEF OverlapInv
<1>12. StreamInv'
  <2> SUFFICES ASSUME NEW d \in Conns, pc'[d] = "stream"
               PROVE  /\ resp'[d].body \in Seq(Blocks)
                      /\ d \notin disturbed' =>
                           /\ files'[File(d)'] = seen'[d] /\ resp'[d].length = Len(seen'[d])
                           /\ Len(resp'[d].body) <= Len(seen'[d])
                           /\ \A i \in 1 .. Len(resp'[d].body) : resp'[d].body[i] = seen'[d][i]
    BY DEF StreamInv
  <2>1. d # c /\ pc[d] = "stream" /\ File(d) \in Names
    BY <1>3 DEF CallInv
  <2>2. d \notin disturbed => File(d) # f
    BY <1>7, <2>1
  <2>3. d \notin disturbed => files'[File(d)'] = files[File(d)]
    BY <1>2, <1>8, <2>1, <2>2
  <2> QED
    BY <1>1, <1>2, <2>1, <2>2, <2>3 DEF StreamInv
<1>13. \A d \in Conns : AnswerInv(d)'
  BY <1>1, <1>3, KeepsAnswer
<1>14. FileIsLastPost'
  <2> SUFFICES ASSUME NEW g \in Names \ damaged', \A d \in Conns : pc'[d] = "write" => File(d)' # g
               PROVE  files'[g] = stored'[g]
    BY DEF FileIsLastPost
  <2>1. CASE g = f
    BY <1>1, <1>6, <1>8, <2>1
  <2>2. CASE g # f
    <3>1. g \notin damaged /\ \A d \in Conns : pc[d] = "write" => File(d) # g
      BY <1>1, <1>2, <1>3, <2>2
    <3> QED
      BY <1>8, <2>2, <3>1 DEF FileIsLastPost
  <2> QED
    BY <2>1, <2>2
<1>15. DownOnlyFrom'
  BY <1>1 DEF DownOnlyFrom
<1> QED
  BY <1>9, <1>10, <1>11, <1>12, <1>13, <1>14, <1>15

\* A Read that fails ends the process, or an answer that is marked as disturbed.
LEMMA ReadFailsStep ==
  ASSUME IInv, NEW c \in Conns, RequestInv', ReadFails(c)
  PROVE  IInv'
<1>1. CASE call[c].gzip
  <2>1. End /\ failure' = TRUE /\ UNCHANGED <<files, seen, disturbed, stored, damaged>>
    BY <1>1 DEF ReadFails
  <2> QED
    BY <2>1, EndStep
<1>2. CASE ~call[c].gzip
  <2> DEFINE length == resp[c].length
             body == resp[c].body
  <2>1. /\ ~down /\ pc[c] = "stream"
        /\ resp' = [resp EXCEPT ![c] = [status |-> 200, length |-> length, body |-> body]]
        /\ pc' = [pc EXCEPT ![c] = "done"] /\ disturbed' = disturbed \cup {c}
        /\ down' = down /\ call' = call /\ files' = files /\ stored' = stored
        /\ damaged' = damaged /\ seen' = seen
    BY <1>2 DEF ReadFails, At, Finish
  <2> HIDE DEF length, body
  <2> USE DEF IInv
  <2>2. \A d : File(d)' = File(d)
    BY <2>1, SameFile
  <2>3. pc'[c] = "done" /\ \A d \in Conns \ {c} : pc'[d] = pc[d] /\ resp'[d] = resp[d]
    BY <2>1 DEF TypeInv, RequestInv
  <2>4. \A d \in Conns : pc'[d] \in {"stream", "write", "written"} \/ pc[d] = "write" => d # c
    BY <2>1, <2>3
  <2>5. \A d \in Conns : d \in disturbed => d \in disturbed'
    BY <2>1
  <2>6. TypeInv'
    BY <2>1, ZenonT(60) DEF TypeInv
  <2>7. CallInv'
    BY <2>1, <2>3, <2>4, KeepsCalls
  <2>8. OverlapInv'
    BY <2>1, <2>2, <2>3, <2>4, <2>5, KeepsOverlap
  <2>9. StreamInv'
    BY <2>1, <2>2, <2>3, <2>4, <2>5, KeepsStream
  <2>10. AnswerInv(c)'
    <3>1. call[c].handle = "fileread" /\ c \in disturbed' /\ resp'[c].status = 200
      BY <2>1 DEF CallInv, TypeInv
    <3> QED
      BY <1>2, <2>1, <3>1 DEF AnswerInv
  <2>11. \A d \in Conns \ {c} : AnswerInv(d)'
    BY <2>1, <2>3, <2>5, KeepsAnswer
  <2>12. FileIsLastPost'
    BY <2>1, <2>2, <2>3, <2>4, KeepsPosts
  <2>13. DownOnlyFrom'
    BY <2>1 DEF DownOnlyFrom
  <2> QED
    BY <2>6, <2>7, <2>8, <2>9, <2>10, <2>11, <2>12, <2>13
<1> QED
  BY <1>1, <1>2

\* A Write that fails leaves a damaged file, and every other file as it was.
LEMMA WriteFailsStep ==
  ASSUME IInv, NEW c \in Conns, RequestInv', WriteFails(c)
  PROVE  IInv'
<1> USE DEF IInv
<1> DEFINE f == File(c)
           body == call[c].body
<1>1. PICK n \in 0 .. Len(body) - 1 :
        files' = [files EXCEPT ![f] = Overlaid(@, SubSeq(body, 1, n))]
  BY Zenon DEF WriteFails
<1> DEFINE part == SubSeq(body, 1, n)
           content == Overlaid(files[f], part)
<1>2. /\ ~down /\ pc[c] = "write"
      /\ files' = [files EXCEPT ![f] = content] /\ pc' = [pc EXCEPT ![c] = "failed"]
      /\ damaged' = damaged \cup {f}
      /\ down' = down /\ call' = call /\ resp' = resp /\ stored' = stored
      /\ disturbed' = disturbed /\ seen' = seen
  BY <1>1 DEF WriteFails, At, Goto
<1>3. \A d : File(d)' = File(d)
  BY <1>2, SameFile
<1>4. pc'[c] = "failed" /\ \A d \in Conns \ {c} : pc'[d] = pc[d]
  BY <1>2 DEF TypeInv, RequestInv
<1>5. f \in Names /\ files[f] \in Seq(Blocks) /\ body \in Seq(Blocks)
  BY <1>2, BodyIs DEF CallInv, TypeInv
<1>6. content \in Seq(Blocks)
  <2> DEFINE old == files[f]
  <2>1. Len(body) \in Nat /\ \A i \in 1 .. n : body[i] \in Blocks
    BY <1>1, <1>5
  <2>2. part \in Seq(Blocks)
    BY <1>1, <2>1, SubSeqProperties
  <2>3. old \in Seq(Blocks) /\ content = Overlaid(old, part)
    BY <1>5
  <2> HIDE DEF old, part, content, body, f
  <2>4. Overlaid(old, part) \in Seq(Blocks)
    BY <2>2, <2>3, OverlaidIs
  <2> QED
    BY <2>3, <2>4
<1>7. \A d \in Conns \ {c} : pc[d] \in {"stream", "write"} /\ File(d) = f => d \in disturbed
  BY <1>2 DEF OverlapInv
<1> HIDE DEF content, part, body
<1>8. files'[f] = content /\ \A g \in Names \ {f} : files'[g] = files[g]
  BY <1>2, <1>5 DEF TypeInv
<1>9. TypeInv'
  <2> HIDE DEF f
  <2> QED
    BY <1>2, <1>5, <1>6 DEF TypeInv
<1>10. CallInv'
  BY <1>2, <1>3, <1>4 DEF CallInv
<1>11. OverlapInv'
  <2>1. ASSUME NEW d \in Conns, NEW e \in Conns \ {d}, pc'[d] \in {"stream", "write"},
               pc'[e] = "write", File(d) = File(e)
        PROVE  d \in disturbed'
    BY <1>2, <1>4, <2>1 DEF OverlapInv
  <2>2. ASSUME NEW d \in Conns, pc'[d] = "write", d \notin disturbed'
        PROVE  files'[File(d)] = <<>>
    <3>1. d # c /\ pc[d] = "write" /\ d \notin disturbed
      BY <1>2, <1>4, <2>2
    <3>2. File(d) \in Names \ {f}
      BY <1>7, <3>1 DEF CallInv
    <3> QED
      BY <1>8, <3>1, <3>2 DEF OverlapInv
  <2> QED
    BY <1>3, <2>1, <2>2 DEF OverlapInv
<1>12. StreamInv'
  <2> SUFFICES ASSUME NEW d \in Conns, pc'[d] = "stream"
               PROVE  /\ resp'[d].body \in Seq(Blocks)
                      /\ d \notin disturbed' =>
                           /\ files'[File(d)'] = seen'[d] /\ resp'[d].length = Len(seen'[d])
                           /\ Len(resp'[d].body) <= Len(seen'[d])
                           /\ \A i \in 1 .. Len(resp'[d].body) : resp'[d].body[i] = seen'[d][i]
    BY DEF StreamInv
  <2>1. d # c /\ pc[d] = "stream" /\ File(d) \in Names
    BY <1>4 DEF CallInv
  <2>2. d \notin disturbed => File(d) # f
    BY <1>7, <2>1
  <2>3. d \notin disturbed => files'[File(d)'] = files[File(d)]
    BY <1>3, <1>8, <2>1, <2>2
  <2> QED
    BY <1>2, <1>3, <2>1, <2>2, <2>3 DEF StreamInv
<1>13. \A d \in Conns : AnswerInv(d)'
  BY <1>2, <1>4, KeepsAnswer
<1>14. FileIsLastPost'
  <2> SUFFICES ASSUME NEW g \in Names \ damaged', \A d \in Conns : pc'[d] = "write" => File(d)' # g
               PROVE  files'[g] = stored'[g]
    BY DEF FileIsLastPost
  <2>1. g # f /\ g \notin damaged /\ \A d \in Conns : pc[d] = "write" => File(d) # g
    BY <1>2, <1>3, <1>4
  <2> QED
    BY <1>2, <1>8, <2>1 DEF FileIsLastPost
<1>15. DownOnlyFrom'
  BY <1>2 DEF DownOnlyFrom
<1> QED
  BY <1>9, <1>10, <1>11, <1>12, <1>13, <1>14, <1>15

\* A restart leaves the files as they are, and knows those that were being written.
LEMMA RestartStep ==
  ASSUME IInv, RequestInv', Restart
  PROVE  IInv'
<1> USE DEF IInv
<1>1. /\ down' = FALSE /\ pc' = [c \in Conns |-> "head"] /\ call' = [c \in Conns |-> NoCall]
      /\ resp' = [c \in Conns |-> NoResp] /\ seen' = [c \in Conns |-> <<>>]
      /\ damaged' = damaged \cup {File(c) : c \in {d \in Conns : pc[d] = "write"}}
      /\ files' = files /\ stored' = stored
  BY DEF Restart
<1>2. \A d \in Conns : pc'[d] = "head"
  BY <1>1
<1>3. TypeInv'
  <2>1. \A d \in Conns : seen'[d] \in Seq(Blocks)
    BY <1>1
  <2> QED
    BY <1>1, <2>1 DEF TypeInv, NoResp
<1>4. CallInv' /\ OverlapInv' /\ StreamInv' /\ \A d \in Conns : AnswerInv(d)'
  BY <1>2 DEF CallInv, OverlapInv, StreamInv, AnswerInv
<1>5. FileIsLastPost'
  <2> SUFFICES ASSUME NEW g \in Names \ damaged' PROVE files[g] = stored[g]
    BY <1>1 DEF FileIsLastPost
  <2>1. \A d \in Conns : pc[d] = "write" => File(d) # g
    BY <1>1
  <2> QED
    BY <1>1, <2>1 DEF FileIsLastPost
<1>6. DownOnlyFrom'
  BY <1>1 DEF DownOnlyFrom
<1> QED
  BY <1>3, <1>4, <1>5, <1>6

-----------------------------------------------------------------------------
(* Every step *)

\* The handlers keep the invariant.
LEMMA ServeStep ==
  ASSUME IInv, NEW c \in Conns, RequestInv', Serve(c)
  PROVE  IInv'
<1>1. RequestInv /\ CallInv
  BY DEF IInv, TypeInv
<1>2. CASE NotFound(c)
  <2>1. Handle(c, "notFound") /\ Send(c, 404) /\ UNCHANGED <<files, history>>
    BY <1>2 DEF NotFound
  <2> QED
    BY <2>1, SendStep DEF Handle, At, Bodyless
<1>3. CASE Root(c)
  <2>1. Handle(c, "root") /\ Send(c, 200) /\ UNCHANGED <<files, history>>
    BY <1>3 DEF Root
  <2> QED
    BY <2>1, SendStep DEF Handle, At, Bodyless
<1>4. CASE Echo(c)
  <2>1. Handle(c, "echo") /\ Exists(c, "command")
    BY <1>1, <1>4, VariableBound DEF Echo, Handle, At
  <2>2. SendPlain(c, 200, RouteVar(c, "command")) /\ UNCHANGED <<files, history>>
    BY <1>4, <2>1, Zenon DEF Echo
  <2> QED
    BY <2>1, <2>2, SendPlainStep DEF Handle, At
<1>5. CASE UserAgent(c)
  <2>1. /\ Handle(c, "uagent") /\ UNCHANGED <<files, history>>
        /\ \E status, body : SendPlain(c, status, body)
    BY <1>5, UserAgentSends
  <2> QED
    BY <2>1, SendPlainStep DEF Handle, At
<1>6. CASE ReadDirectory(c)
  <2>1. /\ Handle(c, "fileread") /\ File(c) \in Directories /\ UNCHANGED <<files, history>>
        /\ IF call[c].gzip THEN End ELSE Finish(c, 200, 1, <<>>)
    BY <1>6, Zenon DEF ReadDirectory
  <2>2. CASE call[c].gzip
    <3>1. End /\ Bodyless(c)
      BY <2>1, <2>2, HttpConstants DEF Bodyless, Handle, At
    <3> QED
      BY <2>1, <2>2, <3>1, EndStep DEF history
  <2>3. CASE ~call[c].gzip
    <3>1. Finish(c, 200, 1, <<>>)
      BY <2>1, <2>3, Zenon
    <3> QED
      BY <2>1, <3>1, AnswerStep DEF Handle, At
  <2> QED
    BY <2>2, <2>3
<1>7. CASE ReadNothing(c)
  <2>1. /\ Handle(c, "fileread") /\ Send(c, 404) /\ UNCHANGED <<files, history>>
        /\ File(c) \in Names => files[File(c)] = Missing
    BY <1>7, Zenon DEF ReadNothing
  <2> QED
    BY <2>1, SendStep DEF Handle, At, Bodyless
<1>8. CASE OpenFile(c)
  BY <1>8, OpenFileStep
<1>9. CASE ReadBlock(c)
  BY <1>9, ReadBlockStep
<1>10. CASE ReadEof(c)
  BY <1>10, ReadEofStep
<1>11. CASE OpenFails(c) \/ CreateFails(c) \/ StatFails(c)
  <2>1. PICK label \in {"head", "body", "handle", "failed", "silent"} : pc' = [pc EXCEPT ![c] = label]
    BY <1>11 DEF OpenFails, CreateFails, StatFails, Goto
  <2>2. /\ ~down /\ down' = down /\ pc[c] = "handle" /\ call' = call /\ resp' = resp
        /\ seen' = seen /\ disturbed' = disturbed /\ UNCHANGED <<files, stored, damaged>>
    BY <1>11 DEF OpenFails, CreateFails, StatFails, Handle, At, history
  <2>3. call' = [call EXCEPT ![c] = call[c]]
    BY <1>1, <2>2 DEF RequestInv
  <2> QED
    BY <2>1, <2>2, <2>3, BeforeHandlerKeeps
<1>12. CASE CreateFile(c)
  BY <1>12, CreateFileStep
<1>13. CASE WriteFile(c)
  BY <1>13, WriteFileStep
<1>14. CASE Created(c)
  <2>1. pc[c] = "written" /\ ~down /\ Send(c, 201) /\ UNCHANGED <<files, history>>
    BY <1>14 DEF Created, At
  <2>2. call[c].handle = "filewrite" /\ Bodyless(c)
    BY <1>1, <2>1 DEF CallInv, Bodyless
  <2> QED
    BY <2>1, <2>2, SendStep
<1>15. CASE Failed(c)
  <2>1. pc[c] = "failed" /\ ~down /\ Send(c, 500) /\ UNCHANGED <<files, history>>
    BY <1>15 DEF Failed, At
  <2>2. Bodyless(c)
    BY <2>1 DEF Bodyless
  <2> QED
    BY <2>1, <2>2, SendStep
<1>16. CASE ReadFails(c)
  BY <1>16, ReadFailsStep
<1>17. CASE WriteFails(c)
  BY <1>17, WriteFailsStep
<1> QED
  BY <1>2, <1>3, <1>4, <1>5, <1>6, <1>7, <1>8, <1>9, <1>10, <1>11, <1>12, <1>13, <1>14, <1>15,
     <1>16, <1>17 DEF Serve, Proceed, CallFails

\* Every step keeps the invariant.
LEMMA NextStep ==
  ASSUME IInv, [Next]_vars
  PROVE  IInv'
<1>1. RequestInv'
  BY RequestStep DEF IInv, TypeInv
<1>2. ASSUME NEW c \in Conns, Accept(c) PROVE IInv'
  <2>1. /\ ~down /\ down' = down /\ pc[c] \in {"done", "silent"} /\ pc' = [pc EXCEPT ![c] = "head"]
        /\ call' = [call EXCEPT ![c] = NoCall] /\ resp' = [resp EXCEPT ![c] = NoResp]
        /\ seen' = [seen EXCEPT ![c] = <<>>] /\ disturbed' = disturbed \ {c}
        /\ UNCHANGED <<files, stored, damaged>>
    BY <1>2 DEF Accept, At, Goto
  <2>2. <<>> \in Seq(Blocks)
    OBVIOUS
  <2>3. NoResp = [status |-> NoResp.status, length |-> NoResp.length, body |-> NoResp.body]
    BY DEF NoResp
  <2>4. \A d \in Conns \ {c} : d \in disturbed => d \in disturbed'
    BY <2>1
  <2> QED
    BY <1>1, <2>1, <2>2, <2>3, <2>4, BeforeHandler
<1>3. ASSUME NEW c \in Conns, ReadHead(c) PROVE IInv'
  <2>1. PICK r : /\ call' = [call EXCEPT ![c] = r]
                 /\ pc' = [pc EXCEPT ![c] = IF r.typed THEN "body" ELSE "handle"]
    BY <1>3, Zenon DEF ReadHead, Goto
  <2>2. PICK label \in {"head", "body", "handle", "failed", "silent"} : pc' = [pc EXCEPT ![c] = label]
    BY <2>1
  <2>3. /\ ~down /\ down' = down /\ pc[c] = "head" /\ resp' = resp /\ seen' = seen
        /\ disturbed' = disturbed /\ UNCHANGED <<files, stored, damaged>>
    BY <1>3, Zenon DEF ReadHead, At, history
  <2> QED
    BY <1>1, <2>1, <2>2, <2>3, BeforeHandlerKeeps
<1>4. ASSUME NEW c \in Conns, HeadCut(c) \/ BodyCut(c) PROVE IInv'
  <2>1. /\ End /\ cut' = cut \cup {c} /\ UNCHANGED <<files, failure, seen, disturbed, stored, damaged>>
    BY <1>4 DEF HeadCut, BodyCut
  <2>2. cut' # {}
    BY <2>1
  <2> QED
    BY <1>1, <2>1, <2>2, EndStep
<1>5. ASSUME NEW c \in Conns, ReadBody(c) PROVE IInv'
  <2>1. /\ ~down /\ down' = down /\ pc[c] = "body" /\ pc' = [pc EXCEPT ![c] = "handle"]
        /\ call' = call /\ resp' = resp /\ seen' = seen
        /\ disturbed' = disturbed /\ UNCHANGED <<files, stored, damaged>>
    BY <1>5 DEF ReadBody, At, Goto, history
  <2>2. call' = [call EXCEPT ![c] = call[c]]
    BY <2>1 DEF IInv, TypeInv, RequestInv
  <2>3. PICK label \in {"head", "body", "handle", "failed", "silent"} : pc' = [pc EXCEPT ![c] = label]
    BY <2>1
  <2> QED
    BY <1>1, <2>1, <2>2, <2>3, BeforeHandlerKeeps
<1>6. ASSUME NEW c \in Conns, Serve(c) PROVE IInv'
  BY <1>1, <1>6, ServeStep
<1>7. CASE Restart
  BY <1>1, <1>7, RestartStep
<1>8. CASE UNCHANGED vars
  <2>1. /\ down' = down /\ pc' = pc /\ call' = call /\ resp' = resp /\ files' = files
        /\ cut' = cut /\ failure' = failure /\ seen' = seen /\ disturbed' = disturbed /\ stored' = stored
        /\ damaged' = damaged
    BY <1>8 DEF vars, history
  <2>2. \A d : File(d)' = File(d)
    BY <2>1, SameFile
  <2>3. TypeInv'
    BY <1>1, <2>1 DEF IInv, TypeInv
  <2>4. CallInv' /\ OverlapInv' /\ StreamInv' /\ FileIsLastPost'
    BY <2>1, <2>2, KeepsCalls, KeepsOverlap, KeepsStream, KeepsPosts DEF IInv
  <2>5. \A d \in Conns : AnswerInv(d)'
    BY <2>1, KeepsAnswer DEF IInv
  <2>6. DownOnlyFrom'
    BY <2>1, <2>2 DEF IInv, DownOnlyFrom, Bodyless, Unsized
  <2> QED
    BY <2>3, <2>4, <2>5, <2>6 DEF IInv
<1>9. CASE AcceptFails
  <2>1. End /\ failure' = TRUE /\ UNCHANGED <<files, seen, disturbed, stored, damaged>>
    BY <1>9 DEF AcceptFails
  <2> QED
    BY <1>1, <2>1, EndStep
<1>10. ASSUME NEW c \in Conns, BadLength(c) PROVE IInv'
  <2>1. End /\ Unsized(c) /\ UNCHANGED <<files, seen, disturbed, stored, damaged>>
    BY <1>10 DEF BadLength, Unsized, At, history
  <2> QED
    BY <1>1, <2>1, EndStep
<1> QED
  BY <1>2, <1>3, <1>4, <1>5, <1>6, <1>7, <1>8, <1>9, <1>10 DEF Next

\* The server starts with every connection at its head, and with what the
\* directory holds counted as posted.
LEMMA InitIInv == Init => IInv
<1> SUFFICES ASSUME Init PROVE IInv
  OBVIOUS
<1>1. /\ down = FALSE /\ pc = [c \in Conns |-> "head"] /\ call = [c \in Conns |-> NoCall]
      /\ resp = [c \in Conns |-> NoResp] /\ seen = [c \in Conns |-> <<>>] /\ stored = files
      /\ files \in [Names -> {Missing, << <<"old", 1>> >>}]
  BY DEF Init
<1>2. Missing \in Seq(Blocks) /\ << <<"old", 1>> >> \in Seq(Blocks)
  <2>1. <<"missing", 0>> \in Blocks /\ <<"old", 1>> \in Blocks
    BY Zenon DEF Blocks
  <2>2. ASSUME NEW block \in Blocks PROVE <<block>> \in Seq(Blocks)
    OBVIOUS
  <2> QED
    BY <2>1, <2>2, Zenon DEF Missing
<1>3. TypeInv
  <2>1. RequestInv
    BY <1>1 DEF RequestInv, Points
  <2>2. files \in [Names -> Seq(Blocks)] /\ stored \in [Names -> Seq(Blocks)]
    BY <1>1, <1>2
  <2>3. \A c \in Conns : seen[c] \in Seq(Blocks)
    BY <1>1
  <2> QED
    BY <1>1, <2>1, <2>2, <2>3 DEF TypeInv, NoResp
<1>4. \A c \in Conns : pc[c] = "head"
  BY <1>1
<1> QED
  BY <1>1, <1>3, <1>4
  DEF IInv, CallInv, OverlapInv, StreamInv, AnswerInv, FileIsLastPost, DownOnlyFrom

\* The invariant holds in every state that the server reaches.
LEMMA InvariantHolds == Spec => []IInv
BY InitIInv, NextStep, PTL DEF Spec

-----------------------------------------------------------------------------
(* The properties *)

\* A GET that no POST of the same file overlaps, and no failing Read ends, answers
\* the file as it was when it was opened, whole, compressed or not
\* (serializeResponse, gzipReaderToString).
THEOREM GetsAreSnapshots == Spec => []GetsSnapshot
<1>1. IInv => GetsSnapshot
  BY DEF IInv, AnswerInv, GetsSnapshot, IsRead
<1> QED
  BY <1>1, InvariantHolds, PTL

\* The Content-Length is what is sent (SendFileStream takes it from Stat), unless the
\* answer is not compressed and a POST of the same file came between, or a Read failed.
THEOREM LengthsExact == Spec => []LengthExact
<1>1. IInv => LengthExact
  BY DEF IInv, AnswerInv, LengthExact
<1> QED
  BY <1>1, InvariantHolds, PTL

\* Between POSTs a file is the body of the last POST that wrote it, whole, unless
\* POSTs of it overlapped, a Write of it failed or the process ended in the middle
\* of one, and no whole POST came after that.
THEOREM FilesAreLastPosts == Spec => []FileIsLastPost
<1>1. IInv => FileIsLastPost
  BY DEF IInv
<1> QED
  BY <1>1, InvariantHolds, PTL

\* Only a request that does not arrive whole, a Content-Length that cannot be
\* allocated, gzip for an answer without a body, and an error of Accept or of a Read
\* for gzip end the process.
THEOREM EndsOnlyFrom == Spec => []DownOnlyFrom
<1>1. IInv => DownOnlyFrom
  BY DEF IInv
<1> QED
  BY <1>1, InvariantHolds, PTL

=============================================================================
