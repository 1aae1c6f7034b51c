----------------------------- MODULE HttpRouter ------------------------------
(***************************************************************************)
(* The router of http-server-go (lib/http/router.go): how a pattern and a  *)
(* request's path are cut at slashes, and when a path matches a pattern.   *)
(*                                                                         *)
(* A path is a sequence of pieces.  A piece is a slash, a brace, or a run  *)
(* of other characters, which nothing here looks into.                     *)
(***************************************************************************)
EXTENDS Naturals, Sequences, FiniteSets

\* strings.ToLower, for the pieces that have capitals.
Lowered == [FILES |-> "files", X |-> "x", fileName |-> "filename"]
ToLower(s) == [i \in DOMAIN s |-> IF s[i] \in DOMAIN Lowered THEN Lowered[s[i]] ELSE s[i]]

-----------------------------------------------------------------------------
(* One iteration of the loops of match and getPathSegments, from place i:    *)
(* one slash is discarded, then ReadString takes the rest up to and with the *)
(* next slash.  After the last piece, ReadString takes what there is.        *)

PartStart(s, i) == IF s[i] = "/" THEN i + 1 ELSE i

PartEnd(s, i) ==
  CHOOSE j \in PartStart(s, i) .. Len(s) + 1 :
    /\ j = Len(s) + 1 \/ s[j] = "/"
    /\ \A k \in PartStart(s, i) .. j - 1 : s[k] # "/"

Part(s, i) == SubSeq(s, PartStart(s, i), PartEnd(s, i) - 1)

AtEnd(s, i) == i > Len(s)

\* The place where iteration n begins.
Place(s, n) ==
  LET place[m \in 1 .. n] ==
        IF m = 1 THEN 1
        ELSE IF AtEnd(s, place[m - 1]) THEN place[m - 1]
        ELSE PartEnd(s, place[m - 1]) + 1
  IN place[n]

\* The number of iterations until the end of the path.
Iterations(s) == Cardinality({n \in 1 .. Len(s) : ~AtEnd(s, Place(s, n))})

IsVar(part) == Len(part) >= 2 /\ part[1] = "{" /\ part[Len(part)] = "}"

\* Mutant of getPathSegments: variables are lower-cased too.
getPathSegmentsFolded(route) ==
  [n \in 1 .. Iterations(route) |->
     LET part == ToLower(Part(route, Place(route, n)))
     IN IF IsVar(part)
          THEN [Part |-> SubSeq(part, 2, Len(part) - 1), IsVar |-> TRUE]
          ELSE [Part |-> part, IsVar |-> FALSE]]

getPathSegments(route) ==
  [n \in 1 .. Iterations(route) |->
     LET part == Part(route, Place(route, n))
     IN IF IsVar(part)
          THEN [Part |-> SubSeq(part, 2, Len(part) - 1), IsVar |-> TRUE]
          ELSE [Part |-> ToLower(part), IsVar |-> FALSE]]

\* Mutant of Got: the path is not lower-cased.
GotAsWritten(route, n) == Part(route, Place(route, n))

\* What iteration n of match reads of the lower-cased path.
Got(route, n) == Part(ToLower(route), Place(ToLower(route), n))

\* Mutant of match: the path may go on.
matchPrefix(route, segments) ==
  \A n \in DOMAIN segments :
    /\ ~AtEnd(route, Place(ToLower(route), n))
    /\ segments[n].IsVar \/ Got(route, n) = segments[n].Part

match(route, segments) ==
  /\ \A n \in DOMAIN segments :
       /\ ~AtEnd(route, Place(ToLower(route), n))
       /\ segments[n].IsVar \/ Got(route, n) = segments[n].Part
  /\ AtEnd(route, Place(ToLower(route), Len(segments) + 1))

\* routeParams of a match: a set of pairs, one for each variable.
routeParams(route, segments) ==
  {<<segments[n].Part, Got(route, n)>> : n \in {k \in DOMAIN segments : segments[k].IsVar}}

=============================================================================
