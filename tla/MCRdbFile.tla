------------------------------ MODULE MCRdbFile ------------------------------
(* RdbFile on snapshots with and without metadata and databases, with keys    *)
(* without a deadline and with one of each unit, with empty, long and encoded *)
(* values, and with more keys than a length of six bits counts.               *)
EXTENDS RdbFile

LOCAL Text(n) == [int |-> FALSE, text |-> [i \in 1 .. n |-> 100 + (i % 20)]]
LOCAL OneEntry(unit, key, value) == [key |-> key, value |-> value, unit |-> unit, deadline |-> 20 + key]
LOCAL Plain(k, n) == OneEntry("none", k, Text(n))
LOCAL Ms(k, n) == OneEntry("ms", k, Text(n))
LOCAL S(k, n) == OneEntry("s", k, Text(n))
LOCAL Encoded(k) == OneEntry("none", k, [int |-> TRUE, text |-> <<49>>])
LOCAL Shot(meta, dbs) == [meta |-> meta, dbs |-> dbs]

\* A string of 64 bytes whose last is the mark of the end: the server starts with
\* the string's length and its first bytes as the value.
MisreadSnapshot ==
  Shot(<<>>, << <<OneEntry("none", 97, [int |-> FALSE, text |-> [i \in 1 .. 64 |-> IF i = 64 THEN Eof ELSE 1]])>> >>)

MCSnapshots ==
  { MisreadSnapshot } \cup
  { Shot(<<1, 2, 3, 4, 5>>, <<>>), Shot(<<1, 6>>, <<>>),
    Shot(<<>>, << <<Plain(97, 1), Ms(98, 0), S(99, 1)>> >>),
    Shot(<<1, 3>>, << <<S(97, 5), Ms(98, 30), Ms(99, 8), S(100, 20)>> >>),
    Shot(<<5>>, << <<Ms(97, 1)>>, <<Plain(97, 2)>> >>),
    Shot(<<>>, << <<Plain(97, 64), Plain(98, 1)>> >>),
    Shot(<<>>, << <<Plain(97, 1), S(98, 63)>> >>),
    Shot(<<>>, << <<Encoded(97), Ms(98, 2)>> >>),
    Shot(<<>>, << [i \in 1 .. 64 |-> Plain(32 + i, 0)] >>) }
=============================================================================
