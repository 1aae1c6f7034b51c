------------------------------- MODULE RdbFile -------------------------------
(***************************************************************************)
(* How a server of redis-go loads its RDB file before it serves anybody:   *)
(* ReadRdbFromFile (app/rdb/rdb.go) and KvStore.InitialiseFromRdbFile.     *)
(*                                                                         *)
(* A file is a sequence of bytes, as its lengths and its end are what can  *)
(* go wrong.  Saved is what a Redis server writes; a file may be missing,  *)
(* and may end anywhere, as when that server died while it wrote.  Keys    *)
(* and names of metadata are one byte long here, deadlines are below 256   *)
(* and the other bytes of a number 0.                                      *)
(***************************************************************************)
EXTENDS Integers, SequencesExt

CONSTANTS
  Snapshots,   \* what is saved: a record of meta and dbs, see below
  BufSize      \* the size of the bufio.Reader's buffer

ASSUME BufSizeAssumption == BufSize \in Nat /\ BufSize >= 16   \* bufio's least

\* A snapshot's meta is a sequence of names; a database is a sequence of entries with
\* a key, a value, and a deadline with its unit, and has no key twice.
ByteValues == 0 .. 255
Values == [int : BOOLEAN, text : Seq(ByteValues)]
Entries == [key : ByteValues, value : Values, unit : {"none", "ms", "s"}, deadline : ByteValues]

ASSUME SnapshotsAssumption ==
  /\ Snapshots \subseteq [meta : Seq(ByteValues), dbs : Seq(Seq(Entries))]
  /\ \A s \in Snapshots : \A i \in DOMAIN s.dbs : \A j, k \in DOMAIN s.dbs[i] :
       s.dbs[i][j].key = s.dbs[i][k].key => j = k

VARIABLES
  snapshot,    \* what was saved
  file,        \* the bytes of the file that are there
  r,           \* the reader: ok, bytes consumed, end of the buffered bytes
  pc,          \* what is read next; "load", "serving" or "exited"
  text,        \* what was read of the section or the entry so far
  left,        \* the entries of the database that are still to be read
  databases,   \* the databases read, each with Keys and Expiries
  values, expiries   \* the maps of the KvStore

vars == <<snapshot, file, r, pc, text, left, databases, values, expiries>>

-----------------------------------------------------------------------------
(* The format *)

Meta == 250
HashTableInfo == 251
ExpiryMs == 252
ExpiryS == 253
Database == 254
Eof == 255

\* The names of metadata.
RedisVer == 1
Ctime == 2
RedisBits == 3
UsedMem == 4
AofBase == 5

LengthBytes(n) == IF n < 64 THEN <<n>> ELSE <<64 + n \div 256, n % 256>>
StringBytes(s) == LengthBytes(Len(s)) \o s
Zeros(n) == [i \in 1 .. n |-> 0]

MetaBytes(name) ==
  <<Meta>> \o StringBytes(<<name>>) \o
  (CASE name = RedisVer -> StringBytes(<<7>>)
     [] name \in {Ctime, UsedMem} -> <<194, 9, 9, 9, 9>>
     [] name = RedisBits -> <<192, 64>>
     [] OTHER -> <<192, 0>>)

\* A value that is a small number is saved as such.
ValueBytes(v) == IF v.int THEN <<192, v.text[1]>> ELSE StringBytes(v.text)

EntryBytes(e) ==
  (CASE e.unit = "ms" -> <<ExpiryMs, e.deadline>> \o Zeros(7)
     [] e.unit = "s" -> <<ExpiryS, e.deadline>> \o Zeros(3)
     [] OTHER -> <<>>)
  \o <<0>> \o StringBytes(<<e.key>>) \o ValueBytes(e.value)

DatabaseBytes(db) ==
  <<Database, 0, HashTableInfo>> \o LengthBytes(Len(db))
  \o LengthBytes(Cardinality({i \in DOMAIN db : db[i].unit # "none"}))
  \o FlattenSeq([i \in DOMAIN db |-> EntryBytes(db[i])])

Header == [i \in 1 .. 9 |-> 7]
BeforeDatabases(s) == Header \o FlattenSeq([i \in DOMAIN s.meta |-> MetaBytes(s.meta[i])])
Saved(s) ==
  BeforeDatabases(s)
  \o FlattenSeq([i \in DOMAIN s.dbs |-> DatabaseBytes(s.dbs[i])])
  \o <<Eof>> \o Zeros(8)

-----------------------------------------------------------------------------
(* bufio.Reader on a file.  A call whose error is returned leaves ok FALSE.  *)

Smaller(a, b) == IF a < b THEN a ELSE b
Failed(rd) == [rd EXCEPT !.ok = FALSE]
Byte(rd) == file[rd.pos + 1]
HasByte(rd) == rd.ok /\ rd.pos < Len(file)

\* The buffer is filled again when it has fewer than n bytes.
Filled(rd, n) ==
  IF rd.hi - rd.pos >= n THEN rd
  ELSE [rd EXCEPT !.hi = Smaller(rd.pos + BufSize, Len(file))]

ReadByte(rd) ==
  IF HasByte(rd) THEN [Filled(rd, 1) EXCEPT !.pos = @ + 1] ELSE Failed(rd)

Discard(rd, n) ==
  LET pos == Smaller(rd.pos + n, Len(file))
  IN [rd EXCEPT !.pos = pos,
                !.hi = IF pos <= rd.hi THEN @ ELSE Smaller(rd.hi + BufSize, Len(file))]

\* Read takes what one Read of the file or the buffer gives, and the callers
\* refuse less than n bytes.
OneRead(rd, n) ==
  IF rd.hi > rd.pos \/ n = 0 THEN rd
  ELSE [rd EXCEPT !.hi = Smaller(rd.pos + (IF n < BufSize THEN BufSize ELSE n), Len(file))]

\* Mutant of ReadFull: a short Read will do.
ReadShort(rd, n) ==
  IF rd.ok /\ (OneRead(rd, n).hi > rd.pos \/ n = 0)
    THEN [OneRead(rd, n) EXCEPT !.pos = Smaller(@ + n, OneRead(rd, n).hi)]
    ELSE Failed(rd)

ReadFull(rd, n) ==
  IF rd.ok /\ OneRead(rd, n).hi - rd.pos >= n
    THEN [OneRead(rd, n) EXCEPT !.pos = @ + n]
    ELSE Failed(rd)

\* The length is one byte, whatever its two high bits say.
readStringValue(rd) ==
  IF HasByte(rd) THEN ReadFull(ReadByte(rd), Byte(rd)) ELSE Failed(rd)

\* The text that readStringValue(rd) returns, if it is read.
StringAt(rd) == SubSeq(file, rd.pos + 2, readStringValue(rd).pos)

-----------------------------------------------------------------------------
NoDatabase == [Keys |-> <<>>, Expiries |-> <<>>]

Init ==
  /\ snapshot \in Snapshots
  /\ \E n \in 0 .. Len(Saved(snapshot)) : file = SubSeq(Saved(snapshot), 1, n)
  /\ \/ pc = "section"
     \/ pc = "serving" /\ file = <<>>     \* there is no file
  /\ r = Discard([ok |-> TRUE, pos |-> 0, hi |-> 0], 9)
  /\ text = <<>> /\ left = 0
  /\ databases = <<>>
  /\ values = <<>> /\ expiries = <<>>

store == <<values, expiries>>

Separator(b) == pc = "section" /\ HasByte(r) /\ Byte(r) = b

\* The end of every step: an error ends the process.
Goto(label, reader) ==
  /\ r' = reader
  /\ pc' = IF reader.ok THEN label ELSE "exited"

MetadataName ==
  /\ Separator(Meta)
  /\ LET name == ReadByte(r)
     IN Goto("metadata", readStringValue(name)) /\ text' = <<StringAt(name)>>
  /\ UNCHANGED <<snapshot, file, left, databases, store>>

\* What the value of each name is read as.
MetadataValue ==
  /\ pc = "metadata"
  /\ LET value == Discard(r, 1)
         is(name) == text = << <<name>> >>
     IN Goto("section",
          CASE is(RedisVer) -> readStringValue(r)
            [] is(Ctime) \/ is(UsedMem) -> ReadFull(value, 4)
            [] is(RedisBits) -> IF HasByte(value) /\ Byte(value) = 64 THEN ReadByte(value) ELSE Failed(r)
            [] is(AofBase) -> Discard(r, 2)
            [] OTHER -> Failed(r))
  /\ text' = <<>>
  /\ UNCHANGED <<snapshot, file, left, databases, store>>

\* The index, the mark of the sizes, and the sizes, of one byte each.
DatabaseHeader ==
  /\ Separator(Database)
  /\ LET mark == ReadByte(ReadByte(r))
         sizes == ReadByte(mark)
         end == ReadByte(ReadByte(sizes))
     IN /\ Goto("entry", IF HasByte(mark) /\ Byte(mark) = HashTableInfo THEN end ELSE Failed(mark))
        /\ left' = IF HasByte(sizes) THEN Byte(sizes) ELSE 0
        /\ databases' = Append(databases, NoDatabase)
  /\ UNCHANGED <<snapshot, file, text, store>>

\* Mutant of ExpiryBytes: deadlines in seconds have eight bytes too.
ExpiryBytesEight(b) == IF b \in {ExpiryMs, ExpiryS} THEN 8 ELSE 0

ExpiryBytes(b) == CASE b = ExpiryMs -> 8 [] b = ExpiryS -> 4 [] OTHER -> 0

\* The deadline of an entry, with its low byte first: the number as it is, which the
\* store takes for milliseconds, in whatever unit it was saved.
EntryDeadline ==
  /\ pc = "entry" /\ left > 0
  /\ LET n == IF HasByte(r) THEN ExpiryBytes(Byte(r)) ELSE 0
         number == Discard(Filled(r, 1), 1)
     IN IF n = 0
          THEN /\ Goto("key", IF HasByte(r) THEN Filled(r, 1) ELSE Failed(r))
               /\ UNCHANGED text
          ELSE /\ Goto("key", ReadFull(number, n))
               /\ text' = IF HasByte(number) THEN <<Byte(number)>> ELSE <<>>
  /\ UNCHANGED <<snapshot, file, left, databases, store>>

\* Its type, of which any but 0 is refused, and its key.
EntryKey ==
  /\ pc = "key"
  /\ LET key == ReadByte(r)
     IN /\ Goto("value", IF HasByte(r) /\ Byte(r) = 0 THEN readStringValue(key) ELSE Failed(r))
        /\ text' = <<StringAt(key)>> \o text
  /\ UNCHANGED <<snapshot, file, left, databases, store>>

\* m[key] = value
With(m, key, value) == [k \in DOMAIN m \cup {key} |-> IF k = key THEN value ELSE m[k]]

EntryValue ==
  /\ pc = "value"
  /\ LET value == Filled(r, 2)
         n == Len(databases)
     IN /\ Goto("entry", readStringValue(value))
        /\ databases' = [databases EXCEPT
             ![n].Keys = With(@, text[1], StringAt(value)),
             ![n].Expiries = IF Len(text) = 1 THEN @ ELSE With(@, text[1], text[2])]
  /\ left' = left - 1
  /\ text' = <<>>
  /\ UNCHANGED <<snapshot, file, store>>

EntriesRead ==
  /\ pc = "entry" /\ left = 0
  /\ pc' = "section"
  /\ UNCHANGED <<snapshot, file, r, text, left, databases, store>>

\* The end of the file, marked or not; the checksum is not looked at, but one
\* byte of it must be there.
EndOfFile ==
  /\ \/ Separator(Eof) /\ Goto("load", ReadByte(ReadByte(r)))
     \/ pc = "section" /\ ~HasByte(r) /\ Goto("load", r)
  /\ UNCHANGED <<snapshot, file, text, left, databases, store>>

OtherSeparator ==
  /\ pc = "section" /\ HasByte(r) /\ Byte(r) \notin {Meta, Database, Eof}
  /\ Goto("section", Failed(r))
  /\ UNCHANGED <<snapshot, file, text, left, databases, store>>

\* InitialiseFromRdbFile, once the file is read.
Load ==
  /\ pc = "load"
  /\ pc' = IF Len(databases) > 1 THEN "exited" ELSE "serving"
  /\ IF Len(databases) = 1
       THEN values' = databases[1].Keys /\ expiries' = databases[1].Expiries
       ELSE UNCHANGED store
  /\ UNCHANGED <<snapshot, file, r, text, left, databases>>

Next ==
  \/ MetadataName \/ MetadataValue \/ DatabaseHeader
  \/ EntryDeadline \/ EntryKey \/ EntryValue \/ EntriesRead
  \/ EndOfFile \/ OtherSeparator \/ Load

Spec == Init /\ [][Next]_vars

-----------------------------------------------------------------------------
(* Properties *)

IsCut == Len(file) < Len(Saved(snapshot))

\* Strings and databases whose length fits into six bits, and no value that is saved
\* as a number: what readStringValue can read.
Short(s) ==
  \A i \in DOMAIN s.dbs :
    /\ Len(s.dbs[i]) < 64
    /\ \A j \in DOMAIN s.dbs[i] : Len(s.dbs[i][j].value.text) < 64 /\ ~s.dbs[i][j].value.int

SavedValues(db) == {<< <<db[j].key>>, db[j].value.text>> : j \in DOMAIN db}
Pairs(m) == {<<k, m[k]>> : k \in DOMAIN m}

\* What the deadlines of a database say, in milliseconds.
SavedDeadlines(db) ==
  {<< <<db[j].key>>, IF db[j].unit = "s" THEN 1000 * db[j].deadline ELSE db[j].deadline>> :
     j \in {k \in DOMAIN db : db[k].unit # "none"}}

\* The keys with a deadline are those that were saved with one, and a deadline in
\* milliseconds is the saved one.
MsDeadlinesHold(db) ==
  /\ DOMAIN expiries = {<<db[j].key>> : j \in {k \in DOMAIN db : db[k].unit # "none"}}
  /\ \A j \in DOMAIN db : db[j].unit = "ms" => expiries[<<db[j].key>>] = db[j].deadline

\* A server that starts has loaded the whole of a database, or nothing, and nothing
\* only if no database was saved or the file ends before it: no cut and no boundary of
\* the reader's buffer makes it serve a part, or a text that was read from the wrong
\* place.  (Of a deadline in seconds it says only that there is one, for the loaded
\* one is wrong: DeadlinesAsSaved.  Of several databases the first is loaded if the
\* file ends right after it.  A longer string, or a number, is read from the wrong
\* place, and then what is read depends on the bytes that follow: see
\* MisreadSnapshot of MCRdbFile.)
AllOrNothing ==
  pc = "serving" /\ Short(snapshot) =>
    \/ /\ Len(snapshot.dbs) = 1 \/ (Len(snapshot.dbs) > 1 /\ IsCut)
       /\ Pairs(values) = SavedValues(snapshot.dbs[1])
       /\ MsDeadlinesHold(snapshot.dbs[1])
    \/ /\ snapshot.dbs = <<>> \/ Len(file) <= Len(BeforeDatabases(snapshot))
       /\ values = <<>> /\ expiries = <<>>

\* A loaded deadline is the saved one, which for FD "is expressed in seconds"
\* (rdb_test.go:32), while the store compares deadlines with milliseconds (KvStore.Get).
\* It is not: ReadRdbFromFile passes the number of seconds on as it is, and such a key
\* is long expired at its first Get.
DeadlinesAsSaved ==
  pc = "serving" /\ Short(snapshot) /\ values # <<>> =>
    Pairs(expiries) = SavedDeadlines(snapshot.dbs[1])

Known == {RedisVer, Ctime, RedisBits, UsedMem, AofBase}
Supported(s) == Range(s.meta) \subseteq Known /\ Len(s.dbs) <= 1 /\ Short(s)

\* A whole file that fits into the reader's buffer, with one database of short
\* strings and the metadata that the code names, is never refused, whichever of its
\* keys have deadlines and in what unit (the counts of bytes in ReadRdbFromFile).
WholeFileLoads ==
  pc = "exited" => IsCut \/ ~Supported(snapshot) \/ Len(file) > BufSize

=============================================================================
