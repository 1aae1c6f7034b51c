------------------------------ MODULE RespWire -------------------------------
(***************************************************************************)
(* How commands cross a TCP connection: the serialisation of RESP arrays   *)
(* (app/resp/resp_types.go), the lexer and parser that read them back from *)
(* a stream that arrives in pieces (lexer.go and parser.go), and the two   *)
(* loops around the parser: handleConnection, which serves a client, and   *)
(* startReplicationListener, which applies a leader's commands and keeps   *)
(* the offset that REPLCONF GETACK reports (app/server.go).                *)
(*                                                                         *)
(* The subject is framing, so a stream is a sequence of bytes, and a byte  *)
(* is one of the few characters the lexer tells apart.  The lexer's        *)
(* bufio.Reader is external: it asks the connection for more only when a   *)
(* call cannot be answered from its buffer, and gets any part of what is   *)
(* on the way.                                                             *)
(***************************************************************************)
EXTENDS Integers, Sequences, SequencesExt

CONSTANTS
  Commands,   \* what the other side sends: sequences of payloads
  MaxCmds     \* bound: the commands of one connection

VARIABLES
  \* the other side and the network
  sender,       \* "client", "leader" (this program) or "redis" (another leader)
  sent,         \* the commands it has written
  wire,         \* the bytes on the way
  closed,       \* it has closed the connection
  cut,          \* its last bytes were lost when it did
  reset,        \* an error at the end of the stream: "none", "due" or "returned"
  \* the bufio.Reader, the lexer and the parser
  buf,          \* the bytes read from the connection and not consumed
  pc,           \* what the parser does next
  type,         \* the type of the token whose line is read
  need,         \* the length of the bulk string that is read
  str,          \* its bytes
  stack,        \* the elements each open array still lacks, the innermost last
  elems,        \* the elements of the outermost array
  ByteCounter,
  \* the loop around the parser
  ProcessedBytes,
  p,            \* the loop's copy of ProcessedBytes
  panicked,
  \* history
  consumed,     \* the bytes taken from the stream
  torn,         \* a bulk string was read in part
  parsed,       \* the commands handed to HandleCommand
  lastOk        \* the number of the last of them that succeeded

network == <<sender, sent, wire, closed, cut, reset>>
parser == <<buf, pc, type, need, str, stack, elems, ByteCounter>>
loop == <<ProcessedBytes, p, panicked>>
history == <<consumed, torn, parsed, lastOk>>
vars == <<network, parser, loop, history>>

-----------------------------------------------------------------------------
(* Serialisation *)

CR == "\r"
LF == "\n"
Digit == <<"0", "1", "2", "3", "4", "5", "6", "7", "8", "9">>
LineTypes == {"+", "-", "$", "*", ":", "#"}
Bytes == LineTypes \cup {CR, LF, "_", "x"} \cup Range(Digit)

Decimal(n) == IF n = -1 THEN <<"-", "1">> ELSE <<Digit[n + 1]>>
HeaderLine(t, n) == <<t>> \o Decimal(n) \o <<CR, LF>>

\* RespBulkString.AsRespString writes the empty string as the null string; a
\* client and another leader write it with its length.
BulkAsRespString(s, who) ==
  IF Len(s) = 0 /\ who = "leader"
    THEN HeaderLine("$", -1)
    ELSE HeaderLine("$", Len(s)) \o s \o <<CR, LF>>

ArrayAsRespString(c, who) ==
  HeaderLine("*", Len(c)) \o FlattenSeq([i \in DOMAIN c |-> BulkAsRespString(c[i], who)])

\* strconv.Atoi, for the numbers that headers hold.
IsInt(v) == v = <<"-", "1">> \/ (Len(v) = 1 /\ v[1] \in Range(Digit))
Atoi(v) == CHOOSE n \in -1 .. 9 : Decimal(n) = v

\* What the parser makes of a payload.
BulkString(s) == [type |-> "$", content |-> s]
SimpleString(s) == [type |-> "+", content |-> s]
InnerArray == [type |-> "*", content |-> <<>>]
Elements(c) == [i \in DOMAIN c |-> BulkString(c[i])]

ASSUME WireConstants ==
  /\ Commands \subseteq Seq(Seq(Bytes))
  /\ \A c \in Commands : Len(c) \in 1 .. 9 /\ (\A i \in DOMAIN c : Len(c[i]) \in 0 .. 9)
  /\ MaxCmds \in Nat

Init ==
  /\ sender \in {"client", "leader", "redis"}
  /\ sent = <<>> /\ wire = <<>> /\ closed = FALSE /\ cut = FALSE /\ reset = "none"
  /\ buf = <<>> /\ pc = "token" /\ type = "*" /\ need = 0 /\ str = <<>>
  /\ stack = <<>> /\ elems = <<>>
  /\ ByteCounter = 0 /\ ProcessedBytes = 0 /\ p = 0
  /\ panicked = FALSE
  /\ consumed = 0 /\ torn = FALSE /\ parsed = <<>> /\ lastOk = 0

-----------------------------------------------------------------------------
(* The other side *)

Send(c) ==
  /\ ~closed /\ Len(sent) < MaxCmds
  /\ sent' = Append(sent, c)
  /\ wire' = wire \o ArrayAsRespString(c, sender)
  /\ UNCHANGED <<sender, closed, cut, reset, parser, loop, history>>

\* The other side goes away; the last bytes it wrote may not get through, and the
\* connection may be reset.
Close(n) ==
  /\ ~closed
  /\ closed' = TRUE
  /\ wire' = SubSeq(wire, 1, n)
  /\ cut' = (n < Len(wire))
  /\ reset' \in {"none", "due"}
  /\ UNCHANGED <<sender, sent, parser, loop, history>>

-----------------------------------------------------------------------------
(* bufio.Reader *)

Running == ~panicked /\ pc # "stopped"
Eof == closed /\ wire = <<>>

\* Mutants of NeedsMore: any byte will do for a line and for the CRLF; the
\* CRLF is looked for in three bytes.
NeedsMoreOneByte == (pc = "bytes" => need > 0) /\ pc # "handle" /\ buf = <<>>
NeedsMoreThreeBytes ==
  \/ pc = "token" /\ buf = <<>>
  \/ pc = "line" /\ LF \notin Range(buf)
  \/ pc = "bytes" /\ need > 0 /\ buf = <<>>
  \/ pc = "crlf" /\ Len(buf) < 3

\* ReadByte wants a byte, ReadString a whole line, Peek(2) two bytes; Read is
\* content with what there is, and with nothing when nothing is asked for.
NeedsMore ==
  \/ pc = "token" /\ buf = <<>>
  \/ pc = "line" /\ LF \notin Range(buf)
  \/ pc = "bytes" /\ need > 0 /\ buf = <<>>
  \/ pc = "crlf" /\ Len(buf) < 2

Fill(n) ==
  /\ Running /\ NeedsMore
  /\ buf' = buf \o SubSeq(wire, 1, n)
  /\ wire' = SubSeq(wire, n + 1, Len(wire))
  /\ UNCHANGED <<sender, sent, closed, cut, reset, pc, type, need, str, stack, elems, ByteCounter,
                 loop, history>>

\* A call returns: it has what it needs, or the stream is at its end.
Ready(at) == Running /\ pc = at /\ (~NeedsMore \/ Eof)

Take(n) ==
  /\ buf' = SubSeq(buf, n + 1, Len(buf))
  /\ consumed' = consumed + n

-----------------------------------------------------------------------------
(* What becomes of a parse *)

\* Parse returns an error: handleConnection returns, and the deferred Close
\* ends the connection; startReplicationListener goes on at the next byte.
ParseFails ==
  /\ pc' = IF sender = "client" THEN "stopped" ELSE "token"
  /\ stack' = <<>> /\ elems' = <<>>
  /\ p' = ProcessedBytes

\* ParseServerCommand wants an array that starts with a bulk string.
Returned(array) ==
  IF array # <<>> /\ array[1].type = "$"
    THEN pc' = "handle" /\ stack' = <<>> /\ elems' = array /\ UNCHANGED p
    ELSE ParseFails

\* An element is complete; with it, every open array that lacked only this.
Complete(e) ==
  IF stack = <<>> THEN ParseFails
  ELSE LET k == Max({0} \cup {i \in DOMAIN stack : stack[i] > 1})
           array == IF Len(stack) = 1 THEN Append(elems, e)
                    ELSE IF k <= 1 THEN Append(elems, InnerArray)
                    ELSE elems
       IN IF k = 0 THEN Returned(array)
          ELSE /\ pc' = "token"
               /\ stack' = Append(SubSeq(stack, 1, k - 1), stack[k] - 1)
               /\ elems' = array
               /\ UNCHANGED p

-----------------------------------------------------------------------------
(* Lexer and Parser *)

\* NextToken at the end of a connection that was reset: an error other than io.EOF,
\* counted as a byte, with which the listener goes on.  It is returned once; one
\* that came again and again would keep the listener counting.
TokenFails ==
  /\ Ready("token") /\ buf = <<>> /\ reset = "due"
  /\ ByteCounter' = ByteCounter + 1 /\ reset' = "returned"
  /\ ParseFails
  /\ UNCHANGED <<sender, sent, wire, closed, cut, buf, type, need, str, ProcessedBytes, panicked,
                 history>>

\* NextToken at the end of the stream: io.EOF, counted as a byte, too.
TokenEof ==
  /\ Ready("token") /\ buf = <<>> /\ reset # "due"
  /\ ByteCounter' = ByteCounter + 1
  /\ pc' = "stopped"
  /\ UNCHANGED <<network, buf, type, need, str, stack, elems, loop, history>>

\* NextToken reads the byte that tells the type.
NextToken ==
  /\ Ready("token") /\ buf # <<>>
  /\ Take(1) /\ ByteCounter' = ByteCounter + 1
  /\ \/ /\ buf[1] \in LineTypes
        /\ pc' = "line" /\ type' = buf[1]
        /\ UNCHANGED <<stack, elems, p>>
     \/ /\ buf[1] \notin LineTypes
        /\ ParseFails /\ UNCHANGED type
  /\ UNCHANGED <<network, need, str, ProcessedBytes, panicked, torn, parsed, lastOk>>

\* The line ReadString returns, up to the end of the stream if need be, and
\* what readLine makes of it.
Line == IF LF \in Range(buf) THEN SubSeq(buf, 1, SelectInSeq(buf, LAMBDA b : b = LF)) ELSE buf
Value == SubSeq(Line, 1, Len(Line) - 2)

\* line[:len(line)-2] of a line that is too short; make of a negative length.
ReadLinePanics ==
  /\ Ready("line")
  /\ \/ Len(Line) < 2
     \/ type \in {"$", "*"} /\ IsInt(Value) /\ Atoi(Value) < 0
  /\ Take(Len(Line)) /\ ByteCounter' = ByteCounter + Len(Line)
  /\ panicked' = TRUE
  /\ UNCHANGED <<network, pc, type, need, str, stack, elems, ProcessedBytes, p, torn, parsed, lastOk>>

\* readLine returns a line of type t, and Parse goes on.
LineOf(t) ==
  /\ Ready("line") /\ type = t /\ Len(Line) >= 2
  /\ Take(Len(Line)) /\ ByteCounter' = ByteCounter + Len(Line)
  /\ UNCHANGED <<network, type, str, ProcessedBytes, panicked, torn, parsed, lastOk>>

ParseSimpleString == LineOf("+") /\ Complete(SimpleString(Value)) /\ UNCHANGED need

\* Mutant of BulkHeader: the null string is a string of no bytes.
BulkHeaderNull ==
  /\ LineOf("$") /\ IsInt(Value)
  /\ need' = Atoi(Value) /\ pc' = "bytes"
  /\ UNCHANGED <<stack, elems, p>>

\* parseBulkString has its length.
BulkHeader ==
  /\ LineOf("$") /\ IsInt(Value) /\ Atoi(Value) >= 0
  /\ need' = Atoi(Value) /\ pc' = "bytes"
  /\ UNCHANGED <<stack, elems, p>>

\* parseArray has its length.
ArrayHeader ==
  /\ LineOf("*") /\ IsInt(Value) /\ Atoi(Value) >= 0
  /\ UNCHANGED need
  /\ \/ /\ Atoi(Value) = 0 /\ Complete(InnerArray)
     \/ /\ Atoi(Value) > 0
        /\ stack' = Append(stack, Atoi(Value)) /\ pc' = "token"
        /\ UNCHANGED <<elems, p>>

\* A length that is no number, or a type Parse has no case for.
LineFails ==
  /\ \E t \in LineTypes \ {"+"} : LineOf(t) /\ (t \in {"$", "*"} => ~IsInt(Value))
  /\ ParseFails /\ UNCHANGED need

\* ConsumeBytes: one Read, which returned all that was wanted.
ConsumeBytes ==
  /\ Ready("bytes") /\ Len(buf) >= need
  /\ str' = SubSeq(buf, 1, need)
  /\ Take(need) /\ ByteCounter' = ByteCounter + need
  /\ pc' = "crlf"
  /\ UNCHANGED <<network, type, need, stack, elems, loop, torn, parsed, lastOk>>

\* Mutant of ShortRead: the part that came is taken for the whole.
ShortReadAccepted ==
  /\ Ready("bytes") /\ Len(buf) < need
  /\ str' = buf
  /\ Take(Len(buf)) /\ ByteCounter' = ByteCounter + Len(buf) /\ torn' = TRUE
  /\ pc' = "crlf"
  /\ UNCHANGED <<network, type, need, stack, elems, loop, parsed, lastOk>>

\* It returned less, or nothing at the end of the stream: what it read is gone
\* and not counted.
ShortRead ==
  /\ Ready("bytes") /\ Len(buf) < need
  /\ Take(Len(buf)) /\ torn' = TRUE
  /\ ParseFails
  /\ UNCHANGED <<network, type, need, str, ByteCounter, ProcessedBytes, panicked, parsed, lastOk>>

\* ConsumeCrlf after a bulk string; its error is ignored.
ConsumeCrlf ==
  /\ Ready("crlf")
  /\ \/ /\ Len(buf) >= 2 /\ buf[1] = CR /\ buf[2] = LF
        /\ Take(2) /\ ByteCounter' = ByteCounter + 2
     \/ /\ ~(Len(buf) >= 2 /\ buf[1] = CR /\ buf[2] = LF)
        /\ UNCHANGED <<buf, consumed, ByteCounter>>
  /\ Complete(BulkString(str))
  /\ UNCHANGED <<network, type, need, str, ProcessedBytes, panicked, torn, parsed, lastOk>>

-----------------------------------------------------------------------------
(* handleConnection and startReplicationListener *)

\* Mutant of AppendProcessedBytes: the counter is taken for a difference.
AppendCounter == ProcessedBytes' = ProcessedBytes + ByteCounter

AppendProcessedBytes == ProcessedBytes' = ProcessedBytes + (ByteCounter - p)

\* HandleCommand succeeds.
Handle ==
  /\ Running /\ pc = "handle"
  /\ parsed' = Append(parsed, elems) /\ lastOk' = Len(parsed')
  /\ IF sender = "client" THEN UNCHANGED ProcessedBytes ELSE AppendProcessedBytes
  /\ p' = ProcessedBytes' /\ pc' = "token" /\ elems' = <<>>
  /\ UNCHANGED <<network, buf, type, need, str, stack, ByteCounter, panicked, consumed, torn>>

\* HandleCommand returns an error: the connection is closed, or the listener
\* goes on without counting the command.
HandleFails ==
  /\ Running /\ pc = "handle"
  /\ parsed' = Append(parsed, elems)
  /\ ParseFails
  /\ UNCHANGED <<network, buf, type, need, str, ByteCounter, ProcessedBytes, panicked,
                 consumed, torn, lastOk>>

-----------------------------------------------------------------------------
ReaderStep ==
  \/ \E n \in 1 .. Len(wire) : Fill(n)
  \/ TokenFails \/ TokenEof \/ NextToken \/ ReadLinePanics \/ ParseSimpleString
  \/ BulkHeader \/ ArrayHeader \/ LineFails
  \/ ConsumeBytes \/ ShortRead \/ ConsumeCrlf
  \/ Handle \/ HandleFails

Next ==
  \/ \E c \in Commands : Send(c)
  \/ \E n \in 0 .. Len(wire) : Close(n)
  \/ \E n \in 1 .. Len(wire) : Fill(n)
  \/ TokenFails \/ TokenEof \/ NextToken \/ ReadLinePanics \/ ParseSimpleString
  \/ BulkHeader \/ ArrayHeader \/ LineFails
  \/ ConsumeBytes \/ ShortRead \/ ConsumeCrlf
  \/ Handle \/ HandleFails

\* The goroutine that reads is scheduled, and TCP delivers what was written;
\* nothing obliges the other side to send or to close.
Spec == Init /\ [][Next]_vars /\ WF_vars(ReaderStep)

-----------------------------------------------------------------------------
(* Properties *)

\* Every variable stays in its set.
TypeOK ==
  /\ sender \in {"client", "leader", "redis"}
  /\ sent \in Seq(Commands) /\ wire \in Seq(Bytes) /\ buf \in Seq(Bytes) /\ str \in Seq(Bytes)
  /\ closed \in BOOLEAN /\ cut \in BOOLEAN /\ reset \in {"none", "due", "returned"}
  /\ torn \in BOOLEAN /\ panicked \in BOOLEAN
  /\ pc \in {"token", "line", "bytes", "crlf", "handle", "stopped"}
  /\ type \in LineTypes /\ need \in 0 .. 9 /\ stack \in Seq(1 .. 9)
  /\ \A i \in DOMAIN elems : elems[i].content \in Seq(Bytes)
  /\ {ByteCounter, ProcessedBytes, p, consumed, lastOk} \subseteq Nat

\* The commands handed to HandleCommand are those that were sent, in order and
\* with their payloads, however the stream is cut into pieces and wherever it
\* ends; on a replica, as long as no bulk string is read in part (a client's
\* connection is closed then).
ParsedAsSent ==
  (sender = "client" \/ ~torn) =>
    IsPrefix(parsed, [i \in DOMAIN sent |-> Elements(sent[i])])

SentBytes(n) == Len(FlattenSeq([i \in 1 .. n |-> ArrayAsRespString(sent[i], sender)]))

\* The offset that GETACK reports is the length of the leader's stream up to
\* the end of the last command that succeeded: commands that fail in between
\* are made up for by the next that does not.  Only a stream that loses its
\* end may differ, by the line end that ConsumeCrlf does without.  Even after a
\* bulk string was read in part a replica never claims bytes it has not read.
OffsetExact ==
  /\ sender # "client" /\ ~torn /\ ~cut => ProcessedBytes = SentBytes(lastOk)
  /\ ProcessedBytes <= consumed
  /\ ByteCounter <= consumed + (IF closed THEN 2 ELSE 0)

\* The process panics on a stream only if it ends inside a line, if this
\* program's leader has sent an empty string, or when the parser has lost its
\* place: no way of cutting a whole stream into pieces makes it panic.
PanicOnly ==
  panicked => \/ cut
              \/ torn
              \/ sender = "leader" /\ \E i \in DOMAIN sent : <<>> \in Range(sent[i])

\* Every command that is sent gets to HandleCommand without waiting for a
\* later one, unless a bulk string is read in part, the stream ends, or the
\* process or the connection does.
EverythingParsed ==
  \A n \in 1 .. MaxCmds :
    Len(sent) >= n ~> (Len(parsed) >= n \/ torn \/ closed \/ panicked \/ pc = "stopped")
=============================================================================
