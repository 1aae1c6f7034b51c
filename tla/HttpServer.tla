----------------------------- MODULE HttpServer ------------------------------
(***************************************************************************)
(* http-server-go: HttpPipeline.Handle, one goroutine for each connection  *)
(* and one request for each (lib/http/pipeline.go), what it reads and      *)
(* sends (serialization.go), and the handlers of app/server.go, of which   *)
(* those of files share the directory.                                     *)
(*                                                                         *)
(* Contents are sequences of blocks, a block being what one Read of a file *)
(* returns; block i of body k is <<k, i>>.  A panic or an exit in one      *)
(* goroutine ends the process, which somebody may start again.  The        *)
(* operating system may fail every call but Close and the sends.           *)
(***************************************************************************)
EXTENDS HttpRouter

CONSTANTS
  Conns,          \* connections that are open at the same time
  Requests,       \* what clients ask: method, path, whether gzip is accepted,
                  \* whether type and length of the body are given, whether make
                  \* can allocate that length, and the body that has it
  Names,          \* the names that can be a file's in the directory
  Directories,    \* the names that are a directory's: none, ".", "..", subdirectories
  MaxRestarts     \* bound: how often the process is started again

ASSUME HttpConstants ==
  /\ \A r \in Requests :
       /\ r.method \in {"get", "post"} /\ r.path \in Seq(STRING)
       /\ r.gzip \in BOOLEAN /\ r.typed \in BOOLEAN /\ r.sized \in BOOLEAN
       /\ r.body \in Seq(STRING \X Nat)
  /\ Names \cap Directories = {}
  /\ MaxRestarts \in Nat

VARIABLES
  down,       \* the process has ended
  restarts,
  pc,         \* where each connection's goroutine is
  call,       \* the handler it chose and what the handler is given
  resp,       \* what it has sent
  files,      \* the directory: a content for each name, or Missing
  \* history
  cut,        \* the connections whose request did not arrive whole
  failure,    \* Accept, or the Read of a file for gzip, returned an error
  seen,       \* the content when a GET opened the file
  disturbed,  \* the file requests that a POST of the same file overlapped, or a
              \* Read that returned an error cut short
  stored,     \* the body of the last POST that wrote a file whole
  damaged     \* files that overlapping, failed or unfinished POSTs left behind

history == <<cut, failure, seen, disturbed, stored, damaged>>
vars == <<down, restarts, pc, call, resp, files, history>>

-----------------------------------------------------------------------------
(* Routing *)

Handlers ==
  << [method |-> "get",  handle |-> "root",      pattern |-> <<"/">>],
     [method |-> "get",  handle |-> "echo",
      pattern |-> <<"/", "echo", "/", "{", "command", "}">>],
     [method |-> "get",  handle |-> "uagent",    pattern |-> <<"/", "user-agent">>],
     [method |-> "get",  handle |-> "fileread",
      pattern |-> <<"/", "files", "/", "{", "fileName", "}">>],
     [method |-> "post", handle |-> "filewrite",
      pattern |-> <<"/", "files", "/", "{", "fileName", "}">>] >>

Segments == [k \in DOMAIN Handlers |-> getPathSegments(Handlers[k].pattern)]

Matching(method, path) ==
  {k \in DOMAIN Handlers : Handlers[k].method = method /\ match(path, Segments[k])}

\* The first handler that matches, with its one variable, if it has one.
Choose(method, path) ==
  LET hits == Matching(method, path)
      k == CHOOSE i \in hits : \A j \in hits : i <= j
  IN IF hits = {} THEN [handle |-> "notFound", vars |-> {}]
     ELSE [handle |-> Handlers[k].handle, vars |-> routeParams(path, Segments[k])]

\* What Handle passes on: a body is read only when its type and its length are
\* given.  (A length that is no number counts as 0.)
Call(r) ==
  LET choice == Choose(r.method, r.path)
  IN [method |-> r.method, path |-> r.path, handle |-> choice.handle, vars |-> choice.vars,
      gzip |-> r.gzip, typed |-> r.typed, sized |-> r.sized,
      body |-> IF r.typed THEN r.body ELSE <<>>]

Calls == {Call(r) : r \in Requests}

Exists(c, var) == \E v \in call[c].vars : v[1] = <<var>>
RouteVar(c, var) == (CHOOSE v \in call[c].vars : v[1] = <<var>>)[2]
File(c) == RouteVar(c, "fileName")

-----------------------------------------------------------------------------
(* Responses.  length 0 stands for no Content-Length.                        *)

NoCall == [handle |-> "none"]
NoResp == [status |-> 0, length |-> 0, body |-> <<>>]

\* What gzip makes of a content is never empty and determines the content.
Gzipped(s) == <<"gz">> \o s

Encoded(c, s) == IF call[c].gzip THEN Gzipped(s) ELSE s

Finish(c, status, length, body) ==
  /\ resp' = [resp EXCEPT ![c] = [status |-> status, length |-> length, body |-> body]]
  /\ pc' = [pc EXCEPT ![c] = "done"]
  /\ UNCHANGED <<down, restarts, call>>

\* log.Fatal, os.Exit or a panic.
End ==
  /\ down' = TRUE
  /\ UNCHANGED <<restarts, pc, call, resp>>

\* Send of a response without a body: gzipReaderToString reads from nil.
Send(c, status) ==
  IF call[c].gzip THEN End ELSE Finish(c, status, 0, <<>>)

\* Mutant of SendPlain: Body is not set.
SendPlainBare(c, status, s) == Send(c, status)

SendPlain(c, status, s) == Finish(c, status, Len(Encoded(c, s)), Encoded(c, s))

-----------------------------------------------------------------------------
Missing == << <<"missing", 0>> >>

Init ==
  /\ down = FALSE
  /\ restarts = 0
  /\ pc = [c \in Conns |-> "head"]
  /\ call = [c \in Conns |-> NoCall]
  /\ resp = [c \in Conns |-> NoResp]
  /\ files \in [Names -> {Missing, << <<"old", 1>> >>}]
  /\ cut = {} /\ failure = FALSE /\ disturbed = {} /\ damaged = {}
  /\ seen = [c \in Conns |-> <<>>]
  /\ stored = files

At(c, label) == ~down /\ pc[c] = label
Goto(c, label) == pc' = [pc EXCEPT ![c] = label]

\* The next connection is accepted, in place of one whose handler has returned.
Accept(c) ==
  /\ At(c, "done") \/ At(c, "silent")
  /\ Goto(c, "head")
  /\ call' = [call EXCEPT ![c] = NoCall]
  /\ resp' = [resp EXCEPT ![c] = NoResp]
  /\ seen' = [seen EXCEPT ![c] = <<>>]
  /\ disturbed' = disturbed \ {c}
  /\ UNCHANGED <<down, restarts, files, cut, failure, stored, damaged>>

\* An error of Accept is fatal.
AcceptFails ==
  /\ ~down
  /\ End
  /\ failure' = TRUE
  /\ UNCHANGED <<files, cut, seen, disturbed, stored, damaged>>

\* The request line and the headers have arrived.
ReadHead(c) ==
  /\ At(c, "head")
  /\ \E r \in Calls :
       /\ call' = [call EXCEPT ![c] = r]
       /\ Goto(c, IF r.typed THEN "body" ELSE "handle")
  /\ UNCHANGED <<down, restarts, resp, files, history>>

\* The client closed before: an error or, in Peek(2), an index out of range.
HeadCut(c) ==
  /\ At(c, "head")
  /\ End
  /\ cut' = cut \cup {c}
  /\ UNCHANGED <<files, failure, seen, disturbed, stored, damaged>>

\* make panics on a Content-Length that is negative or too large to allocate:
\* Handle does not look at it, nor at Atoi's error.
BadLength(c) ==
  /\ At(c, "body") /\ ~call[c].sized
  /\ End
  /\ UNCHANGED <<files, history>>

\* The one Read of readBody returned the whole body.
ReadBody(c) ==
  /\ At(c, "body") /\ call[c].sized
  /\ Goto(c, "handle")
  /\ UNCHANGED <<down, restarts, call, resp, files, history>>

\* It returned a part, because the body came in more than one piece.
BodyCut(c) ==
  /\ At(c, "body") /\ call[c].sized
  /\ call[c].body # <<>>
  /\ End
  /\ cut' = cut \cup {c}
  /\ UNCHANGED <<files, failure, seen, disturbed, stored, damaged>>

-----------------------------------------------------------------------------
(* Handlers *)

Handle(c, h) == At(c, "handle") /\ call[c].handle = h

NotFound(c) == Handle(c, "notFound") /\ Send(c, 404) /\ UNCHANGED <<files, history>>
Root(c) == Handle(c, "root") /\ Send(c, 200) /\ UNCHANGED <<files, history>>

Echo(c) ==
  /\ Handle(c, "echo")
  /\ IF Exists(c, "command") THEN SendPlain(c, 200, RouteVar(c, "command")) ELSE Send(c, 500)
  /\ UNCHANGED <<files, history>>

UserAgent(c) ==
  /\ Handle(c, "uagent")
  /\ SendPlain(c, 200, <<"agent">>) \/ SendPlain(c, 500, <<"no agent">>)
  /\ UNCHANGED <<files, history>>

\* The other connections that have the file open.
Open(c, f) == {d \in Conns \ {c} : pc[d] \in {"stream", "write"} /\ File(d) = f}
Writing(c, f) == {d \in Open(c, f) : pc[d] = "write"}

\* A GET of a directory gets the size of a directory, and no bytes.
ReadDirectory(c) ==
  /\ Handle(c, "fileread") /\ Exists(c, "fileName") /\ File(c) \in Directories
  /\ IF call[c].gzip THEN End ELSE Finish(c, 200, 1, <<>>)
  /\ UNCHANGED <<files, history>>

\* There is no such file.
ReadNothing(c) ==
  /\ Handle(c, "fileread") /\ Exists(c, "fileName") /\ File(c) \notin Directories
  /\ File(c) \in Names => files[File(c)] = Missing
  /\ Send(c, 404)
  /\ UNCHANGED <<files, history>>

\* No name was bound, or os.Open returns another error.
OpenFails(c) ==
  /\ Handle(c, "fileread")
  /\ Goto(c, "failed")
  /\ UNCHANGED <<down, restarts, call, resp, files, history>>

\* Stat returns an error: SendFileStream neither answers nor closes.
StatFails(c) ==
  /\ Handle(c, "fileread") /\ Exists(c, "fileName") /\ File(c) \in Names \cup Directories
  /\ File(c) \in Names => files[File(c)] # Missing
  /\ Goto(c, "silent")
  /\ UNCHANGED <<down, restarts, call, resp, files, history>>

\* os.Open and Stat: the size that will be announced.
OpenFile(c) ==
  /\ Handle(c, "fileread") /\ Exists(c, "fileName") /\ File(c) \in Names
  /\ files[File(c)] # Missing
  /\ resp' = [resp EXCEPT ![c] =
                [status |-> 200, length |-> Len(files[File(c)]), body |-> <<>>]]
  /\ Goto(c, "stream")
  /\ seen' = [seen EXCEPT ![c] = files[File(c)]]
  /\ disturbed' = IF Writing(c, File(c)) = {} THEN disturbed ELSE disturbed \cup {c}
  /\ UNCHANGED <<down, restarts, call, files, cut, failure, stored, damaged>>

\* One Read of the file, at the offset that the Reads before have reached.
ReadBlock(c) ==
  /\ At(c, "stream")
  /\ LET offset == Len(resp[c].body)
     IN /\ offset < Len(files[File(c)])
        /\ resp' = [resp EXCEPT ![c].body = Append(@, files[File(c)][offset + 1])]
  /\ UNCHANGED <<down, restarts, pc, call, files, history>>

\* Mutants of ReadEof: Stat's size is kept; one Read is enough; the end is not
\* noticed when a Read stops at it.
ReadEofStat(c) ==
  /\ At(c, "stream")
  /\ Len(resp[c].body) >= Len(files[File(c)])
  /\ Finish(c, 200, resp[c].length, Encoded(c, resp[c].body))
  /\ UNCHANGED <<files, history>>

ReadEofEarly(c) ==
  /\ At(c, "stream")
  /\ resp[c].body # <<>> \/ files[File(c)] = <<>>
  /\ Finish(c, 200, Len(Encoded(c, resp[c].body)), Encoded(c, resp[c].body))
  /\ UNCHANGED <<files, history>>

ReadEofLate(c) ==
  /\ At(c, "stream")
  /\ Len(resp[c].body) > Len(files[File(c)])
  /\ Finish(c, 200, resp[c].length, Encoded(c, resp[c].body))
  /\ UNCHANGED <<files, history>>

\* The Read that finds the end.  Only gzip measures what was read.
ReadEof(c) ==
  /\ At(c, "stream")
  /\ Len(resp[c].body) >= Len(files[File(c)])
  /\ LET body == Encoded(c, resp[c].body)
     IN Finish(c, 200, IF call[c].gzip THEN Len(body) ELSE resp[c].length, body)
  /\ UNCHANGED <<files, history>>

\* A Read of the file returns another error: gzip ends the process, and an answer
\* without gzip ends where it is.
ReadFails(c) ==
  /\ At(c, "stream")
  /\ IF call[c].gzip
     THEN End /\ failure' = TRUE /\ UNCHANGED disturbed
     ELSE /\ Finish(c, 200, resp[c].length, resp[c].body)
          /\ disturbed' = disturbed \cup {c}
          /\ UNCHANGED failure
  /\ UNCHANGED <<files, cut, seen, stored, damaged>>

\* No name was bound, or os.Create returns an error, as it does for a directory.
CreateFails(c) ==
  /\ Handle(c, "filewrite")
  /\ Goto(c, "failed")
  /\ UNCHANGED <<down, restarts, call, resp, files, history>>

\* Mutant of CreateFile: a file that exists is opened without O_TRUNC.
CreateFileKeeps(c) ==
  /\ Handle(c, "filewrite") /\ Exists(c, "fileName") /\ File(c) \in Names
  /\ files' = IF files[File(c)] = Missing THEN [files EXCEPT ![File(c)] = <<>>] ELSE files
  /\ Goto(c, "write")
  /\ disturbed' = disturbed \cup Open(c, File(c))
                \cup (IF Writing(c, File(c)) = {} THEN {} ELSE {c})
  /\ UNCHANGED <<down, restarts, call, resp, cut, failure, seen, stored, damaged>>

\* os.Create empties a file that exists.
CreateFile(c) ==
  /\ Handle(c, "filewrite") /\ Exists(c, "fileName") /\ File(c) \in Names
  /\ files' = [files EXCEPT ![File(c)] = <<>>]
  /\ Goto(c, "write")
  /\ disturbed' = disturbed \cup Open(c, File(c))
                \cup (IF Writing(c, File(c)) = {} THEN {} ELSE {c})
  /\ UNCHANGED <<down, restarts, call, resp, cut, failure, seen, stored, damaged>>

\* The write, at offset 0 of this goroutine's descriptor.
Overlaid(s, body) == body \o SubSeq(s, Len(body) + 1, Len(s))

WriteFile(c) ==
  /\ At(c, "write")
  /\ files' = [files EXCEPT ![File(c)] = Overlaid(@, call[c].body)]
  /\ Goto(c, "written")
  /\ stored' = [stored EXCEPT ![File(c)] = call[c].body]
  /\ damaged' = IF c \in disturbed THEN damaged \cup {File(c)} ELSE damaged \ {File(c)}
  /\ UNCHANGED <<down, restarts, call, resp, cut, failure, seen, disturbed>>

\* Write returns an error, the disk being full: a part of the body, or nothing of
\* it, is in the file that os.Create emptied.
WriteFails(c) ==
  /\ At(c, "write")
  /\ \E n \in 0 .. Len(call[c].body) - 1 :
       files' = [files EXCEPT ![File(c)] = Overlaid(@, SubSeq(call[c].body, 1, n))]
  /\ Goto(c, "failed")
  /\ damaged' = damaged \cup {File(c)}
  /\ UNCHANGED <<down, restarts, call, resp, cut, failure, seen, disturbed, stored>>

Created(c) == At(c, "written") /\ Send(c, 201) /\ UNCHANGED <<files, history>>
Failed(c) == At(c, "failed") /\ Send(c, 500) /\ UNCHANGED <<files, history>>

\* The process starts again; the directory is as it was left.
Restart ==
  /\ down
  /\ restarts < MaxRestarts
  /\ down' = FALSE
  /\ restarts' = restarts + 1
  /\ pc' = [c \in Conns |-> "head"]
  /\ call' = [c \in Conns |-> NoCall]
  /\ resp' = [c \in Conns |-> NoResp]
  /\ cut' = {} /\ failure' = FALSE /\ disturbed' = {}
  /\ seen' = [c \in Conns |-> <<>>]
  /\ damaged' = damaged \cup {File(c) : c \in {d \in Conns : pc[d] = "write"}}
  /\ UNCHANGED <<files, stored>>

\* What the goroutine of a connection does once its request has arrived, and the
\* calls that may fail where they could succeed.
Proceed(c) ==
  \/ NotFound(c) \/ Root(c) \/ Echo(c) \/ UserAgent(c)
  \/ ReadDirectory(c) \/ ReadNothing(c) \/ OpenFails(c)
  \/ OpenFile(c) \/ ReadBlock(c) \/ ReadEof(c)
  \/ CreateFails(c) \/ CreateFile(c) \/ WriteFile(c)
  \/ Created(c) \/ Failed(c)
CallFails(c) == StatFails(c) \/ ReadFails(c) \/ WriteFails(c)
Serve(c) == Proceed(c) \/ CallFails(c)

Next ==
  \/ \E c \in Conns :
       \/ Accept(c) \/ ReadHead(c) \/ HeadCut(c)
       \/ BadLength(c) \/ ReadBody(c) \/ BodyCut(c) \/ Serve(c)
  \/ AcceptFails
  \/ Restart

\* A goroutine whose request has arrived is scheduled; nothing obliges a client to
\* send, nor a call to fail.
Spec == Init /\ [][Next]_vars /\ \A c \in Conns : WF_vars(Proceed(c))

-----------------------------------------------------------------------------
(* Properties of the router, for every request that has arrived *)

Arrived == {call[c] : c \in {d \in Conns : pc[d] # "head"}}

SlashFree(s) == \A i \in DOMAIN s : s[i] # "/"
Doubled(s) == \E i \in 1 .. Len(s) - 1 : s[i] = "/" /\ s[i + 1] = "/"

\* /w1/w2/.../wn, with or without a slash at the end.
WellWritten(path) ==
  path # <<>> /\ \A i \in DOMAIN path : (i % 2 = 1) <=> (path[i] = "/")
WordCount(path) == IF Len(path) = 1 THEN 1 ELSE Len(path) \div 2
Word(path, i) == IF Len(path) = 1 THEN <<>> ELSE ToLower(<<path[2 * i]>>)

\* A path that is written without double slashes, with or without a slash at its
\* end, matches a handler's pattern if and only if it has as many parts and its
\* parts are the pattern's but for capitals, and the variable is the part that
\* stands in its place (the scanning loops of match and getPathSegments).
MatchInvertsJoin ==
  \A q \in Arrived : WellWritten(q.path) => \A k \in DOMAIN Handlers :
    LET pattern == Segments[k] IN
    /\ match(q.path, pattern) <=>
         /\ Len(pattern) = WordCount(q.path)
         /\ \A i \in DOMAIN pattern : pattern[i].IsVar \/ pattern[i].Part = Word(q.path, i)
    /\ match(q.path, pattern) =>
         routeParams(q.path, pattern) =
           {<<pattern[i].Part, Word(q.path, i)>> : i \in {j \in DOMAIN pattern : pattern[j].IsVar}}

\* However the slashes are written, a match neither loses nor moves a character:
\* the path is the fixed part and the variable, with a slash or none before and
\* after and one or two between, and the variable has no slash.  It is bound to
\* nothing only where the path has a double slash.
NothingLost ==
  \A q \in Arrived : \A k \in Matching(q.method, q.path) :
    LET fixed == Segments[k][1].Part
        value == IF Len(Segments[k]) < 2 THEN <<>> ELSE Got(q.path, 2)
        gaps == IF Len(Segments[k]) < 2 THEN {<<>>} ELSE {<<"/">>, <<"/", "/">>}
    IN /\ \E before, after \in {<<>>, <<"/">>}, between \in gaps :
            ToLower(q.path) = before \o fixed \o between \o value \o after
       /\ SlashFree(value)
       /\ \A v \in routeParams(q.path, Segments[k]) : v[2] = <<>> => Doubled(q.path)

\* No request depends on the order in which the handlers are registered, and the
\* one that is chosen finds the variable it looks up (app/server.go): none of them
\* ever answers 500 for want of it.
OneHandler ==
  \A q \in Arrived :
    /\ Cardinality(Matching(q.method, q.path)) <= 1
    /\ q.handle \in {"echo", "fileread", "filewrite"} =>
         {v[1] : v \in q.vars} =
           {IF q.handle = "echo" THEN <<"command">> ELSE <<"fileName">>}

-----------------------------------------------------------------------------
(* Properties of the server *)

IsRead(c) ==
  /\ pc[c] = "done" /\ call[c].handle = "fileread" /\ resp[c].status = 200
  /\ File(c) \notin Directories

\* The Content-Length that SendFileStream takes from Stat, and that gzip takes
\* from what it made, is the number of bytes that follow, unless a POST of the
\* same file came between Stat and the last Read of an answer that is not
\* compressed, or that Read failed.  (The answer for a directory is left out: it
\* announces a size and has no bytes.)
LengthExact ==
  \A c \in Conns :
    (/\ pc[c] = "done"
     /\ call[c].handle = "fileread" /\ resp[c].status = 200 =>
          File(c) \notin Directories /\ (c \in disturbed => call[c].gzip))
      => resp[c].length \in {0, Len(resp[c].body)}

\* A GET that no POST of the same file overlaps, and no failing Read ends, answers
\* the content the file had when it was opened, all of it and nothing else,
\* whatever other connections do (the reading loop of serializeResponse, and
\* gzipReaderToString).
GetsSnapshot ==
  \A c \in Conns \ disturbed : IsRead(c) => resp[c].body = Encoded(c, seen[c])

\* Between POSTs a file is the body of the last POST that wrote it, whole: only
\* POSTs that overlapped, a Write that failed, or a process that ended between
\* os.Create and Write, leave something else behind, and one more POST repairs it.
FileIsLastPost ==
  \A f \in Names \ damaged :
    (\A c \in Conns : pc[c] = "write" => File(c) # f) => files[f] = stored[f]

\* What ends the process for everybody: a request that does not arrive whole, one
\* with a Content-Length that cannot be allocated, a client that accepts gzip and
\* whose answer has no body, and an error of Accept or of a Read for gzip.  No other
\* request for an echo, for the user agent or for a file that opens does.
Unsized(c) == pc[c] = "body" /\ ~call[c].sized
Bodyless(c) ==
  \/ pc[c] = "handle" /\ call[c].handle \in {"root", "notFound"}
  \/ pc[c] = "handle" /\ call[c].handle = "fileread"
       /\ (File(c) \in Names => files[File(c)] = Missing)
  \/ pc[c] \in {"written", "failed"}
DownOnlyFrom ==
  down => \/ failure
          \/ cut # {}
          \/ \E c \in Conns : Unsized(c) \/ (Bodyless(c) /\ call[c].gzip)

\* A request that has arrived is answered, or the process ends, or Stat fails: no
\* handler waits for another, and a GET of a file that is written meanwhile comes
\* to an end.
Answered ==
  \A c \in Conns : pc[c] = "handle" ~> (pc[c] \in {"done", "silent"} \/ down)

=============================================================================
