---------------------------- MODULE MCHttpServer -----------------------------
(* HttpServer with a request for each handler and outcome, paths spelled with *)
(* capitals and with a double slash, two bodies, one longer, and a length     *)
(* that cannot be allocated.                                                  *)
EXTENDS HttpServer

LOCAL Get(path, gzip) ==
  [method |-> "get", path |-> path, gzip |-> gzip, typed |-> FALSE, sized |-> TRUE, body |-> <<>>]
LOCAL Post(path, gzip, typed, body) ==
  [method |-> "post", path |-> path, gzip |-> gzip, typed |-> typed, sized |-> TRUE, body |-> body]

LOCAL Long == << <<"long", 1>>, <<"long", 2>> >>
LOCAL Short == << <<"short", 1>> >>
LOCAL X == <<"/", "files", "/", "X">>
LOCAL Directory == <<"/", "FILES", "/", "/">>
LOCAL Dot == <<"/", "files", "/", ".">>

MCRequests ==
  { Get(<<"/">>, FALSE), Get(<<"x">>, TRUE),
    Get(<<"/", "echo", "/", "x", "/">>, TRUE), Get(<<"/", "user-agent">>, TRUE),
    Get(X, FALSE), Get(X, TRUE), Get(Directory, FALSE), Get(Dot, TRUE),
    Post(X, FALSE, TRUE, Long), Post(X, FALSE, TRUE, Short), Post(X, TRUE, TRUE, Short),
    Post(X, FALSE, FALSE, Short), Post(Dot, FALSE, TRUE, <<>>),
    [Post(X, FALSE, TRUE, <<>>) EXCEPT !.sized = FALSE] }
MCNames == { <<"x">> }
MCDirectories == { <<>>, <<".">> }
=============================================================================
