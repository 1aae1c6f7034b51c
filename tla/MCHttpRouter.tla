---------------------------- MODULE MCHttpRouter -----------------------------
(* HttpServer with one connection, on which every path of up to MaxPieces      *)
(* pieces is asked for with both methods.                                      *)
EXTENDS HttpServer

CONSTANTS
  Pieces,         \* the pieces of the paths, the slash among them
  MaxPieces       \* bound: the pieces of a path

MCPaths == UNION {[1 .. n -> Pieces] : n \in 0 .. MaxPieces}
MCRequests ==
  [method: {"get", "post"}, path: MCPaths, gzip: {FALSE}, typed: {FALSE}, sized: {TRUE},
   body: {<<>>}]
MCNames == { <<"x">> }
MCDirectories == { <<>> }
=============================================================================
