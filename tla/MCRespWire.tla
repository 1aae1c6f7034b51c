----------------------------- MODULE MCRespWire ------------------------------
(* RespWire with three commands: one payload of one byte, an empty payload,  *)
(* and payloads that look like a header when their first byte is lost.       *)
EXTENDS RespWire
MCCommands == {<< <<"x">> >>, << <<"x", "+">>, <<>> >>, << <<"x", "*", "1">> >>}
=============================================================================
