--------------------------- MODULE MCServerThreads ---------------------------
(* A server with a few threads and connections, for TLC: the last client   *)
(* has write permission, the others share an address without it.           *)
EXTENDS ServerThreads

CONSTANTS c1, c2, c3, reader, writer

MCAddr == [c \in Clients |-> IF c = c3 THEN writer ELSE reader]
=============================================================================
