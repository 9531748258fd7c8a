---------------------------- MODULE MCRingReaders ----------------------------
(* One writer and one reader, who take different views of the streams, for *)
(* TLC.  Readers share nothing but the ring, so one reader meets every     *)
(* state of the ring that any of several would.                            *)
EXTENDS RingReaders

CONSTANTS r1, s1, s2

MCSelected == [r \in Readers |-> {s1}]
=============================================================================
