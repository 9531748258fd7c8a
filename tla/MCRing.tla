------------------------------- MODULE MCRing -------------------------------
(* The ring with a few slots, streams and clock readings, for TLC.         *)
EXTENDS Ring
=============================================================================
