---------------------------- MODULE MCRingRestart ----------------------------
(* The ring over restarts, with a few slots, for TLC.                      *)
EXTENDS RingRestart, TLC

Symmetry == Permutations(Streams)

Sizes(r, p) == [ringsize |-> r, pktsize |-> p]

\* Two slots; others have four smaller ones in as many bytes, three of the
\* same size, and two larger ones.
MyParams == Sizes(4, 2)
ParamsOfOthers == {Sizes(4, 1), Sizes(6, 2), Sizes(6, 3)}

\* The file of version v with k packets from slot e on, the first of stream s
\* and the others of stream t.
Left(v, p, e, k, s, t) ==
  [length |-> p.ringsize,
   header |-> [version |-> v, params |-> p, earliestoffset |-> e,
               latestoffset |-> SlotAfterOf(Slots(p), e, k - 1)],
   slot |-> [o \in 0 .. Slots(p) - 1 |->
               LET i == PlacesOf(Slots(p), e, o)
               IN  IF i >= k THEN EmptySlot
                   ELSE [pktid |-> i + 1, pkttime |-> i + 1,
                         streamid |-> IF i = 0 THEN s ELSE t, nextinstream |-> -1]]]

\* Buffers of this version and of version 2, most of them wrapped around.
FilesOfOthers ==
  UNION {{Left(3, Sizes(4, 1), 2, 3, s, t), Left(3, Sizes(6, 2), 1, 3, s, t),
          Left(3, Sizes(6, 3), 0, 2, s, t), Left(2, Sizes(4, 2), 1, 2, s, t),
          Left(2, Sizes(6, 2), 1, 3, s, t), Left(2, Sizes(6, 3), 1, 2, s, t)} :
           s, t \in Streams}
=============================================================================
