---------------------------- MODULE PacketWindow ----------------------------
(***************************************************************************)
(* What the ring promises: it holds the most recent packets written, in    *)
(* the order they were written, at most Capacity of them, each stamped     *)
(* later than every packet before it; a packet leaves only from the front  *)
(* and only because a write needed room.                                   *)
(***************************************************************************)
EXTENDS Integers, Sequences

CONSTANTS Streams, Capacity, RINGID_MAXIMUM, SuppliedIds

VARIABLES
  window,  \* the packets in the ring, earliest first
  stamp    \* the latest creation time given out

wvars == <<window, stamp>>

WInit == window = <<>> /\ stamp = 0

\* The window once a write of a further packet has made room for it.
Trimmed == IF Len(window) = Capacity THEN Tail(window) ELSE window

Successor(id) == IF id + 1 > RINGID_MAXIMUM THEN 1 ELSE id + 1

IdAfterLast ==
  IF window = <<>> THEN 1 ELSE Successor(window[Len(window)].pktid)

Write(sid, id) ==
  /\ stamp' > stamp
  /\ window' = Append(Trimmed, [pktid |-> id, pkttime |-> stamp', streamid |-> sid])

\* A write that makes room and then fails.
FailedWrite ==
  /\ stamp' > stamp
  /\ window' = Trimmed

WNext ==
  \/ \E sid \in Streams, id \in SuppliedIds \cup {IdAfterLast} : Write(sid, id)
  \/ FailedWrite

WSpec == WInit /\ [][WNext]_wvars

=============================================================================
