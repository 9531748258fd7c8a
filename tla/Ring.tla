-------------------------------- MODULE Ring --------------------------------
(***************************************************************************)
(* The packet ring of ring.c as its writers see it: RingWrite() runs under *)
(* ringlock and streamlock, so a write is one action here.  What readers   *)
(* that take no lock see in the middle of a write is module RingReaders.   *)
(*                                                                         *)
(* Offsets are counted in slots of pktsize bytes (0 .. MaxPackets - 1), so *)
(* a RingPacket's offset field is the index of its slot.  A packet keeps   *)
(* what the ring itself looks at: ID, creation time, stream ID and the     *)
(* link to the stream's next packet.  Data start and end times follow the  *)
(* creation time into the stream index and are left out with the payload.  *)
(***************************************************************************)
EXTENDS Integers, FiniteSets

CONSTANTS
  Streams,        \* stream IDs of the packets written
  NoStream,       \* the blank stream ID of a slot never written
  MaxPackets,     \* number of slots, param.maxpackets
  RINGID_MAXIMUM, \* largest packet ID
  SuppliedIds,    \* packet IDs callers bring along (WRITE flag 'I', LoadBuffer)
  Instants,       \* readings of the wall clock, NSnow()
  MaxTime         \* bound: largest creation time a packet may be stamped with

ASSUME RingAssumption ==
  /\ IsFiniteSet(Streams) /\ NoStream \notin Streams
  /\ MaxPackets \in Nat /\ MaxPackets >= 2
  /\ RINGID_MAXIMUM \in Nat \ {0}
  /\ SuppliedIds \subseteq 0 .. RINGID_MAXIMUM
  /\ Instants \subseteq Nat
  /\ MaxTime \in Nat

VARIABLES
  slot,           \* the RingPacket headers in the buffer
  earliestoffset, \* param.earliestoffset, -1 for an empty ring
  latestoffset,   \* param.latestoffset, -1 for an empty ring
  streamidx,      \* param.streamidx: stream ID -> RingStream
  streamcount,    \* param.streamcount
  last_pkttime    \* static variable of RingWrite()

vars == <<slot, earliestoffset, latestoffset, streamidx, streamcount, last_pkttime>>

Offsets == 0 .. MaxPackets - 1
PktIds  == 0 .. RINGID_MAXIMUM

RINGID_NONE == -1

\* A slot no packet was ever written to: the zeroed pages of a new buffer.
EmptySlot == [pktid |-> 0, pkttime |-> 0, streamid |-> NoStream, nextinstream |-> 0]

Packet ==
  [pktid : PktIds, pkttime : 0 .. MaxTime, streamid : Streams \cup {NoStream},
   nextinstream : Offsets \cup {-1}]

RingStream ==
  [earliestptime : 0 .. MaxTime, earliestid : PktIds, earliestoffset : Offsets,
   latestptime : 0 .. MaxTime, latestid : PktIds, latestoffset : Offsets]

\* A mistake for NextOffset: the ring never wraps.
NextOffsetUnwrapped(o) == o + 1

NextOffset(o) == IF o + 1 > MaxPackets - 1 THEN 0 ELSE o + 1

-----------------------------------------------------------------------------
(* RingInitialize() on a new buffer.                                       *)
Init ==
  /\ slot = [o \in Offsets |-> EmptySlot]
  /\ earliestoffset = -1
  /\ latestoffset = -1
  /\ streamidx = [s \in {} |-> {}]
  /\ streamcount = 0
  /\ last_pkttime = 0

\* A mistake for Stamp: the clock alone.
StampClock(now) == now

\* The creation time: the clock, forced past the last stamp.
Stamp(now) == IF now <= last_pkttime THEN last_pkttime + 1 ELSE now

\* The slot and the packet ID that follow the latest packet.
TargetOffset == IF latestoffset >= 0 THEN NextOffset(latestoffset) ELSE 0

NextPktId ==
  IF latestoffset < 0 \/ slot[latestoffset].pktid + 1 > RINGID_MAXIMUM
    THEN 1
    ELSE slot[latestoffset].pktid + 1

\* The ring is full: the write replaces the earliest packet.
Full ==
  /\ earliestoffset >= 0 /\ latestoffset >= 0
  /\ earliestoffset # latestoffset
  /\ TargetOffset = earliestoffset

\* The earliest packet, about to be replaced, has no stream index entry.
Orphaned == Full /\ slot[earliestoffset].streamid \notin DOMAIN streamidx

\* The stream of the earliest packet has no other packet.
OnlyPacket ==
  LET st == streamidx[slot[earliestoffset].streamid]
  IN  earliestoffset = st.earliestoffset /\ earliestoffset = st.latestoffset

\* A mistake for IndexAfterRemoval: the stream keeps its old earliest packet.
IndexKeepingEarliest ==
  LET sid == slot[earliestoffset].streamid
  IN  IF OnlyPacket THEN [s \in DOMAIN streamidx \ {sid} |-> streamidx[s]] ELSE streamidx

\* The stream index without the earliest packet.
IndexAfterRemoval ==
  LET sid == slot[earliestoffset].streamid
      nis == slot[earliestoffset].nextinstream
  IN  IF OnlyPacket
        THEN [s \in DOMAIN streamidx \ {sid} |-> streamidx[s]]
        ELSE IF nis >= 0
          THEN [streamidx EXCEPT ![sid].earliestptime  = slot[nis].pkttime,
                                 ![sid].earliestid     = slot[nis].pktid,
                                 ![sid].earliestoffset = nis]
          ELSE streamidx

TrimmedIndex == IF Full THEN IndexAfterRemoval ELSE streamidx

\* A mistake for TrimmedCount: the removed stream is still counted.
CountKeepingRemoved == streamcount

TrimmedCount == IF Full /\ OnlyPacket THEN streamcount - 1 ELSE streamcount

\* A mistake for TrimmedEarliest: the replaced packet stays the earliest.
EarliestKept == earliestoffset

TrimmedEarliest == IF Full THEN NextOffset(earliestoffset) ELSE earliestoffset

\* The entry of a stream after a packet of it was written at offset o.
EntryAfterWrite(idx, sid, id, time, o) ==
  LET isnew == sid \notin DOMAIN idx
  IN  [earliestptime  |-> IF isnew THEN time ELSE idx[sid].earliestptime,
       earliestid     |-> IF isnew THEN id ELSE idx[sid].earliestid,
       earliestoffset |-> IF isnew THEN o ELSE idx[sid].earliestoffset,
       latestptime    |-> time,
       latestid       |-> id,
       latestoffset   |-> o]

\* A mistake for SlotsAfterWrite: the previous packet is not linked.
SlotsUnlinked(pkt, o, prev) == [slot EXCEPT ![o] = pkt]

\* The slots once packet pkt is copied to offset o and the stream's previous
\* packet is linked to it.
SlotsAfterWrite(pkt, o, prev) ==
  [i \in Offsets |-> IF i = o THEN pkt
                     ELSE IF i = prev THEN [slot[i] EXCEPT !.nextinstream = o]
                     ELSE slot[i]]

\* RingWrite() of a packet of stream sid, its ID given by the caller or not.
RingWrite(sid, now, reqid) ==
  LET time == Stamp(now)
      o    == TargetOffset
      id   == IF reqid = RINGID_NONE THEN NextPktId ELSE reqid
      pkt  == [pktid |-> id, pkttime |-> time, streamid |-> sid, nextinstream |-> -1]
      prev == IF sid \in DOMAIN TrimmedIndex THEN TrimmedIndex[sid].latestoffset ELSE -1
  IN  /\ time <= MaxTime
      /\ ~Orphaned
      /\ last_pkttime' = time
      /\ slot' = SlotsAfterWrite(pkt, o, prev)
      /\ streamidx' = [s \in DOMAIN TrimmedIndex \cup {sid} |->
                         IF s = sid THEN EntryAfterWrite(TrimmedIndex, sid, id, time, o)
                                    ELSE TrimmedIndex[s]]
      /\ streamcount' = IF sid \in DOMAIN TrimmedIndex THEN TrimmedCount ELSE TrimmedCount + 1
      /\ earliestoffset' = IF earliestoffset < 0 THEN o ELSE TrimmedEarliest
      /\ latestoffset' = o

\* RingWrite() returning -2: the earliest packet is already gone when its
\* stream is not found, or when no memory is left for a new index entry.
RingWriteError(sid, now) ==
  /\ Stamp(now) <= MaxTime
  /\ ~Orphaned => sid \notin DOMAIN TrimmedIndex
  /\ last_pkttime' = Stamp(now)
  /\ earliestoffset' = TrimmedEarliest
  /\ streamidx' = IF Orphaned THEN streamidx ELSE TrimmedIndex
  /\ streamcount' = IF Orphaned THEN streamcount ELSE TrimmedCount
  /\ UNCHANGED <<slot, latestoffset>>

Next ==
  \E sid \in Streams, now \in Instants :
    \/ \E reqid \in SuppliedIds \cup {RINGID_NONE} : RingWrite(sid, now, reqid)
    \/ RingWriteError(sid, now)

Spec == Init /\ [][Next]_vars

-----------------------------------------------------------------------------
(* The packets in the ring, in the order the ring visits them.             *)

\* The slots from slot e on to slot l, around the end of the buffer.
Between(e, l) ==
  IF l < 0 THEN {} ELSE IF e <= l THEN e .. l ELSE Offsets \ (l + 1 .. e - 1)

\* The slots that hold packets of the ring.
Live == Between(earliestoffset, latestoffset)

\* The position of slot o counted from slot e, from the earliest packet.
RankFrom(e, o) == IF o >= e THEN o - e ELSE o - e + MaxPackets
Rank(o) == RankFrom(earliestoffset, o)

\* GetStreams(): the entries of the selected streams, copied into an array
\* that holds streamcount of them.
GetStreams(selected) ==
  LET kept == IF Cardinality(DOMAIN streamidx) <= streamcount
                THEN DOMAIN streamidx
                ELSE CHOOSE S \in SUBSET DOMAIN streamidx : Cardinality(S) = streamcount
  IN  [s \in kept \cap selected |-> streamidx[s]]

TypeOK ==
  /\ slot \in [Offsets -> Packet]
  /\ earliestoffset \in Offsets \cup {-1}
  /\ latestoffset \in Offsets \cup {-1}
  /\ DOMAIN streamidx \subseteq Streams
  /\ streamidx \in [DOMAIN streamidx -> RingStream]
  /\ streamcount \in Nat
  /\ last_pkttime \in 0 .. MaxTime

(* The pkttime words that lockless readers use as sequence numbers grow    *)
(* from each packet to the next in ring order, whatever the clock does and *)
(* also after a write that failed half way (ring.c, RingWrite() stamping). *)
TimesIncrease ==
  \A o, p \in Live : Rank(o) < Rank(p) => slot[o].pkttime < slot[p].pkttime

\* The slots of S that hold packets of stream s; a first and a last one.
PacketsOf(S, s) == {o \in S : slot[o].streamid = s}
IsFirst(o, T) == o \in T /\ \A p \in T : slot[o].pkttime <= slot[p].pkttime
IsLast(o, T)  == o \in T /\ \A p \in T : slot[p].pkttime <= slot[o].pkttime

\* Index idx has an entry for exactly the streams with packets in the slots
\* S, and it names the stream's earliest and latest packet there.
IndexDescribes(idx, S) ==
  /\ DOMAIN idx = {s \in Streams : PacketsOf(S, s) # {}}
  /\ \A s \in DOMAIN idx :
       /\ IsFirst(idx[s].earliestoffset, PacketsOf(S, s))
       /\ IsLast(idx[s].latestoffset, PacketsOf(S, s))
       /\ idx[s].earliestid = slot[idx[s].earliestoffset].pktid
       /\ idx[s].earliestptime = slot[idx[s].earliestoffset].pkttime
       /\ idx[s].latestid = slot[idx[s].latestoffset].pktid
       /\ idx[s].latestptime = slot[idx[s].latestoffset].pkttime

(* The stream index tells exactly which streams have packets in the ring   *)
(* and which packets are their earliest and latest: what INFO STREAMS      *)
(* reports and what RingWrite() relies on to evict (ring.c, RingWrite()).  *)
IndexDescribesRing == IndexDescribes(streamidx, Live)

\* In the slots S, nextinstream leads to the stream's next packet.
ChainLinks(S) ==
  \A o \in S :
    LET later == {p \in PacketsOf(S, slot[o].streamid) : slot[o].pkttime < slot[p].pkttime}
        nis   == slot[o].nextinstream
    IN  IF later = {} THEN nis = -1 ELSE IsFirst(nis, later)

(* The nextinstream link of a packet in the ring leads to the next packet  *)
(* of its stream, or is -1 for the stream's latest packet: eviction        *)
(* follows it to find the stream's new earliest packet.                    *)
ChainLinksStream == ChainLinks(Live)

(* CountStreams() and GetStreams() report every stream with packets in the *)
(* ring and no other: streamcount, which sizes the copy GetStreams() makes *)
(* of the index, is kept in step with the ring's contents.                 *)
StreamListExact ==
  /\ streamcount = Cardinality({s \in Streams : PacketsOf(Live, s) # {}})
  /\ \A selected \in SUBSET Streams :
       DOMAIN GetStreams(selected) = {s \in selected : PacketsOf(Live, s) # {}}

-----------------------------------------------------------------------------
(* The ring implements the abstract window of packets.                     *)

LiveCount == IF latestoffset < 0 THEN 0 ELSE Rank(latestoffset) + 1

\* The slot of the i-th packet in ring order, the earliest being the first.
SlotAt(i) ==
  IF earliestoffset + i - 1 < MaxPackets
    THEN earliestoffset + i - 1
    ELSE earliestoffset + i - 1 - MaxPackets

WindowNow ==
  [i \in 1 .. LiveCount |->
     [pktid |-> slot[SlotAt(i)].pktid, pkttime |-> slot[SlotAt(i)].pkttime,
      streamid |-> slot[SlotAt(i)].streamid]]

Window == INSTANCE PacketWindow
            WITH Capacity <- MaxPackets, window <- WindowNow, stamp <- last_pkttime

(* RingWrite() with its wrapped slots, eviction and error exits behaves as *)
(* the bounded window of the latest packets in module PacketWindow.        *)
ImplementsWindow == Window!WSpec

=============================================================================
