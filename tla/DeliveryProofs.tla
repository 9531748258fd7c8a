---------------------------- MODULE DeliveryProofs ----------------------------
(***************************************************************************)
(* What successive calls of RingReadNext() hand out, for any number of     *)
(* readers, slots and streams: packets in order of time, none twice, and   *)
(* none left out unless the reader fell behind.  Two assumptions:          *)
(* the writer does not get around the whole buffer during one call, and    *)
(* clients position their readers with RingPositionBefore() only, as       *)
(* SeedLink clients do.                                                    *)
(***************************************************************************)
EXTENDS PositionProofs

\* A call overlaps with at most one write begun before it and Pace others:
\* the slot of the latest packet it knows is not reached.
SlowWriter == Pace <= MaxPackets - 2

\* RingPosition() and RingRead() may put a reader on a slot whose packet is
\* published and not yet the latest one; RingPositionBefore() does not.
RelativeOnly == Calls \subseteq {"before"}

-----------------------------------------------------------------------------
(* The order of the slots.                                                 *)

\* Steps forward from slot a to slot b, around the end of the buffer.
Dist(a, b) == IF a <= b THEN b - a ELSE b - a + MaxPackets

\* The slots ranked by age: 0 is the slot written next, the latest is last.
Rank(x) == Dist(TargetOffset, x)

\* The slot whose packet is being replaced, once it is marked unset.
Busy(x) == x = woff /\ wpc \notin {"idle", "invalidate"}

\* The write under way, counted.
Begun == IF wpc = "idle" THEN 0 ELSE 1

\* The packets in the slots are in order of time, oldest first.
RingOrder ==
  \A x, y \in Offsets :
    ~Busy(x) /\ slot[x].pkttime > 0 /\ Rank(x) < Rank(y) => slot[x].pkttime < slot[y].pkttime

\* Only the slot being filled is marked unset.
OneUnset == \A x \in Offsets : slot[x].pkttime = NSTUNSET => Busy(x)

\* The ring has no latest packet before the first write is complete.
EmptyAtFirst ==
  latestoffset < 0 =>
    /\ earliestoffset = IF wpc = "latest" THEN woff ELSE -1
    /\ \A x \in Offsets : ~Busy(x) => slot[x].pkttime = 0

\* The earliest packet is not the one replaced, and the only slot before it
\* that still holds a packet is the one that was dropped last.
EarliestInPlace ==
  latestoffset >= 0 =>
    /\ earliestoffset \in Offsets
    /\ wpc # "idle" => earliestoffset # woff
    /\ slot[earliestoffset].pkttime > 0
    /\ \A x \in Offsets :
         ~Busy(x) /\ slot[x].pkttime > 0 /\ Rank(x) < Rank(earliestoffset) =>
           NextOffset(x) = earliestoffset

\* A packet has left the ring; every packet written that has not is in a slot.
Gone(t) == earliestoffset >= 0 /\ t < slot[earliestoffset].pkttime
Contents == \A q \in written : Gone(q.pkttime) \/ \E y \in Offsets : slot[y] = q

OrderInv == RingOrder /\ OneUnset /\ EmptyAtFirst /\ EarliestInPlace /\ Contents

-----------------------------------------------------------------------------
(* A reader's place: the slot and the stamp of the packet it read last.    *)

Newer(x, t) == slot[x].pkttime \notin 0 .. t

\* No packet written after time t has left the ring.
AllKept(t) == \A q \in After(t) : ~Evicted(q)

\* The slots after slot o, up to the latest, are newer than t.
Behind(o, t) == \A x \in Offsets : Rank(o) < Rank(x) => Newer(x, t)

\* The packet of stamp t is in slot o as long as it is in the ring, and when
\* only it has left, the next one is the earliest.
Held(o, t) ==
  /\ ~Gone(t) => ~Busy(o) /\ slot[o].pkttime = t
  /\ Gone(t) /\ AllKept(t) => earliestoffset = NextOffset(o)

Stamped(t) == \E q \in written : q.pkttime = t

Place(o, t) ==
  /\ latestoffset >= 0 /\ o \in Offsets
  /\ Stamped(t) /\ t <= slot[latestoffset].pkttime
  /\ Behind(o, t) /\ Held(o, t)

PlaceOf(r) ==
  /\ reader[r].pktoffset >= 0 => Place(reader[r].pktoffset, reader[r].pkttime)
  /\ pc[r] \in Reading => Place(off[r], ptime[r])
  /\ pc[r] \in {"rn_filter", "rn_copy"} =>
       reader[r].pktoffset = off[r] /\ reader[r].pkttime = ptime[r]

-----------------------------------------------------------------------------
(* A call of RingReadNext().                                               *)

OnlyInNext == {"rn_latest", "rn_sample", "rn_reposition"} \cup Reading
Walking == {"rn_sample", "rn_reposition"} \cup Reading

\* Reader r is in RingReadNext() and has loaded latestoffset.
InNext(r) == op[r] = "next" /\ pc[r] \notin {"idle", "rn_latest"}

\* Writes begun and committed since, and where the ends of the ring are.
Frame(r) ==
  /\ from[r] \in ReaderType
  /\ op[r] \notin {"position", "read"}
  /\ pc[r] \in OnlyInNext => op[r] = "next"
  /\ pc[r] # "idle" => loc[r].began <= last_pkttime /\ last_pkttime - loc[r].began <= Pace
  /\ InNext(r) =>
       /\ loc[r].lo \in Offsets /\ latestoffset >= 0
       /\ slot[loc[r].lo].pkttime > 0
       /\ Dist(loc[r].lo, latestoffset) + Begun <= last_pkttime - loc[r].began + 1
       /\ \/ earliestoffset = loc[r].lo
          \/ Dist(loc[r].lo, earliestoffset) > Dist(loc[r].lo, latestoffset) + Begun

\* The latest packet known bounds the walk.
Bound(r) ==
  InNext(r) =>
    /\ pc[r] \in {"rp_sample", "rp_copy"} => off[r] = loc[r].lo
    /\ pc[r] \notin {"rp_sample", "rp_copy"} => loc[r].latesttime = slot[loc[r].lo].pkttime
    /\ reader[r].pktoffset >= 0 => reader[r].pkttime <= slot[loc[r].lo].pkttime
    /\ pc[r] \in Reading => ptime[r] <= slot[loc[r].lo].pkttime
    /\ pc[r] = "rn_reposition" /\ off[r] \in Offsets =>
         /\ off[r] # loc[r].lo
         /\ Dist(loc[r].lo, off[r]) <= Dist(loc[r].lo, latestoffset) + Begun

\* The call began with a reader on a packet.
Resumes(r) == op[r] = "next" /\ from[r].pktoffset >= 0

\* The slots the walk has before it, off first and lo last, are newer than
\* the packet the call began with.
Forward(r) ==
  Resumes(r) =>
    /\ pc[r] \notin Finds
    /\ pc[r] \in {"rn_latest", "rp_sample", "rp_copy"} => reader[r] = from[r]
    /\ reader[r].pktoffset >= 0 /\ from[r].pkttime <= reader[r].pkttime
    /\ pc[r] \in {"rp_sample", "rp_copy"} =>
         /\ reader[r].pktoffset # loc[r].lo
         /\ \A x \in Offsets :
              Dist(x, loc[r].lo) < Dist(reader[r].pktoffset, loc[r].lo) =>
                Newer(x, from[r].pkttime)
    /\ pc[r] \in Walking =>
         /\ off[r] \in Offsets
         /\ \A x \in Offsets :
              Dist(x, loc[r].lo) <= Dist(off[r], loc[r].lo) => Newer(x, from[r].pkttime)
    /\ pc[r] \in Reading => from[r].pkttime < ptime[r]

\* No packet after the one the call began with was passed over, up to time t.
Unselected(r, t) ==
  \A q \in written : from[r].pkttime < q.pkttime /\ q.pkttime <= t => q.streamid \notin Selected[r]
UnselectedBefore(r, t) ==
  \A q \in written : from[r].pkttime < q.pkttime /\ q.pkttime < t => q.streamid \notin Selected[r]

\* RingReadNext() of a reader that keeps up.
Gapless(r) ==
  Resumes(r) /\ AllKept(from[r].pkttime) =>
    /\ pc[r] = "rn_sample" => /\ off[r] = NextOffset(reader[r].pktoffset)
                              /\ reader[r].pktoffset # loc[r].lo
                              /\ Unselected(r, reader[r].pkttime)
    /\ pc[r] # "rn_reposition"
    /\ pc[r] \in Reading => UnselectedBefore(r, ptime[r])
    /\ pc[r] = "idle" =>
         {q \in After(from[r].pkttime) :
            q.pkttime <= reader[r].pkttime /\ q.streamid \in Selected[r]}
           = IF Delivered(r) THEN {rv[r].pkt} ELSE {}

MovesForward(r) == Returned(r) /\ Delivered(r) => rv[r].pkt.pkttime > FromTime(r)

DeliveryOf(r) ==
  PlaceOf(r) /\ Frame(r) /\ Bound(r) /\ Forward(r) /\ Gapless(r) /\ MovesForward(r)

DeliveryInv ==
  /\ DOMAIN from = Readers
  /\ \A r \in Readers : DeliveryOf(r)

-----------------------------------------------------------------------------
(* Arithmetic of the slots.                                                *)

LEMMA DistFacts ==
  ASSUME NEW a \in Offsets, NEW b \in Offsets
  PROVE  /\ Dist(a, b) \in Offsets
         /\ Dist(a, b) = 0 <=> a = b
         /\ a # b => Dist(NextOffset(a), b) = Dist(a, b) - 1
         /\ NextOffset(a) # a
BY ReadersAssumption DEF Dist, Offsets, NextOffset

(* Distances are natural numbers.                                          *)
LEMMA DistNat ==
  ASSUME NEW a \in Offsets, NEW b \in Offsets
  PROVE  Dist(a, b) \in Nat
BY DistFacts DEF Offsets

(* Two slots at the same distance are one.                                 *)
LEMMA DistInjective ==
  ASSUME NEW a \in Offsets, NEW b \in Offsets, NEW c \in Offsets
  PROVE  /\ Dist(a, b) = Dist(a, c) => b = c
         /\ Dist(a, c) = Dist(b, c) => a = b
BY ReadersAssumption DEF Dist, Offsets

(* A step forward is one further away, but for the step to the start.      *)
LEMMA DistStep ==
  ASSUME NEW a \in Offsets, NEW b \in Offsets
  PROVE  NextOffset(b) # a => Dist(a, NextOffset(b)) = Dist(a, b) + 1
BY ReadersAssumption DEF Dist, Offsets, NextOffset

(* Distances one way and the other.                                        *)
LEMMA DistBack ==
  ASSUME NEW a \in Offsets, NEW b \in Offsets, NEW c \in Offsets
  PROVE  /\ a # b => Dist(a, b) + Dist(b, a) = MaxPackets
         /\ Dist(a, b) <= Dist(a, c) => Dist(b, c) = Dist(a, c) - Dist(a, b)
         /\ Dist(a, b) > Dist(a, c) => Dist(b, c) = Dist(a, c) - Dist(a, b) + MaxPackets
BY ReadersAssumption DEF Dist, Offsets

(* The latest packet has the highest rank.                                 *)
LEMMA RankFacts ==
  ASSUME WriterTypes
  PROVE  /\ TargetOffset \in Offsets
         /\ \A x \in Offsets : Rank(x) \in Offsets /\ (Rank(x) = 0 <=> x = TargetOffset)
         /\ latestoffset >= 0 =>
              /\ latestoffset \in Offsets /\ latestoffset # TargetOffset
              /\ Rank(latestoffset) = MaxPackets - 1
              /\ NextOffset(latestoffset) = TargetOffset
<1>1. latestoffset \in Offsets \cup {-1}
  BY DEF WriterTypes
<1>2. TargetOffset \in Offsets
  BY <1>1, ReadersAssumption DEF TargetOffset, NextOffset, Offsets
<1>3. \A x \in Offsets : Rank(x) \in Offsets /\ (Rank(x) = 0 <=> x = TargetOffset)
  BY <1>2, DistFacts DEF Rank
<1>4. latestoffset >= 0 =>
        /\ latestoffset \in Offsets /\ latestoffset # TargetOffset
        /\ Rank(latestoffset) = MaxPackets - 1
        /\ NextOffset(latestoffset) = TargetOffset
  BY <1>1, ReadersAssumption DEF TargetOffset, NextOffset, Offsets, Rank, Dist
<1> QED
  BY <1>2, <1>3, <1>4

-----------------------------------------------------------------------------
(* The writer's steps, by what they do to the ring.                        *)

\* Stamping: the earliest packet is dropped from a full ring.
Begins ==
  /\ wpc = "idle" /\ wpc' \in {"idle", "invalidate"}
  /\ wpc' = "invalidate" => woff' = TargetOffset
  /\ UNCHANGED <<slot, latestoffset, written>>
  /\ last_pkttime' = last_pkttime + 1
  /\ earliestoffset' = IF Full THEN NextOffset(earliestoffset) ELSE earliestoffset
  /\ \A r \in Readers : pc[r] # "idle" => last_pkttime - loc[r].began < Pace

\* Filling the slot: its stamp is unset.
Fills ==
  /\ wpc \in Unpublished /\ wpc' \in {"payload", "header"}
  /\ UNCHANGED <<woff, earliestoffset, latestoffset, written, last_pkttime>>
  /\ slot'[woff].pkttime = NSTUNSET
  /\ \A o \in Offsets \ {woff} : slot'[o] = slot[o]

Publishes ==
  /\ wpc = "header" /\ wpc' = "earliest"
  /\ UNCHANGED <<woff, earliestoffset, latestoffset, last_pkttime>>
  /\ wpkt \in PacketType /\ wpkt.pkttime = last_pkttime
  /\ slot'[woff] = wpkt /\ slot[woff].pkttime = NSTUNSET
  /\ \A o \in Offsets \ {woff} : slot'[o] = slot[o]
  /\ written' = written \cup {wpkt}

SetsEarliest ==
  /\ wpc = "earliest" /\ wpc' = "latest"
  /\ UNCHANGED <<slot, woff, latestoffset, written, last_pkttime>>
  /\ earliestoffset' = IF earliestoffset < 0 THEN woff ELSE earliestoffset

Commit ==
  /\ wpc = "latest" /\ wpc' = "idle" /\ latestoffset' = woff
  /\ UNCHANGED <<slot, woff, earliestoffset, written, last_pkttime>>

WriterStep == Begins \/ Fills \/ Publishes \/ SetsEarliest \/ Commit

(* Every step of the writer is one of these.                               *)
LEMMA WriterSteps ==
  ASSUME PositionInv, PositionInv', Write \/ Writing
  PROVE  WriterStep /\ UNCHANGED rvars
<1>1. /\ WriterTypes /\ StampsNamePackets /\ SlotsHoldPackets /\ EndsOK
      /\ SlotsHoldPackets' /\ WriterTypes'
  BY DEF PositionInv, SeqlockInv, WriterInv
<1>2. CASE Write
  BY <1>2 DEF Write, WStart, WError, MayWrite, WriterStep, Begins
<1>3. CASE WInvalidate \/ WPayload \/ \E f \in {"pktid", "streamid"} : WHeader(f)
  <2>1. /\ wpc \in Unpublished /\ wpc' \in {"payload", "header"}
        /\ UNCHANGED <<woff, earliestoffset, latestoffset, written, last_pkttime, rvars>>
    BY <1>3 DEF WInvalidate, WPayload, WHeader, Unpublished
  <2>2. \A o \in Offsets \ {woff} : slot'[o] = slot[o]
    BY <1>1, <1>3 DEF WInvalidate, WPayload, WHeader, WriterTypes
  <2>3. slot'[woff].pkttime = NSTUNSET
    BY <1>1, <2>1 DEF SlotsHoldPackets
  <2> QED
    BY <2>1, <2>2, <2>3 DEF WriterStep, Fills
<1>4. CASE WPublish
  <2>1. /\ wpc = "header" /\ wpc' = "earliest" /\ wtodo = {}
        /\ slot' = [slot EXCEPT ![woff].pkttime = wpkt.pkttime]
        /\ UNCHANGED <<woff, earliestoffset, latestoffset, last_pkttime, rvars>>
        /\ written' = written \cup {wpkt}
    BY <1>4 DEF WPublish
  <2>2. \A o \in Offsets \ {woff} : slot'[o] = slot[o]
    BY <1>1, <2>1 DEF WriterTypes
  <2>3. /\ slot[woff] \in PacketType /\ wpkt \in PacketType /\ slot'[woff] \in PacketType
        /\ slot[woff].pkttime = NSTUNSET
        /\ slot[woff].data = wpkt.data /\ slot[woff].pktid = wpkt.pktid
        /\ slot[woff].streamid = wpkt.streamid /\ wpkt.pkttime = last_pkttime
    BY <1>1, <2>1 DEF WriterTypes, SlotsHoldPackets, StampsNamePackets, Unpublished
  <2>4. /\ slot'[woff].pkttime = wpkt.pkttime /\ slot'[woff].data = wpkt.data
        /\ slot'[woff].pktid = wpkt.pktid /\ slot'[woff].streamid = wpkt.streamid
    BY <1>1, <2>1, <2>3 DEF WriterTypes, PacketType
  <2>5. slot'[woff] = wpkt
    BY <2>3, <2>4, SameFields
  <2> QED
    BY <2>1, <2>2, <2>3, <2>5 DEF WriterStep, Publishes
<1>5. CASE WEarliest
  BY <1>5 DEF WEarliest, WriterStep, SetsEarliest
<1>6. CASE WLatest
  BY <1>6 DEF WLatest, WriterStep, Commit
<1> QED
  BY <1>2, <1>3, <1>4, <1>5, <1>6 DEF Writing


(* A reader's step leaves the ring alone.                                  *)
LEMMA ReaderLeavesRing ==
  ASSUME NEW r \in Readers, ReadStep(r) \/ CallReadNext(r) \/ ClientCommand(r)
  PROVE  UNCHANGED wvars
<1>1. CASE \/ \E f \in Whole : CopyField(r, f)
           \/ RPSample(r) \/ RPNone(r) \/ FEarliest(r) \/ FLatest(r) \/ FSample(r) \/ FId(r)
           \/ FCheckEarliest(r) \/ FCheckLatest(r) \/ FMiss(r)
  BY <1>1, Zenon
     DEF CopyField, RPSample, RPNone, FEarliest, FLatest, FSample, FId, FCheckEarliest,
         FCheckLatest, FMiss, FSampleNext
<1>2. CASE \/ RNEmpty(r) \/ RNCaughtUp(r) \/ RNLatest(r) \/ RNBegin(r) \/ Found(r)
           \/ RNNotFound(r) \/ RNSample(r) \/ RNLapped(r) \/ RNReposition(r) \/ RNWild(r)
  BY <1>2, Zenon
     DEF RNEmpty, RNCaughtUp, RNLatest, RNBegin, Found, RNNotFound, RNSample, RNLapped,
         RNReposition, RNWild
<1>3. CASE \/ RNPosition(r) \/ RNMatch(r) \/ RNSkip(r) \/ RNReturn(r)
           \/ PSResolved(r) \/ PSTime(r) \/ PSCheck(r)
           \/ PBDone(r) \/ RDReturn(r) \/ NotFound(r) \/ CallReadNext(r)
  BY <1>3, Zenon
     DEF RNPosition, RNMatch, RNSkip, RNReturn, PSResolved, PSTime, PSCheck, PBDone, RDReturn,
         NotFound, CallReadNext
<1>4. CASE ClientCommand(r)
  BY <1>4, Zenon DEF ClientCommand, CallPosition, CallPositionBefore, CallRead
<1> QED
  BY <1>1, <1>2, <1>3, <1>4 DEF ReadStep

-----------------------------------------------------------------------------
(* The slots stay in order of time.                                        *)

(* The stamps in the slots are of packets written.                         *)
LEMMA SlotTimes ==
  ASSUME PositionInv, NEW x \in Offsets
  PROVE  /\ slot[x].pkttime \in Int /\ slot[x].pkttime >= -1
         /\ slot[x].pkttime <= last_pkttime
         /\ slot[x].pkttime > 0 => slot[x] \in written
         /\ wpc \in Unpublished => slot[x].pkttime < last_pkttime
<1>1. WriterTypes /\ StampsNamePackets /\ SlotsHoldPackets
  BY DEF PositionInv, SeqlockInv
<1>2. slot[x].pkttime \in Int /\ slot[x].pkttime >= -1 /\ last_pkttime \in Nat
  BY <1>1 DEF WriterTypes, PacketType, NSTUNSET
<1>3. slot[x].pkttime # NSTUNSET => slot[x] \in written \/ slot[x].pkttime = 0
  BY <1>1, BlankPacket DEF SlotsHoldPackets
<1>4. slot[x] \in written =>
        /\ slot[x].pkttime <= last_pkttime
        /\ wpc \in Unpublished => slot[x].pkttime < last_pkttime
  BY <1>1 DEF StampsNamePackets, WriterTypes
<1>5. wpc \in Unpublished => last_pkttime > 0
  BY <1>1 DEF StampsNamePackets
<1> QED
  BY <1>2, <1>3, <1>4, <1>5 DEF NSTUNSET

(* What the invariants say of the writer.                                  *)
LEMMA WriterFacts ==
  ASSUME PositionInv
  PROVE  /\ WriterTypes /\ StampsNamePackets /\ SlotsHoldPackets
         /\ EndsOK /\ NewestCommits /\ FillsInOrder
         /\ woff \in Offsets /\ earliestoffset \in Offsets \cup {-1}
         /\ latestoffset \in Offsets \cup {-1} /\ last_pkttime \in Nat
         /\ wpc # "idle" => woff = TargetOffset
BY DEF PositionInv, SeqlockInv, WriterInv, WriterTypes, EndsOK

(* In a ring that is not empty: the earliest packet is not being replaced, *)
(* nor is the latest, which is the newest of those committed.              *)
LEMMA EndsInOrder ==
  ASSUME PositionInv, OrderInv, latestoffset >= 0
  PROVE  /\ earliestoffset \in Offsets /\ latestoffset \in Offsets
         /\ ~Busy(earliestoffset) /\ ~Busy(latestoffset)
         /\ slot[earliestoffset].pkttime > 0
         /\ slot[earliestoffset].pkttime <= slot[latestoffset].pkttime
         /\ \A x \in Offsets : ~Busy(x) => slot[x].pkttime <= slot[latestoffset].pkttime
         /\ wpc \in Commits => slot[latestoffset].pkttime < last_pkttime
<1>1. /\ WriterTypes /\ EndsOK /\ NewestCommits /\ woff \in Offsets
      /\ wpc # "idle" => woff = TargetOffset
  BY WriterFacts
<1>2. /\ earliestoffset \in Offsets /\ slot[earliestoffset].pkttime > 0
      /\ wpc # "idle" => earliestoffset # woff
  BY DEF OrderInv, EarliestInPlace
<1>3. /\ latestoffset \in Offsets /\ latestoffset # TargetOffset
      /\ Rank(latestoffset) = MaxPackets - 1
  BY <1>1, RankFacts
<1>4. ~Busy(earliestoffset) /\ ~Busy(latestoffset)
  BY <1>1, <1>2, <1>3 DEF Busy
<1>5. ASSUME NEW x \in Offsets, ~Busy(x), slot[x].pkttime > 0
      PROVE  slot[x].pkttime <= slot[latestoffset].pkttime
  <2>1. CASE x = latestoffset
    BY <1>3, <2>1, SlotTimes
  <2>2. CASE x # latestoffset
    <3>1. Rank(x) \in Offsets /\ Rank(x) # Rank(latestoffset)
      BY <1>1, <1>3, <2>2, RankFacts, DistInjective DEF Rank
    <3>2. Rank(x) < Rank(latestoffset)
      BY <1>3, <3>1, ReadersAssumption DEF Offsets
    <3>3. slot[x].pkttime < slot[latestoffset].pkttime
      BY <1>3, <1>5, <3>2 DEF OrderInv, RingOrder
    <3> QED
      BY <1>3, <3>3, SlotTimes
  <2> QED
    BY <2>1, <2>2
<1>6. slot[earliestoffset].pkttime <= slot[latestoffset].pkttime
  BY <1>2, <1>4, <1>5
<1>7. \A x \in Offsets : ~Busy(x) => slot[x].pkttime <= slot[latestoffset].pkttime
  BY <1>2, <1>3, <1>5, <1>6, SlotTimes
<1>8. wpc \in Commits => slot[latestoffset].pkttime < last_pkttime
  BY <1>1, <1>3 DEF NewestCommits, Commits
<1> QED
  BY <1>2, <1>3, <1>4, <1>6, <1>7, <1>8

(* Where the ring is full.                                                 *)
LEMMA FullRing ==
  ASSUME PositionInv, OrderInv
  PROVE  /\ Full <=> latestoffset >= 0 /\ earliestoffset = TargetOffset
         /\ Full => /\ NextOffset(earliestoffset) \in Offsets
                    /\ Rank(earliestoffset) = 0 /\ Rank(NextOffset(earliestoffset)) = 1
                    /\ slot[earliestoffset].pkttime < slot[NextOffset(earliestoffset)].pkttime
<1>1. WriterTypes
  BY WriterFacts
<1>2. Full <=> latestoffset >= 0 /\ earliestoffset = TargetOffset
  BY <1>1, RankFacts, ReadersAssumption DEF Full, TargetOffset, Offsets
<1>3. ASSUME Full
      PROVE  /\ NextOffset(earliestoffset) \in Offsets
             /\ Rank(earliestoffset) = 0 /\ Rank(NextOffset(earliestoffset)) = 1
             /\ slot[earliestoffset].pkttime < slot[NextOffset(earliestoffset)].pkttime
  <2>1. latestoffset >= 0 /\ earliestoffset = TargetOffset
    BY <1>2, <1>3
  <2>2. /\ earliestoffset \in Offsets /\ ~Busy(earliestoffset)
        /\ slot[earliestoffset].pkttime > 0
    BY <2>1, EndsInOrder
  <2>3. NextOffset(earliestoffset) \in Offsets
    BY <2>2, NextOffsetInBuffer
  <2>4. Rank(earliestoffset) = 0 /\ Rank(NextOffset(earliestoffset)) = 1
    BY <2>1, <2>2, ReadersAssumption DEF Rank, Dist, NextOffset, Offsets
  <2> QED
    BY <2>2, <2>3, <2>4 DEF OrderInv, RingOrder
<1> QED
  BY <1>2, <1>3

LEMMA BeginsOrder ==
  ASSUME PositionInv, PositionInv', OrderInv, Begins
  PROVE  OrderInv'
<1>1. WriterTypes /\ EndsOK /\ earliestoffset \in Offsets \cup {-1}
  BY WriterFacts
<1>2. TargetOffset' = TargetOffset /\ \A x : Rank(x)' = Rank(x)
  BY DEF Begins, TargetOffset, Rank
<1>3. \A x : ~Busy(x) /\ ~Busy(x)'
  BY DEF Begins, Busy
<1>4. RingOrder'
  BY <1>2, <1>3 DEF Begins, RingOrder, OrderInv
<1>5. OneUnset'
  BY <1>3 DEF Begins, OneUnset, OrderInv
<1>6. latestoffset < 0 => earliestoffset' = -1 /\ earliestoffset = -1
  BY <1>1, FullRing DEF Begins, OrderInv, EmptyAtFirst, WriterTypes, Offsets
<1>7. EmptyAtFirst'
  BY <1>3, <1>6 DEF Begins, EmptyAtFirst, OrderInv
<1>8. EarliestInPlace'
  <2> SUFFICES ASSUME latestoffset >= 0
               PROVE  EarliestInPlace'
    BY DEF Begins, EarliestInPlace
  <2>1. earliestoffset \in Offsets /\ slot[earliestoffset].pkttime > 0
    BY EndsInOrder
  <2>2. CASE Full
    <3>1. /\ earliestoffset = TargetOffset /\ earliestoffset' = NextOffset(earliestoffset)
          /\ earliestoffset' \in Offsets /\ Rank(earliestoffset') = 1
          /\ slot[earliestoffset].pkttime < slot[earliestoffset'].pkttime
      BY <2>2, FullRing DEF Begins
    <3>2. slot[earliestoffset'].pkttime > 0
      BY <2>1, <3>1, SlotTimes
    <3>3. ASSUME NEW x \in Offsets, Rank(x) < Rank(earliestoffset')
          PROVE  NextOffset(x) = earliestoffset'
      <4>1. Rank(x) = 0
        BY <1>1, <3>1, <3>3, RankFacts DEF Offsets
      <4> QED
        BY <1>1, <3>1, <4>1, RankFacts
    <3>4. earliestoffset' # TargetOffset
      BY <2>1, <3>1, DistFacts
    <3>5. Rank(earliestoffset)' = Rank(earliestoffset')
      BY <1>2 DEF Rank
    <3> QED
      BY <1>2, <3>1, <3>2, <3>3, <3>4, <3>5 DEF Begins, EarliestInPlace
  <2>3. CASE ~Full
    <3>1. earliestoffset # TargetOffset /\ earliestoffset' = earliestoffset
      BY <2>3, FullRing DEF Begins
    <3>2. Rank(earliestoffset)' = Rank(earliestoffset)
      BY <1>2, <3>1 DEF Rank
    <3> QED
      BY <1>2, <1>3, <3>1, <3>2 DEF Begins, EarliestInPlace, OrderInv
  <2> QED
    BY <2>2, <2>3
<1>9. Contents'
  <2>1. ASSUME NEW q \in written, Gone(q.pkttime)
        PROVE  Gone(q.pkttime)'
    <3>1. CASE Full
      <4>1. /\ earliestoffset' = NextOffset(earliestoffset) /\ earliestoffset' \in Offsets
            /\ slot[earliestoffset].pkttime < slot[earliestoffset'].pkttime
            /\ earliestoffset \in Offsets
        BY <1>1, <3>1, FullRing DEF Begins, Full, Offsets
      <4>2. q.pkttime \in Int
        BY <1>1 DEF WriterTypes, PacketType, NSTUNSET
      <4> QED
        BY <2>1, <4>1, <4>2, SlotTimes DEF Gone, Begins, Offsets
    <3>2. CASE ~Full
      BY <2>1, <3>2 DEF Gone, Begins
    <3> QED
      BY <3>1, <3>2
  <2> QED
    BY <2>1 DEF Begins, Contents, OrderInv
<1> QED
  BY <1>4, <1>5, <1>7, <1>8, <1>9 DEF OrderInv

LEMMA FillsOrder ==
  ASSUME PositionInv, PositionInv', OrderInv, Fills
  PROVE  OrderInv'
<1>1. /\ WriterTypes /\ EndsOK /\ StampsNamePackets /\ SlotsHoldPackets
      /\ woff = TargetOffset /\ woff \in Offsets
  BY WriterFacts DEF Fills, Unpublished
<1>2. TargetOffset' = TargetOffset /\ (\A x : Rank(x)' = Rank(x)) /\ Rank(woff) = 0
  BY <1>1, RankFacts DEF Fills, TargetOffset, Rank
<1>3. /\ \A x : Busy(x)' <=> x = woff
      /\ \A x : Busy(x) => x = woff
  BY DEF Fills, Busy
<1>4. \A x \in Offsets : Rank(x) \in Nat
  BY <1>1, RankFacts DEF Offsets
<1>5. RingOrder'
  <2> SUFFICES ASSUME NEW x \in Offsets, NEW y \in Offsets,
                      x # woff, slot'[x].pkttime > 0, Rank(x) < Rank(y)
               PROVE  slot'[x].pkttime < slot'[y].pkttime
    BY <1>2, <1>3 DEF RingOrder
  <2>1. y # woff
    BY <1>2, <1>4
  <2> QED
    BY <1>3, <2>1 DEF Fills, OrderInv, RingOrder
<1>6. OneUnset'
  BY <1>3 DEF Fills, OrderInv, OneUnset
<1>7. EmptyAtFirst'
  BY <1>3 DEF Fills, Unpublished, OrderInv, EmptyAtFirst
<1>8. EarliestInPlace'
  BY <1>2, <1>3 DEF Fills, Unpublished, OrderInv, EarliestInPlace
<1>9. Contents'
  <2> SUFFICES ASSUME NEW q \in written
               PROVE  Gone(q.pkttime)' \/ \E y \in Offsets : slot'[y] = q
    BY DEF Contents, Fills
  <2>1. earliestoffset >= 0 => earliestoffset # woff
    BY <1>1 DEF Fills, Unpublished, OrderInv, EmptyAtFirst, EarliestInPlace, WriterTypes, Offsets
  <2>2. Gone(q.pkttime)' <=> Gone(q.pkttime)
    BY <1>1, <2>1 DEF Gone, Fills, EndsOK, Offsets
  <2>3. ASSUME slot[woff] = q
        PROVE  Gone(q.pkttime)
    <3>1. slot[woff].pkttime > 0 /\ slot[woff].pkttime \in Int
      BY <1>1, <2>3 DEF StampsNamePackets, WriterTypes
    <3>2. wpc = "invalidate"
      BY <1>1, <3>1 DEF SlotsHoldPackets, Fills, Unpublished, NSTUNSET
    <3>3. ~Busy(woff)
      BY <3>2 DEF Busy
    <3>4. latestoffset >= 0
      BY <1>1, <3>1, <3>3 DEF OrderInv, EmptyAtFirst, WriterTypes, Offsets
    <3>5. earliestoffset \in Offsets /\ earliestoffset # woff
      BY <3>2, <3>4 DEF OrderInv, EarliestInPlace
    <3>6. Rank(woff) < Rank(earliestoffset)
      BY <1>1, <1>2, <1>4, <3>5, RankFacts
    <3>7. slot[woff].pkttime < slot[earliestoffset].pkttime
      BY <1>1, <3>1, <3>3, <3>5, <3>6 DEF OrderInv, RingOrder
    <3> QED
      BY <2>3, <3>5, <3>7 DEF Gone, Offsets
  <2> QED
    BY <2>2, <2>3 DEF Fills, OrderInv, Contents
<1> QED
  BY <1>5, <1>6, <1>7, <1>8, <1>9 DEF OrderInv

LEMMA PublishesOrder ==
  ASSUME PositionInv, PositionInv', OrderInv, Publishes
  PROVE  OrderInv'
<1>1. /\ WriterTypes /\ EndsOK /\ StampsNamePackets /\ SlotsHoldPackets
      /\ woff = TargetOffset /\ woff \in Offsets
  BY WriterFacts DEF Publishes
<1>2. TargetOffset' = TargetOffset /\ (\A x : Rank(x)' = Rank(x)) /\ Rank(woff) = 0
  BY <1>1, RankFacts DEF Publishes, TargetOffset, Rank
<1>3. /\ \A x : Busy(x)' <=> x = woff
      /\ \A x : Busy(x) <=> x = woff
  BY DEF Publishes, Busy
<1>4. \A x \in Offsets : Rank(x) \in Nat
  BY <1>1, RankFacts DEF Offsets
<1>5. RingOrder'
  <2> SUFFICES ASSUME NEW x \in Offsets, NEW y \in Offsets,
                      x # woff, slot'[x].pkttime > 0, Rank(x) < Rank(y)
               PROVE  slot'[x].pkttime < slot'[y].pkttime
    BY <1>2, <1>3 DEF RingOrder
  <2>1. y # woff
    BY <1>2, <1>4
  <2> QED
    BY <1>3, <2>1 DEF Publishes, OrderInv, RingOrder
<1>6. OneUnset'
  BY <1>3 DEF Publishes, OrderInv, OneUnset
<1>7. EmptyAtFirst'
  BY <1>3 DEF Publishes, OrderInv, EmptyAtFirst
<1>8. EarliestInPlace'
  BY <1>2, <1>3 DEF Publishes, OrderInv, EarliestInPlace
<1>9. Contents'
  <2>1. earliestoffset >= 0 => earliestoffset # woff
    BY <1>1 DEF Publishes, OrderInv, EmptyAtFirst, EarliestInPlace, WriterTypes, Offsets
  <2>2. \A t : Gone(t)' <=> Gone(t)
    BY <1>1, <2>1 DEF Gone, Publishes, EndsOK, Offsets
  <2>3. ASSUME NEW q \in written
        PROVE  slot[woff] # q
    BY <1>1 DEF Publishes, StampsNamePackets, NSTUNSET
  <2>4. ASSUME NEW q \in written
        PROVE  Gone(q.pkttime)' \/ \E y \in Offsets : slot'[y] = q
    BY <2>2, <2>3 DEF Publishes, OrderInv, Contents
  <2> QED
    BY <1>1, <2>4 DEF Contents, Publishes
<1> QED
  BY <1>5, <1>6, <1>7, <1>8, <1>9 DEF OrderInv

LEMMA EarliestOrder ==
  ASSUME PositionInv, PositionInv', OrderInv, SetsEarliest
  PROVE  OrderInv'
<1>1. WriterTypes /\ EndsOK /\ woff \in Offsets
  BY WriterFacts
<1>2. \A x : (Rank(x)' = Rank(x)) /\ (Busy(x)' <=> Busy(x))
  BY DEF SetsEarliest, TargetOffset, Rank, Busy
<1>3. latestoffset >= 0 => earliestoffset' = earliestoffset
  BY <1>1 DEF SetsEarliest, EndsOK, Offsets
<1>4. latestoffset < 0 => earliestoffset = -1 /\ earliestoffset' = woff
  BY <1>1 DEF SetsEarliest, OrderInv, EmptyAtFirst
<1>5. RingOrder' /\ OneUnset'
  BY <1>2 DEF SetsEarliest, OrderInv, RingOrder, OneUnset
<1>6. EmptyAtFirst'
  BY <1>2, <1>4 DEF SetsEarliest, OrderInv, EmptyAtFirst
<1>7. EarliestInPlace'
  <2> SUFFICES ASSUME latestoffset >= 0
               PROVE  EarliestInPlace'
    BY DEF SetsEarliest, EarliestInPlace
  <2>1. Rank(earliestoffset)' = Rank(earliestoffset) /\ earliestoffset' = earliestoffset
    BY <1>2, <1>3 DEF Rank
  <2> QED
    BY <1>2, <2>1 DEF SetsEarliest, OrderInv, EarliestInPlace
<1>8. Contents'
  BY <1>1 DEF SetsEarliest, OrderInv, Contents, Gone, EndsOK, Offsets
<1> QED
  BY <1>5, <1>6, <1>7, <1>8 DEF OrderInv

(* Once the packet is the latest, the next slot is the one written next.   *)
LEMMA CommitRanks ==
  ASSUME PositionInv, Commit
  PROVE  /\ woff \in Offsets /\ latestoffset' = woff /\ TargetOffset' = NextOffset(woff)
         /\ Rank(woff) = 0
         /\ \A x \in Offsets : x = woff => Rank(x)' = MaxPackets - 1
         /\ \A x \in Offsets : x # woff => Rank(x)' = Rank(x) - 1 /\ Rank(x) > 0
<1>1. WriterTypes /\ woff = TargetOffset /\ woff \in Offsets
  BY WriterFacts DEF Commit
<1>2. latestoffset' = woff /\ TargetOffset' = NextOffset(woff)
  BY <1>1 DEF Commit, TargetOffset, Offsets
<1>3. \A x : Rank(x)' = Dist(NextOffset(woff), x)
  BY <1>1, <1>2 DEF Rank, Dist
<1>4. Dist(NextOffset(woff), woff) = MaxPackets - 1 /\ Dist(woff, woff) = 0
  BY <1>1, ReadersAssumption DEF Dist, NextOffset, Offsets
<1>5. \A x \in Offsets : x # woff => /\ Dist(NextOffset(woff), x) = Dist(woff, x) - 1
                                     /\ Dist(woff, x) > 0
  BY <1>1, DistFacts DEF Offsets
<1> QED
  BY <1>1, <1>2, <1>3, <1>4, <1>5 DEF Rank

LEMMA CommitOrder ==
  ASSUME PositionInv, PositionInv', OrderInv, Commit
  PROVE  OrderInv'
<1>1. WriterTypes /\ EndsOK /\ NewestCommits /\ woff \in Offsets /\ last_pkttime \in Nat
  BY WriterFacts
<1>2. /\ latestoffset' = woff
      /\ Rank(woff) = 0
      /\ \A x \in Offsets : x = woff => Rank(x)' = MaxPackets - 1
      /\ \A x \in Offsets : x # woff => Rank(x)' = Rank(x) - 1 /\ Rank(x) > 0
  BY CommitRanks
<1>3. \A x \in Offsets : Rank(x) \in 0 .. MaxPackets - 1
  BY <1>1, RankFacts DEF Offsets
<1>4. (\A x : ~Busy(x)') /\ (\A x : Busy(x) <=> x = woff)
  BY DEF Commit, Busy
<1>5. /\ slot[woff].pkttime = last_pkttime /\ last_pkttime > 0
      /\ \A o \in Offsets \ {woff} : slot[o].pkttime < last_pkttime
  BY <1>1 DEF Commit, NewestCommits, Commits
<1>6. RingOrder'
  <2> SUFFICES ASSUME NEW x \in Offsets, NEW y \in Offsets,
                      slot[x].pkttime > 0, Rank(x)' < Rank(y)'
               PROVE  slot[x].pkttime < slot[y].pkttime
    BY DEF RingOrder, Commit
  <2>1. x # woff
    BY <1>1, <1>2, <1>3, ReadersAssumption
  <2>2. CASE y = woff
    BY <1>5, <2>1, <2>2
  <2>3. CASE y # woff
    <3>1. Rank(x) < Rank(y)
      BY <1>2, <1>3, <2>1, <2>3
    <3> QED
      BY <1>4, <2>1, <3>1 DEF OrderInv, RingOrder
  <2> QED
    BY <2>2, <2>3
<1>7. OneUnset'
  BY <1>4, <1>5 DEF Commit, OrderInv, OneUnset, NSTUNSET
<1>8. EmptyAtFirst'
  BY <1>1, <1>2 DEF EmptyAtFirst, Offsets
<1>9. EarliestInPlace'
  <2>1. earliestoffset \in Offsets /\ slot[earliestoffset].pkttime > 0
    <3>1. CASE latestoffset >= 0
      BY <3>1 DEF OrderInv, EarliestInPlace
    <3>2. CASE latestoffset < 0
      BY <1>1, <1>5, <3>2 DEF OrderInv, EmptyAtFirst, Commit
    <3> QED
      BY <1>1, <3>1, <3>2 DEF WriterTypes, Offsets
  <2>2. ASSUME NEW x \in Offsets, slot[x].pkttime > 0, Rank(x)' < Rank(earliestoffset)'
        PROVE  NextOffset(x) = earliestoffset
    <3>0. Rank(earliestoffset)' = Dist(TargetOffset', earliestoffset)
      BY DEF Rank, Commit
    <3>1. x # woff
      <4>1. Rank(earliestoffset)' \in Offsets
        BY <1>1, <2>1, <3>0, CommitRanks, NextOffsetInBuffer, DistFacts
      <4> QED
        BY <1>2, <2>2, <4>1, ReadersAssumption DEF Offsets
    <3>2. CASE latestoffset >= 0
      <4>1. earliestoffset # woff
        BY <3>2 DEF OrderInv, EarliestInPlace, Commit
      <4>2. Rank(earliestoffset)' = Rank(earliestoffset) - 1
        BY <1>2, <2>1, <3>0, <4>1 DEF Rank
      <4>3. Rank(x) < Rank(earliestoffset)
        BY <1>2, <1>3, <2>1, <2>2, <3>1, <4>2
      <4> QED
        BY <1>4, <2>2, <3>1, <3>2, <4>3 DEF OrderInv, EarliestInPlace
    <3>3. CASE latestoffset < 0
      BY <1>4, <2>2, <3>1, <3>3 DEF OrderInv, EmptyAtFirst
    <3> QED
      BY <1>1, <3>2, <3>3 DEF WriterTypes, Offsets
  <2> QED
    BY <2>1, <2>2 DEF EarliestInPlace, Commit
<1>10. Contents'
  BY DEF Commit, OrderInv, Contents, Gone
<1> QED
  BY <1>6, <1>7, <1>8, <1>9, <1>10 DEF OrderInv

(* The packets in the buffer are in order of time from the earliest to the *)
(* latest, and every packet that was not dropped is there.                 *)
THEOREM OrderInvariant == Spec => []OrderInv
<1>1. Init => OrderInv
  BY BlankPacket, ReadersAssumption
     DEF Init, OrderInv, RingOrder, OneUnset, EmptyAtFirst, EarliestInPlace, Contents, NSTUNSET
<1>2. PositionInv /\ PositionInv' /\ OrderInv /\ [Next]_vars => OrderInv'
  <2> SUFFICES ASSUME PositionInv, PositionInv', OrderInv, [Next]_vars
               PROVE  OrderInv'
    OBVIOUS
  <2>1. CASE Write \/ Writing
    BY <2>1, WriterSteps, BeginsOrder, FillsOrder, PublishesOrder, EarliestOrder, CommitOrder
       DEF WriterStep
  <2>2. CASE UNCHANGED wvars
    <3>1. UNCHANGED <<slot, earliestoffset, latestoffset, wpc, woff, written>>
      BY <2>2 DEF wvars
    <3> QED
      BY <3>1 DEF OrderInv, RingOrder, OneUnset, EmptyAtFirst, EarliestInPlace, Contents, Gone,
                  Busy, Rank, TargetOffset
  <2>3. ASSUME NEW r \in Readers, ReadStep(r) \/ CallReadNext(r) \/ ClientCommand(r)
        PROVE  UNCHANGED wvars
    BY <2>3, ReaderLeavesRing
  <2> QED
    BY <2>1, <2>2, <2>3 DEF Next, vars
<1> QED
  BY <1>1, <1>2, PositionInvariant, PTL DEF Spec


-----------------------------------------------------------------------------
(* What the writer's steps do to a reader's place.                         *)

(* The two invariants of the ring, before and after a step.                *)
RingInv == PositionInv /\ OrderInv

(* No packet after time t has left a ring that is not empty.               *)
LEMMA KeptMeans ==
  ASSUME RingInv, latestoffset >= 0, NEW t
  PROVE  AllKept(t) <=> \A q \in written : q.pkttime > t => ~Gone(q.pkttime)
<1>1. earliestoffset \in Offsets /\ earliestoffset >= 0
  BY EndsInOrder DEF RingInv, Offsets
<1> QED
  BY <1>1 DEF AllKept, After, Evicted, Gone, Offsets

(* The earliest packet only ever gets newer.                               *)
LEMMA EarliestGrows ==
  ASSUME RingInv, RingInv', WriterStep, latestoffset >= 0
  PROVE  /\ latestoffset' >= 0
         /\ earliestoffset \in Offsets /\ earliestoffset' \in Offsets
         /\ slot[earliestoffset].pkttime \in Int /\ slot'[earliestoffset'].pkttime \in Int
         /\ slot[earliestoffset].pkttime <= slot'[earliestoffset'].pkttime
         /\ \/ /\ earliestoffset' = earliestoffset
               /\ slot'[earliestoffset] = slot[earliestoffset]
            \/ Begins /\ Full
<1>1. /\ earliestoffset \in Offsets /\ woff \in Offsets /\ slot[earliestoffset].pkttime \in Int
      /\ wpc # "idle" => earliestoffset # woff
  BY EndsInOrder, WriterFacts, SlotTimes DEF RingInv, OrderInv, EarliestInPlace
<1>2. CASE Begins /\ Full
  <2>1. /\ earliestoffset' = NextOffset(earliestoffset) /\ earliestoffset' \in Offsets
        /\ slot[earliestoffset].pkttime < slot[earliestoffset'].pkttime
        /\ slot' = slot /\ latestoffset' = latestoffset
    BY <1>2, FullRing DEF RingInv, Begins
  <2>2. slot[earliestoffset'].pkttime \in Int
    BY <2>1, SlotTimes DEF RingInv
  <2> QED
    BY <1>1, <1>2, <2>1, <2>2
<1>3. CASE ~(Begins /\ Full)
  <2>1. latestoffset' >= 0
    BY <1>1 DEF WriterStep, Begins, Fills, Publishes, SetsEarliest, Commit, Offsets
  <2>2. earliestoffset' = earliestoffset
    BY <1>1, <1>3 DEF WriterStep, Begins, Fills, Publishes, SetsEarliest, Commit, Offsets
  <2>3. slot'[earliestoffset] = slot[earliestoffset]
    BY <1>1, <1>3
       DEF WriterStep, Begins, Fills, Publishes, SetsEarliest, Commit, Unpublished
  <2> QED
    BY <1>1, <2>1, <2>2, <2>3
<1> QED
  BY <1>2, <1>3

(* A packet that has left the ring stays away.                             *)
LEMMA GoneStays ==
  ASSUME RingInv, RingInv', WriterStep, latestoffset >= 0, NEW t \in Int
  PROVE  /\ Gone(t) => Gone(t)'
         /\ AllKept(t)' => AllKept(t)
<1>1. ASSUME NEW u \in Int, Gone(u)
      PROVE  Gone(u)'
  BY <1>1, EarliestGrows DEF Gone, Offsets
<1>2. written \subseteq written'
  BY DEF WriterStep, Begins, Fills, Publishes, SetsEarliest, Commit
<1>3. \A q \in written : q.pkttime \in Int
  BY WriterFacts DEF RingInv, WriterTypes, PacketType, NSTUNSET
<1>4. AllKept(t)' <=> \A q \in written' : q.pkttime > t => ~Gone(q.pkttime)'
  <2>1. earliestoffset' \in Offsets /\ ~(earliestoffset' < 0) /\ earliestoffset' >= 0
    BY EarliestGrows DEF Offsets
  <2> QED
    BY <2>1 DEF AllKept, After, Evicted, Gone
<1> QED
  BY <1>1, <1>2, <1>3, <1>4, KeptMeans

(* A slot newer than a packet already committed stays newer.               *)
LEMMA NewerStays ==
  ASSUME RingInv, RingInv', WriterStep, latestoffset >= 0,
         NEW x \in Offsets, NEW t \in Int, t <= slot[latestoffset].pkttime, Newer(x, t)
  PROVE  Newer(x, t)'
<1>1. latestoffset \in Offsets /\ slot[latestoffset].pkttime \in Int /\ woff \in Offsets
  BY EndsInOrder, SlotTimes, WriterFacts DEF RingInv
<1>2. CASE slot'[x] = slot[x]
  BY <1>2 DEF Newer
<1>3. CASE Fills /\ x = woff
  BY <1>3 DEF Newer, Fills, NSTUNSET
<1>4. CASE Publishes /\ x = woff
  <2>1. slot[latestoffset].pkttime < last_pkttime /\ last_pkttime \in Nat
    BY <1>1, <1>4, SlotTimes, WriterFacts DEF RingInv, Publishes, Unpublished
  <2>2. slot'[x].pkttime = last_pkttime
    BY <1>4 DEF Publishes
  <2> QED
    BY <1>1, <2>1, <2>2 DEF Newer
<1> QED
  BY <1>1, <1>2, <1>3, <1>4 DEF WriterStep, Begins, Fills, Publishes, SetsEarliest, Commit

(* The latest packet only ever gets newer, and stays in its slot.          *)
LEMMA LatestGrows ==
  ASSUME RingInv, RingInv', WriterStep, latestoffset >= 0
  PROVE  /\ latestoffset \in Offsets /\ latestoffset' \in Offsets
         /\ slot[latestoffset].pkttime \in Int /\ slot'[latestoffset'].pkttime \in Int
         /\ slot[latestoffset].pkttime <= slot'[latestoffset'].pkttime
         /\ Commit => /\ slot[woff].pkttime = last_pkttime
                      /\ slot[latestoffset].pkttime < last_pkttime
         /\ ~Commit => latestoffset' = latestoffset
<1>1. /\ latestoffset \in Offsets /\ slot[latestoffset].pkttime \in Int
      /\ woff \in Offsets /\ latestoffset # TargetOffset
      /\ wpc # "idle" => woff = TargetOffset
  BY EndsInOrder, SlotTimes, WriterFacts, RankFacts DEF RingInv
<1>2. CASE Commit
  <2>1. slot[woff].pkttime = last_pkttime /\ slot[latestoffset].pkttime < last_pkttime
    BY <1>1, <1>2, WriterFacts DEF RingInv, NewestCommits, Commits, Commit
  <2>2. last_pkttime \in Nat /\ slot' = slot /\ latestoffset' = woff
    BY <1>2, WriterFacts DEF RingInv, Commit
  <2> QED
    BY <1>1, <1>2, <2>1, <2>2
<1>3. CASE ~Commit
  <2>1. latestoffset' = latestoffset
    BY <1>3 DEF WriterStep, Begins, Fills, Publishes, SetsEarliest
  <2>2. slot'[latestoffset] = slot[latestoffset]
    BY <1>1, <1>3 DEF WriterStep, Begins, Fills, Publishes, SetsEarliest, Unpublished
  <2> QED
    BY <1>1, <1>3, <2>1, <2>2
<1> QED
  BY <1>2, <1>3

(* The slots after a place stay newer.                                     *)
LEMMA BehindStays ==
  ASSUME RingInv, RingInv', WriterStep, latestoffset >= 0,
         NEW o \in Offsets, NEW t \in Int, t <= slot[latestoffset].pkttime, Behind(o, t)
  PROVE  Behind(o, t)'
<1> SUFFICES ASSUME NEW x \in Offsets, Rank(o)' < Rank(x)'
             PROVE  Newer(x, t)'
  BY DEF Behind
<1>1. CASE Commit
  <2>1. /\ \A y \in Offsets : y = woff => Rank(y)' = MaxPackets - 1
        /\ \A y \in Offsets : y # woff => Rank(y)' = Rank(y) - 1
        /\ \A y \in Offsets : Rank(y) \in 0 .. MaxPackets - 1
    BY <1>1, CommitRanks, RankFacts, WriterFacts DEF RingInv, Offsets
  <2>2. o # woff
    BY <2>1, ReadersAssumption
  <2>3. CASE x = woff
    <3>1. slot'[x].pkttime = last_pkttime /\ slot[latestoffset].pkttime < last_pkttime
          /\ slot[latestoffset].pkttime \in Int /\ last_pkttime \in Nat
      BY <1>1, <2>3, LatestGrows, WriterFacts DEF RingInv, Commit
    <3> QED
      BY <3>1 DEF Newer
  <2>4. CASE x # woff
    <3>1. Rank(o) < Rank(x)
      BY <2>1, <2>2, <2>4
    <3> QED
      BY <3>1, NewerStays DEF Behind
  <2> QED
    BY <2>3, <2>4
<1>2. CASE ~Commit
  <2>1. latestoffset' = latestoffset
    BY <1>2, LatestGrows
  <2>2. Rank(o)' = Rank(o) /\ Rank(x)' = Rank(x)
    BY <2>1 DEF Rank, TargetOffset
  <2> QED
    BY <2>2, NewerStays DEF Behind
<1> QED
  BY <1>1, <1>2

(* The packet of a place stays in its slot until it leaves the ring.       *)
LEMMA HeldStays ==
  ASSUME RingInv, RingInv', WriterStep, latestoffset >= 0,
         NEW o \in Offsets, NEW t \in Int, t > 0, Held(o, t)
  PROVE  Held(o, t)'
<1>1. /\ earliestoffset \in Offsets /\ earliestoffset' \in Offsets
      /\ slot[earliestoffset].pkttime \in Int /\ slot'[earliestoffset'].pkttime \in Int
      /\ \/ /\ earliestoffset' = earliestoffset
            /\ slot'[earliestoffset] = slot[earliestoffset]
         \/ Begins /\ Full
  BY EarliestGrows
<1>2. /\ woff \in Offsets /\ WriterTypes
      /\ wpc # "idle" => woff = TargetOffset /\ earliestoffset # woff
  BY WriterFacts DEF RingInv, OrderInv, EarliestInPlace
<1>3. Gone(t) => Gone(t)'
  BY GoneStays
<1>4. AllKept(t)' => AllKept(t)
  BY GoneStays
<1>5. ASSUME ~Gone(t)
      PROVE  ~Busy(o)' /\ slot'[o].pkttime = t
  <2>1. ~Busy(o) /\ slot[o].pkttime = t
    BY <1>5 DEF Held
  <2>2. CASE Begins \/ Commit
    BY <2>1, <2>2 DEF Begins, Commit, Busy
  <2>3. CASE Publishes \/ SetsEarliest
    BY <2>1, <2>3 DEF Publishes, SetsEarliest, Busy
  <2>4. CASE Fills
    <3>1. o # woff
      <4> SUFFICES ASSUME o = woff
                   PROVE  FALSE
        OBVIOUS
      <4>1. Rank(o) < Rank(earliestoffset)
        BY <1>1, <1>2, <2>4, RankFacts DEF Fills, Unpublished, Offsets
      <4>2. slot[o].pkttime < slot[earliestoffset].pkttime
        BY <1>1, <2>1, <4>1 DEF RingInv, OrderInv, RingOrder
      <4> QED
        BY <1>1, <1>5, <2>1, <4>2 DEF Gone, Offsets
    <3> QED
      BY <2>1, <2>4, <3>1 DEF Fills, Busy
  <2> QED
    BY <2>2, <2>3, <2>4 DEF WriterStep
<1>6. ASSUME Gone(t)', AllKept(t)'
      PROVE  earliestoffset' = NextOffset(o)
  <2>1. CASE ~(Begins /\ Full)
    <3>1. Gone(t)
      BY <1>1, <1>6, <2>1 DEF Gone
    <3> QED
      BY <1>1, <1>4, <1>6, <2>1, <3>1 DEF Held
  <2>2. CASE Begins /\ Full
    <3>1. /\ earliestoffset' = NextOffset(earliestoffset) /\ slot' = slot /\ written' = written
          /\ Rank(earliestoffset) = 0 /\ Rank(earliestoffset') = 1
          /\ slot[earliestoffset].pkttime < slot[earliestoffset'].pkttime
      BY <2>2, FullRing DEF RingInv, Begins
    <3>2. \A x : ~Busy(x)
      BY <2>2 DEF Begins, Busy
    <3>3. slot[earliestoffset] \in written /\ slot[earliestoffset].pkttime > 0
      BY <1>1, EndsInOrder, SlotTimes DEF RingInv
    <3>4. ~Gone(t)
      <4> SUFFICES ASSUME Gone(t)
                   PROVE  FALSE
        OBVIOUS
      <4>1. slot[earliestoffset].pkttime > t
        BY <1>1 DEF Gone
      <4>4. \A q \in written' : q.pkttime > t => ~Evicted(q)'
        BY <1>6 DEF AllKept, After
      <4>6. ~(earliestoffset' < 0) /\ slot[earliestoffset].pkttime < slot'[earliestoffset'].pkttime
        BY <1>1, <3>1 DEF Offsets
      <4>7. \A q : Evicted(q)' <=> earliestoffset' < 0 \/ q.pkttime < slot'[earliestoffset'].pkttime
        BY DEF Evicted
      <4> QED
        BY <3>1, <3>3, <4>1, <4>4, <4>6, <4>7
    <3>5. slot[o].pkttime = t /\ t < slot[earliestoffset'].pkttime
      BY <1>6, <3>1, <3>4 DEF Held, Gone
    <3>6. Rank(o) = 0
      <4> SUFFICES ASSUME Rank(o) # 0
                   PROVE  FALSE
        OBVIOUS
      <4>1. Rank(o) \in Nat
        BY <1>2, RankFacts DEF Offsets
      <4>2. Rank(o) # 1
        <5>1. Rank(o) = 1 => o = earliestoffset'
          BY <1>1, <1>2, <3>1, RankFacts, DistInjective DEF Rank
        <5> QED
          BY <1>1, <3>1, <3>5, <5>1
      <4>3. Rank(earliestoffset') < Rank(o)
        BY <3>1, <4>1, <4>2
      <4>4. slot[earliestoffset'].pkttime < slot[o].pkttime
        BY <1>1, <3>1, <3>2, <3>3, <4>3 DEF RingInv, OrderInv, RingOrder
      <4> QED
        BY <1>1, <3>1, <3>5, <4>4
    <3>7. o = earliestoffset
      BY <1>1, <1>2, <3>1, <3>6, RankFacts
    <3> QED
      BY <3>1, <3>7
  <2> QED
    BY <2>1, <2>2
<1>7. ~Gone(t)' => ~Busy(o)' /\ slot'[o].pkttime = t
  BY <1>3, <1>5
<1> QED
  BY <1>6, <1>7 DEF Held

(* A reader's place stays one.                                             *)
LEMMA PlaceStays ==
  ASSUME RingInv, RingInv', WriterStep, NEW o, NEW t, Place(o, t)
  PROVE  Place(o, t)'
<1>1. /\ latestoffset >= 0 /\ o \in Offsets /\ Stamped(t) /\ t <= slot[latestoffset].pkttime
      /\ Behind(o, t) /\ Held(o, t)
  BY DEF Place
<1>2. t \in Int /\ t > 0
  BY <1>1, WriterFacts DEF RingInv, Stamped, StampsNamePackets, WriterTypes
<1>3. Stamped(t)'
  BY <1>1 DEF Stamped, WriterStep, Begins, Fills, Publishes, SetsEarliest, Commit
<1>4. latestoffset' >= 0 /\ t <= slot'[latestoffset'].pkttime
  BY <1>1, <1>2, LatestGrows DEF Offsets
<1> QED
  BY <1>1, <1>2, <1>3, <1>4, BehindStays, HeldStays DEF Place


-----------------------------------------------------------------------------
(* A step of the writer, seen from a reader.                               *)

\* The writer takes a step; the readers stay where they are.
WriterMoves == RingInv /\ RingInv' /\ WriterStep /\ UNCHANGED <<pc, op, reader, loc, off, ptime, rv, from>>

(* The slot of the latest packet a call knows is not reached, and the ends *)
(* of the ring keep their distance from it.                                *)
LEMMA FrameStays ==
  ASSUME SlowWriter, WriterMoves, NEW r \in Readers, loc[r] \in LocType, Frame(r)
  PROVE  /\ Frame(r)'
         /\ InNext(r) => /\ slot'[loc[r].lo] = slot[loc[r].lo]
                         /\ Dist(loc[r].lo, latestoffset) + Begun
                              <= Dist(loc[r].lo, latestoffset') + Begun'
<1>1. /\ last_pkttime \in Nat /\ loc[r].began \in Nat /\ Pace \in Nat /\ MaxPackets \in Nat
      /\ Pace <= MaxPackets - 2
  BY WriterFacts, ReadersAssumption DEF WriterMoves, RingInv, LocType, SlowWriter
<1>2. /\ pc' = pc /\ op' = op /\ loc' = loc /\ from' = from /\ RingInv /\ RingInv' /\ WriterStep
  BY DEF WriterMoves
<1>3. last_pkttime' = IF Begins THEN last_pkttime + 1 ELSE last_pkttime
  BY <1>2 DEF WriterStep, Begins, Fills, Publishes, SetsEarliest, Commit
<1>4. pc[r] # "idle" => loc[r].began <= last_pkttime' /\ last_pkttime' - loc[r].began <= Pace
  <2>1. Begins => (pc[r] # "idle" => last_pkttime - loc[r].began < Pace)
    BY DEF Begins
  <2> QED
    BY <1>1, <1>3, <2>1 DEF Frame
<1>5. ASSUME InNext(r)
      PROVE  /\ latestoffset' >= 0
             /\ slot'[loc[r].lo] = slot[loc[r].lo]
             /\ Dist(loc[r].lo, latestoffset) + Begun <= Dist(loc[r].lo, latestoffset') + Begun'
             /\ Dist(loc[r].lo, latestoffset') + Begun' <= last_pkttime' - loc[r].began + 1
             /\ \/ earliestoffset' = loc[r].lo
                \/ Dist(loc[r].lo, earliestoffset') > Dist(loc[r].lo, latestoffset') + Begun'
  <2> DEFINE lo == loc[r].lo
             d == Dist(lo, latestoffset)
             n == last_pkttime - loc[r].began
             e == Dist(lo, earliestoffset)
  <2>1. /\ lo \in Offsets /\ latestoffset >= 0 /\ d + Begun <= n + 1 /\ n \in Int
        /\ earliestoffset = lo \/ e > d + Begun
        /\ pc[r] # "idle" /\ n <= Pace
    BY <1>1, <1>5 DEF Frame, InNext
  <2>2. /\ latestoffset \in Offsets /\ earliestoffset \in Offsets /\ woff \in Offsets
        /\ NextOffset(latestoffset) = TargetOffset /\ TargetOffset \in Offsets
        /\ wpc # "idle" => woff = TargetOffset
    BY <1>2, <2>1, EndsInOrder, WriterFacts, RankFacts DEF RingInv
  <2>3. /\ d \in Offsets /\ e \in Offsets /\ Dist(lo, TargetOffset) \in Offsets
        /\ (TargetOffset # lo => Dist(lo, TargetOffset) = d + 1)
        /\ (TargetOffset = lo => d = MaxPackets - 1)
    <3>1. d \in Offsets /\ e \in Offsets /\ Dist(lo, TargetOffset) \in Offsets
      BY <2>1, <2>2, DistFacts
    <3>2. TargetOffset # lo => Dist(lo, TargetOffset) = d + 1
      BY <2>1, <2>2, DistStep
    <3>3. TargetOffset = lo => d = MaxPackets - 1
      BY <2>1, <2>2, ReadersAssumption DEF Dist, NextOffset, Offsets
    <3> QED
      BY <3>1, <3>2, <3>3
  <2>4. d \in Nat /\ e \in Nat
    BY <2>3 DEF Offsets
  <2> HIDE DEF lo, d, n, e
  <2>5. Begins => n < Pace
    BY <2>1 DEF Begins, n
  <2>6. (wpc = "idle" => Begun = 0) /\ (wpc # "idle" => Begun = 1)
        /\ (wpc' = "idle" => Begun' = 0) /\ (wpc' # "idle" => Begun' = 1)
    BY DEF Begun
  <2>7. CASE Begins
    <3>1. /\ slot' = slot /\ latestoffset' = latestoffset /\ last_pkttime' - loc[r].began = n + 1
          /\ wpc = "idle" /\ Begun = 0 /\ Begun' \in {0, 1}
      BY <1>1, <2>6, <2>7 DEF Begins, n
    <3>2. d < MaxPackets - 1 /\ TargetOffset # lo /\ Dist(lo, TargetOffset) = d + 1
      BY <1>1, <2>1, <2>3, <2>4, <2>5, <2>7, <3>1
    <3>3. Dist(lo, latestoffset') = d
      BY <3>1 DEF d
    <3>4. \/ earliestoffset' = lo
          \/ Dist(lo, earliestoffset') > d + 1
      <4>1. CASE Full
        <5>1. earliestoffset' = NextOffset(TargetOffset) /\ NextOffset(TargetOffset) \in Offsets
          BY <2>2, <2>7, <4>1, NextOffsetInBuffer DEF Begins, Full
        <5>2. NextOffset(TargetOffset) # lo =>
                Dist(lo, NextOffset(TargetOffset)) = Dist(lo, TargetOffset) + 1
          BY <2>1, <2>2, DistStep
        <5> QED
          BY <2>4, <3>2, <5>1, <5>2
      <4>2. CASE ~Full
        <5>1. earliestoffset' = earliestoffset
          BY <2>7, <4>2 DEF Begins
        <5>2. earliestoffset # latestoffset => earliestoffset # TargetOffset
          BY <2>2, <4>2 DEF Full, Offsets
        <5>3. e = d + 1 => earliestoffset = TargetOffset
          BY <2>1, <2>2, <3>2, DistInjective DEF e
        <5>4. earliestoffset = latestoffset => e = d
          BY DEF e, d
        <5>5. Dist(lo, earliestoffset') = e
          BY <5>1 DEF e
        <5>6. earliestoffset = lo \/ e > d + 1
          BY <2>1, <2>4, <3>1, <5>2, <5>3, <5>4
        <5> QED
          BY <5>1, <5>5, <5>6
      <4> QED
        BY <4>1, <4>2
    <3>5. d + Begun' <= n + 2 /\ d + Begun <= d + Begun'
      <4>1. d <= n + 1 /\ n \in Int
        BY <2>1, <2>4, <3>1
      <4>2. CASE Begun' = 0
        BY <2>4, <3>1, <4>1, <4>2
      <4>3. CASE Begun' = 1
        BY <2>4, <3>1, <4>1, <4>3
      <4> QED
        BY <3>1, <4>2, <4>3
    <3>6. Dist(lo, earliestoffset') > d + 1 => Dist(lo, earliestoffset') > d + Begun'
      <4>1. earliestoffset' \in Offsets
        BY <1>2, <2>1, EarliestGrows
      <4>2. Dist(lo, earliestoffset') \in Int
        BY <2>1, <4>1, DistFacts DEF Offsets
      <4> QED
        BY <2>4, <3>1, <4>2
    <3> QED
      BY <2>1, <2>4, <3>1, <3>3, <3>4, <3>5, <3>6 DEF lo, d
  <2>8. ASSUME ~Begins
        PROVE  /\ wpc # "idle" /\ woff = TargetOffset /\ Begun = 1
               /\ woff # lo /\ Dist(lo, woff) = d + 1 /\ last_pkttime' - loc[r].began = n
               /\ earliestoffset' = earliestoffset
               /\ slot'[lo] = slot[lo]
    <3>1. wpc # "idle" /\ woff = TargetOffset /\ Begun = 1
      BY <1>2, <2>2, <2>6, <2>8
         DEF WriterStep, Fills, Publishes, SetsEarliest, Commit, Unpublished
    <3>2. woff # lo /\ Dist(lo, woff) = d + 1
      BY <1>1, <2>1, <2>3, <2>4, <3>1
    <3>3. last_pkttime' - loc[r].began = n
      BY <1>3, <2>8 DEF n
    <3>4. earliestoffset' = earliestoffset
      BY <1>2, <2>2, <2>8 DEF WriterStep, Fills, Publishes, SetsEarliest, Commit, Offsets
    <3>5. slot'[lo] = slot[lo]
      BY <1>2, <2>1, <2>8, <3>2 DEF WriterStep, Fills, Publishes, SetsEarliest, Commit
    <3> QED
      BY <3>1, <3>2, <3>3, <3>4, <3>5
  <2>9. CASE Fills \/ Publishes \/ SetsEarliest
    <3>1. ~Begins /\ latestoffset' = latestoffset /\ wpc' # "idle"
      BY <2>9 DEF Begins, Fills, Publishes, SetsEarliest, Unpublished
    <3>2. Begun' = 1 /\ Dist(lo, latestoffset') = d /\ Dist(lo, earliestoffset') = e
      BY <2>6, <2>8, <3>1 DEF d, e
    <3> QED
      BY <2>1, <2>4, <2>8, <3>1, <3>2 DEF lo, d
  <2>10. CASE Commit
    <3>1. ~Begins /\ latestoffset' = woff /\ wpc' = "idle"
      BY <2>10 DEF Begins, Commit
    <3>2. Begun' = 0 /\ Dist(lo, latestoffset') = d + 1 /\ Dist(lo, earliestoffset') = e
      BY <2>6, <2>8, <3>1 DEF e
    <3>3. latestoffset' >= 0
      BY <2>2, <3>1 DEF Offsets
    <3> QED
      BY <2>1, <2>4, <2>8, <3>1, <3>2, <3>3 DEF lo, d
  <2> QED
    BY <1>2, <2>7, <2>9, <2>10 DEF WriterStep
<1>6. InNext(r)' <=> InNext(r)
  BY <1>2 DEF InNext
<1>7. InNext(r) => (/\ loc[r].lo \in Offsets /\ latestoffset' >= 0
                    /\ slot'[loc[r].lo].pkttime > 0
                    /\ Dist(loc[r].lo, latestoffset') + Begun' <= last_pkttime' - loc[r].began + 1
                    /\ \/ earliestoffset' = loc[r].lo
                       \/ Dist(loc[r].lo, earliestoffset') > Dist(loc[r].lo, latestoffset') + Begun')
  BY <1>5 DEF Frame
<1>8. Frame(r)'
  BY <1>2, <1>4, <1>6, <1>7 DEF Frame, Dist
<1> QED
  BY <1>5, <1>8


(* A packet published during the step is newer than the latest.            *)
LEMMA PublishedIsNew ==
  ASSUME RingInv, WriterStep, latestoffset >= 0
  PROVE  /\ written \subseteq written'
         /\ \A q \in written' : q.pkttime <= slot[latestoffset].pkttime => q \in written
<1>1. CASE Publishes
  <2>1. latestoffset \in Offsets
    BY WriterFacts DEF RingInv, Offsets
  <2>2. slot[latestoffset].pkttime < last_pkttime /\ last_pkttime \in Nat
        /\ slot[latestoffset].pkttime \in Int
    BY <1>1, <2>1, SlotTimes, WriterFacts DEF RingInv, Publishes, Unpublished
  <2>3. written' = written \cup {wpkt} /\ wpkt.pkttime = last_pkttime
    BY <1>1 DEF Publishes
  <2> QED
    BY <2>2, <2>3
<1> QED
  BY <1>1 DEF WriterStep, Begins, Fills, SetsEarliest, Commit

(* What a place says of its stamp.                                         *)
LEMMA PlaceFacts ==
  ASSUME RingInv, NEW o, NEW t, Place(o, t)
  PROVE  /\ latestoffset >= 0 /\ latestoffset \in Offsets /\ o \in Offsets
         /\ slot[latestoffset].pkttime \in Int
         /\ t \in Int /\ t > 0 /\ t <= slot[latestoffset].pkttime
<1>1. latestoffset >= 0 /\ o \in Offsets /\ Stamped(t) /\ t <= slot[latestoffset].pkttime
  BY DEF Place
<1>2. t \in Int /\ t > 0
  BY <1>1, WriterFacts DEF RingInv, Stamped, StampsNamePackets, WriterTypes
<1>3. latestoffset \in Offsets /\ slot[latestoffset].pkttime \in Int
  BY <1>1, EndsInOrder, SlotTimes DEF RingInv
<1> QED
  BY <1>1, <1>2, <1>3

(* A step of the writer leaves every reader's part of the invariant true.  *)
LEMMA WriterDelivery ==
  ASSUME SlowWriter, WriterMoves, NEW r \in Readers, TypesOf(r), DeliveryOf(r)
  PROVE  DeliveryOf(r)'
<1>1. /\ pc' = pc /\ op' = op /\ reader' = reader /\ loc' = loc /\ off' = off /\ ptime' = ptime
      /\ rv' = rv /\ from' = from /\ RingInv /\ RingInv' /\ WriterStep
  BY DEF WriterMoves
<1>2. PlaceOf(r) /\ Frame(r) /\ Bound(r) /\ Forward(r) /\ Gapless(r) /\ MovesForward(r)
  BY DEF DeliveryOf
<1>3. /\ loc[r] \in LocType /\ from[r].pkttime \in Int
      /\ off[r] \in Offsets \cup {-1} /\ reader[r].pkttime \in Int /\ ptime[r] \in Int
  BY <1>2 DEF TypesOf, Frame, ReaderType, NSTUNSET
<1>4. /\ Frame(r)'
      /\ InNext(r) => /\ slot'[loc[r].lo] = slot[loc[r].lo]
                      /\ Dist(loc[r].lo, latestoffset) + Begun
                           <= Dist(loc[r].lo, latestoffset') + Begun'
  BY <1>2, <1>3, FrameStays
<1>5. PlaceOf(r)'
  <2>1. \A o, t : Place(o, t) => Place(o, t)'
    BY <1>1, PlaceStays
  <2> QED
    BY <1>1, <1>2, <2>1 DEF PlaceOf
<1>6. Bound(r)'
  <2> SUFFICES ASSUME InNext(r)
               PROVE  Bound(r)'
    BY <1>1 DEF Bound, InNext
  <2>1. pc[r] = "rn_reposition" /\ off[r] \in Offsets =>
          Dist(loc[r].lo, off[r]) <= Dist(loc[r].lo, latestoffset') + Begun'
    <3> SUFFICES ASSUME pc[r] = "rn_reposition", off[r] \in Offsets
                 PROVE  Dist(loc[r].lo, off[r]) <= Dist(loc[r].lo, latestoffset') + Begun'
      OBVIOUS
    <3>1. Dist(loc[r].lo, off[r]) <= Dist(loc[r].lo, latestoffset) + Begun
      BY <1>2 DEF Bound
    <3>2. /\ loc[r].lo \in Offsets /\ latestoffset \in Offsets /\ latestoffset' \in Offsets
      BY <1>1, <1>2, LatestGrows DEF Frame
    <3>3. /\ Dist(loc[r].lo, off[r]) \in Int
          /\ Dist(loc[r].lo, latestoffset) \in Int /\ Dist(loc[r].lo, latestoffset') \in Int
      BY <3>2, DistFacts DEF Offsets
    <3>4. Begun \in Int /\ Begun' \in Int
      BY DEF Begun
    <3> QED
      BY <1>4, <3>1, <3>3, <3>4
  <2>2. slot'[loc[r].lo] = slot[loc[r].lo]
    BY <1>4
  <2> QED
    BY <1>1, <1>2, <2>1, <2>2 DEF Bound, Dist
<1>7. Resumes(r) =>
        /\ latestoffset >= 0 /\ slot[latestoffset].pkttime \in Int
        /\ from[r].pkttime <= slot[latestoffset].pkttime
        /\ reader[r].pkttime <= slot[latestoffset].pkttime
        /\ pc[r] \in Reading => ptime[r] <= slot[latestoffset].pkttime
  <2> SUFFICES ASSUME Resumes(r)
               PROVE  /\ latestoffset >= 0 /\ slot[latestoffset].pkttime \in Int
                      /\ from[r].pkttime <= slot[latestoffset].pkttime
                      /\ reader[r].pkttime <= slot[latestoffset].pkttime
                      /\ pc[r] \in Reading => ptime[r] <= slot[latestoffset].pkttime
    OBVIOUS
  <2>1. Place(reader[r].pktoffset, reader[r].pkttime) /\ from[r].pkttime <= reader[r].pkttime
    BY <1>2 DEF PlaceOf, Forward
  <2>2. /\ latestoffset >= 0 /\ slot[latestoffset].pkttime \in Int
        /\ reader[r].pkttime <= slot[latestoffset].pkttime
    BY <1>1, <2>1, PlaceFacts
  <2>3. pc[r] \in Reading => ptime[r] <= slot[latestoffset].pkttime
    BY <1>2 DEF PlaceOf, Place
  <2> QED
    BY <1>3, <2>1, <2>2, <2>3
<1>8. Resumes(r)' <=> Resumes(r)
  BY <1>1 DEF Resumes
<1>9. Forward(r)'
  <2> SUFFICES ASSUME Resumes(r)
               PROVE  Forward(r)'
    BY <1>8 DEF Forward
  <2>1. \A x \in Offsets : Newer(x, from[r].pkttime) => slot'[x].pkttime \notin 0 .. from[r].pkttime
    <3>1. \A t \in Int : t <= slot[latestoffset].pkttime =>
            \A x \in Offsets : Newer(x, t) => slot'[x].pkttime \notin 0 .. t
      BY <1>1, <1>7, NewerStays DEF Newer
    <3> QED
      BY <1>3, <1>7, <3>1
  <2>2. \A x \in Offsets : Newer(x, from[r].pkttime) => Newer(x, from[r].pkttime)'
    BY <1>1, <2>1 DEF Newer
  <2> QED
    BY <1>1, <1>2, <2>2 DEF Forward, Dist
<1>10. Gapless(r)'
  <2> SUFFICES ASSUME Resumes(r), AllKept(from[r].pkttime)'
               PROVE  Gapless(r)'
    BY <1>1, <1>8 DEF Gapless
  <2>1. AllKept(from[r].pkttime)
    <3>1. \A t \in Int : AllKept(t)' => AllKept(t)
      BY <1>1, <1>7, GoneStays
    <3> QED
      BY <1>1, <1>3, <3>1
  <2>2. /\ written \subseteq written'
        /\ \A q \in written' : q.pkttime <= slot[latestoffset].pkttime => q \in written
    BY <1>1, <1>7, PublishedIsNew
  <2>3. \A q \in written' : q.pkttime \in Int
    BY <1>1, WriterFacts DEF RingInv, PositionInv, SeqlockInv, WriterTypes, PacketType, NSTUNSET
  <2>4. ASSUME NEW t \in Int, t <= slot[latestoffset].pkttime
        PROVE  \A q \in written' : q.pkttime <= t => q \in written
    BY <1>7, <2>2, <2>3, <2>4
  <2>5. pc[r] = "rn_sample" => (Unselected(r, reader[r].pkttime) => Unselected(r, reader[r].pkttime)')
    BY <1>1, <1>3, <1>7, <2>4 DEF Unselected
  <2>6. pc[r] \in Reading => (UnselectedBefore(r, ptime[r]) => UnselectedBefore(r, ptime[r])')
    <3> SUFFICES ASSUME pc[r] \in Reading, UnselectedBefore(r, ptime[r])
                 PROVE  UnselectedBefore(r, ptime[r])'
      OBVIOUS
    <3>1. \A q \in written' : q.pkttime <= ptime[r] => q \in written
      BY <1>3, <1>7, <2>4
    <3> QED
      BY <1>1, <1>3, <2>3, <3>1 DEF UnselectedBefore
  <2>7. {q \in After(from[r].pkttime) :
            q.pkttime <= reader[r].pkttime /\ q.streamid \in Selected[r]}'
          = {q \in After(from[r].pkttime) :
              q.pkttime <= reader[r].pkttime /\ q.streamid \in Selected[r]}
    <3>1. \A q \in written' : q.pkttime <= reader[r].pkttime => q \in written
      BY <1>3, <1>7, <2>4
    <3> QED
      BY <1>1, <2>2, <3>1 DEF After
  <2>8. Delivered(r)' <=> Delivered(r)
    BY <1>1 DEF Delivered
  <2> QED
    BY <1>1, <1>2, <2>1, <2>5, <2>6, <2>7, <2>8 DEF Gapless
<1>11. MovesForward(r)'
  BY <1>1, <1>2 DEF MovesForward, Returned, Delivered, FromTime
<1> QED
  BY <1>4, <1>5, <1>6, <1>9, <1>10, <1>11 DEF DeliveryOf


-----------------------------------------------------------------------------
(* A step of a reader.                                                     *)

(* A reader's step leaves places places.                                   *)
LEMMA RingKept ==
  ASSUME UNCHANGED wvars
  PROVE  /\ slot' = slot /\ latestoffset' = latestoffset /\ earliestoffset' = earliestoffset
         /\ last_pkttime' = last_pkttime /\ written' = written /\ Begun' = Begun
         /\ \A o, t : Place(o, t)' <=> Place(o, t)
         /\ \A t : AllKept(t)' <=> AllKept(t)
         /\ \A x, t : Newer(x, t)' <=> Newer(x, t)
<1>1. /\ slot' = slot /\ latestoffset' = latestoffset /\ earliestoffset' = earliestoffset
      /\ last_pkttime' = last_pkttime /\ written' = written /\ wpc' = wpc /\ woff' = woff
  BY DEF wvars
<1>2. \A o, t : Place(o, t)' <=> Place(o, t)
  BY <1>1 DEF Place, Stamped, Behind, Held, Newer, Rank, TargetOffset, Gone, AllKept, After,
              Evicted, Busy
<1>3. /\ \A t : AllKept(t)' <=> AllKept(t)
      /\ \A x, t : Newer(x, t)' <=> Newer(x, t)
  BY <1>1 DEF AllKept, After, Evicted, Newer
<1> QED
  BY <1>1, <1>2, <1>3 DEF Begun

(* A packet in a slot that is not being filled is a place to read on from. *)
LEMMA PlaceAtSlot ==
  ASSUME RingInv, latestoffset >= 0, NEW o \in Offsets, ~Busy(o), slot[o].pkttime > 0
  PROVE  Place(o, slot[o].pkttime)
<1> DEFINE t == slot[o].pkttime
<1>1. /\ t \in Int /\ slot[o] \in written /\ WriterTypes
  BY SlotTimes, WriterFacts DEF RingInv
<1>2. /\ earliestoffset \in Offsets /\ ~Busy(earliestoffset) /\ slot[earliestoffset].pkttime > 0
      /\ t <= slot[latestoffset].pkttime
  BY EndsInOrder DEF RingInv
<1>3. Behind(o, t)
  <2> SUFFICES ASSUME NEW x \in Offsets, Rank(o) < Rank(x)
               PROVE  Newer(x, t)
    BY DEF Behind
  <2>1. t < slot[x].pkttime
    BY DEF RingInv, OrderInv, RingOrder
  <2>2. slot[x].pkttime \in Int
    BY SlotTimes DEF RingInv
  <2> QED
    BY <1>1, <2>1, <2>2 DEF Newer
<1>4. Gone(t) => NextOffset(o) = earliestoffset
  <2> SUFFICES ASSUME Gone(t)
               PROVE  NextOffset(o) = earliestoffset
    OBVIOUS
  <2>1. t < slot[earliestoffset].pkttime /\ slot[earliestoffset].pkttime \in Int
    BY <1>2, SlotTimes DEF RingInv, Gone
  <2>2. Rank(o) \in Int /\ Rank(earliestoffset) \in Int
    BY <1>1, <1>2, RankFacts DEF Offsets
  <2>3. ~(Rank(earliestoffset) < Rank(o))
    BY <1>1, <1>2, <2>1 DEF RingInv, OrderInv, RingOrder
  <2>4. Rank(earliestoffset) # Rank(o)
    BY <1>1, <1>2, <2>1, RankFacts, DistInjective DEF Rank
  <2>5. Rank(o) < Rank(earliestoffset)
    BY <2>2, <2>3, <2>4
  <2> QED
    BY <1>2, <2>5 DEF RingInv, OrderInv, EarliestInPlace
<1>5. Stamped(t)
  BY <1>1 DEF Stamped
<1> QED
  BY <1>2, <1>3, <1>4, <1>5 DEF Place, Held

(* The slots after the latest packet a call knows, up to the latest now.   *)
LEMMA AfterLo ==
  ASSUME NEW lo \in Offsets, NEW l \in Offsets, NEW x \in Offsets
  PROVE  /\ Dist(lo, x) <= Dist(lo, l) /\ x # lo =>
              Dist(NextOffset(l), lo) < Dist(NextOffset(l), x)
         /\ Dist(NextOffset(l), lo) < Dist(NextOffset(l), x) => Dist(lo, x) <= Dist(lo, l)
BY ReadersAssumption DEF Dist, Offsets, NextOffset

(* The latest packet a call knows is in its slot, behind it the ring goes  *)
(* on to the latest of now and the slot being written.                     *)
LEMMA KnownLatest ==
  ASSUME SlowWriter, RingInv, NEW r \in Readers, TypesOf(r), Frame(r), InNext(r)
  PROVE  /\ loc[r].lo \in Offsets /\ latestoffset \in Offsets /\ latestoffset >= 0
         /\ slot[loc[r].lo].pkttime \in Int /\ slot[loc[r].lo].pkttime > 0
         /\ ~Busy(loc[r].lo)
         /\ wpc # "idle" => /\ Begun = 1 /\ woff # loc[r].lo
                            /\ Dist(loc[r].lo, woff) = Dist(loc[r].lo, latestoffset) + 1
         /\ Begun \in {0, 1}
         /\ \A x \in Offsets :
              /\ Dist(loc[r].lo, x) <= Dist(loc[r].lo, latestoffset) /\ x # loc[r].lo =>
                   slot[loc[r].lo].pkttime < slot[x].pkttime
              /\ slot[loc[r].lo].pkttime < slot[x].pkttime /\ ~Busy(x) =>
                   Dist(loc[r].lo, x) <= Dist(loc[r].lo, latestoffset)
<1> DEFINE lo == loc[r].lo
           d == Dist(lo, latestoffset)
<1>1. /\ lo \in Offsets /\ latestoffset >= 0 /\ slot[lo].pkttime > 0
      /\ d + Begun <= last_pkttime - loc[r].began + 1
      /\ last_pkttime - loc[r].began <= Pace
  BY DEF Frame, InNext
<1>2. /\ latestoffset \in Offsets /\ slot[lo].pkttime \in Int
      /\ last_pkttime \in Int /\ loc[r].began \in Int /\ Pace <= MaxPackets - 2
      /\ Pace \in Int /\ MaxPackets \in Int /\ WriterTypes
  BY <1>1, EndsInOrder, SlotTimes, WriterFacts, ReadersAssumption
     DEF RingInv, TypesOf, LocType, SlowWriter
<1>3. /\ TargetOffset = NextOffset(latestoffset) /\ TargetOffset \in Offsets
      /\ wpc # "idle" => woff = TargetOffset
      /\ \A x \in Offsets : Rank(x) \in Int
  BY <1>1, <1>2, RankFacts, WriterFacts DEF RingInv, Offsets
<1>4. Begun \in {0, 1} /\ (wpc # "idle" => Begun = 1) /\ d \in Int
  BY <1>1, <1>2, DistFacts DEF Begun, Offsets
<1>5. wpc # "idle" => woff # lo /\ Dist(lo, woff) = d + 1
  <2> SUFFICES ASSUME wpc # "idle"
               PROVE  woff # lo /\ Dist(lo, woff) = d + 1
    OBVIOUS
  <2>1. d + 1 <= MaxPackets - 1
    <3>1. Begun = 1
      BY <1>4
    <3> HIDE DEF d
    <3> QED
      BY <1>1, <1>2, <1>4, <3>1
  <2>2. TargetOffset = lo => d = MaxPackets - 1
    BY <1>1, <1>2, <1>3, ReadersAssumption DEF Dist, NextOffset, Offsets
  <2>3. TargetOffset # lo
    BY <1>2, <1>4, <2>1, <2>2
  <2>4. Dist(lo, NextOffset(latestoffset)) = d + 1
    BY <1>1, <1>2, <1>3, <2>3, DistStep
  <2> QED
    BY <1>3, <2>3, <2>4
<1>6. ~Busy(lo)
  BY <1>5 DEF Busy
<1>7. ASSUME NEW x \in Offsets, Dist(lo, x) <= d, x # lo
      PROVE  slot[lo].pkttime < slot[x].pkttime
  <2>1. Rank(lo) < Rank(x)
    BY <1>1, <1>2, <1>3, <1>7, AfterLo DEF Rank
  <2> QED
    BY <1>1, <1>6, <2>1 DEF RingInv, OrderInv, RingOrder
<1>8. ASSUME NEW x \in Offsets, slot[lo].pkttime < slot[x].pkttime, ~Busy(x)
      PROVE  Dist(lo, x) <= d
  <2>1. slot[x].pkttime \in Int
    BY SlotTimes DEF RingInv
  <2>2. ~(Rank(x) < Rank(lo))
    BY <1>1, <1>2, <1>8, <2>1 DEF RingInv, OrderInv, RingOrder
  <2>3. Rank(x) # Rank(lo)
    BY <1>1, <1>2, <1>3, <1>8, <2>1, DistInjective DEF Rank
  <2>4. Rank(lo) < Rank(x)
    BY <1>1, <1>3, <2>2, <2>3
  <2> QED
    BY <1>1, <1>2, <1>3, <2>4, AfterLo DEF Rank
<1> QED
  BY <1>1, <1>2, <1>4, <1>5, <1>6, <1>7, <1>8


\* What a step of a reader starts from.
Ready(r) == SlowWriter /\ RingInv /\ TypesOf(r) /\ DeliveryOf(r) /\ UNCHANGED wvars

(* What that is, in parts.                                                 *)
LEMMA ReadyFacts ==
  ASSUME NEW r \in Readers, Ready(r)
  PROVE  /\ SlowWriter /\ RingInv /\ TypesOf(r) /\ UNCHANGED wvars
         /\ PlaceOf(r) /\ Frame(r) /\ Bound(r) /\ Forward(r) /\ Gapless(r) /\ MovesForward(r)
         /\ loc[r] \in LocType /\ reader[r] \in ReaderType /\ from[r] \in ReaderType
         /\ from[r].pkttime \in Int /\ reader[r].pkttime \in Int /\ ptime[r] \in Int
         /\ reader[r].pktoffset \in Offsets \cup {-1} /\ off[r] \in Offsets \cup {-1}
BY DEF Ready, DeliveryOf, TypesOf, Frame, ReaderType, NSTUNSET

(* A step that leaves a reader where it is: another one's, or the copying  *)
(* of a field.                                                             *)
LEMMA StaysDelivered ==
  ASSUME NEW q \in Readers, Ready(q),
         pc'[q] = pc[q], op'[q] = op[q], reader'[q] = reader[q], loc'[q] = loc[q],
         off'[q] = off[q], ptime'[q] = ptime[q], rv'[q] = rv[q], from'[q] = from[q]
  PROVE  DeliveryOf(q)'
<1>1. UNCHANGED wvars
  BY ReadyFacts
<1>2. /\ slot' = slot /\ latestoffset' = latestoffset /\ earliestoffset' = earliestoffset
      /\ last_pkttime' = last_pkttime /\ written' = written /\ Begun' = Begun
      /\ \A o, t : Place(o, t)' <=> Place(o, t)
      /\ \A t : AllKept(t)' <=> AllKept(t)
      /\ \A x, t : Newer(x, t)' <=> Newer(x, t)
  BY <1>1, RingKept
<1>3. PlaceOf(q)'
  BY <1>2, ReadyFacts DEF PlaceOf
<1>4. Frame(q)'
  BY <1>2, ReadyFacts DEF Frame, InNext, Dist
<1>5. Bound(q)'
  BY <1>2, ReadyFacts DEF Bound, InNext, Dist
<1>6. Forward(q)'
  BY <1>2, ReadyFacts DEF Forward, Resumes, Dist
<1>7. Gapless(q)'
  BY <1>2, ReadyFacts DEF Gapless, Resumes, Unselected, UnselectedBefore, After, Delivered
<1>8. MovesForward(q)'
  BY <1>2, ReadyFacts DEF MovesForward, Returned, Delivered, FromTime
<1> QED
  BY <1>3, <1>4, <1>5, <1>6, <1>7, <1>8 DEF DeliveryOf

(* A step in another function, RingPositionBefore().                       *)
LEMMA OutsideNext ==
  ASSUME NEW r \in Readers, Ready(r),
         op'[r] \notin {"next", "position", "read"}, pc'[r] \notin OnlyInNext,
         from'[r] = from[r], reader'[r] = reader[r] \/ reader'[r].pktoffset = -1,
         pc'[r] # "idle" => /\ loc'[r].began <= last_pkttime
                            /\ last_pkttime - loc'[r].began <= Pace
  PROVE  DeliveryOf(r)'
<1>1. UNCHANGED wvars
  BY ReadyFacts
<1>2. /\ last_pkttime' = last_pkttime
      /\ \A o, t : Place(o, t)' <=> Place(o, t)
  BY <1>1, RingKept
<1>3. PlaceOf(r)'
  <2>1. pc'[r] \notin Reading
    BY DEF OnlyInNext
  <2>2. reader'[r].pktoffset >= 0 => reader'[r] = reader[r]
    OBVIOUS
  <2> QED
    BY <1>2, <2>1, <2>2, ReadyFacts DEF PlaceOf, Reading
<1>4. Frame(r)'
  BY <1>2, ReadyFacts DEF Frame, InNext
<1>5. Bound(r)' /\ Forward(r)' /\ Gapless(r)' /\ MovesForward(r)'
  BY DEF Bound, Forward, Gapless, MovesForward, InNext, Resumes, Returned
<1> QED
  BY <1>3, <1>4, <1>5 DEF DeliveryOf


(* A call that began without a position goes on, the latest packet known.  *)
LEMMA BeginsAnywhere ==
  ASSUME NEW r \in Readers, Ready(r), ~Resumes(r), InNext(r),
         op'[r] = op[r], pc'[r] \in Finds \cup {"rn_sample"},
         from'[r] = from[r], reader'[r] = reader[r], loc'[r].lo = loc[r].lo,
         loc'[r].began = loc[r].began, loc'[r].latesttime = slot[loc[r].lo].pkttime
  PROVE  DeliveryOf(r)'
<1>1. UNCHANGED wvars
  BY ReadyFacts
<1>2. /\ slot' = slot /\ latestoffset' = latestoffset /\ earliestoffset' = earliestoffset
      /\ last_pkttime' = last_pkttime /\ Begun' = Begun
      /\ \A o, t : Place(o, t)' <=> Place(o, t)
  BY <1>1, RingKept
<1>3. /\ pc'[r] \notin {"idle", "rn_latest", "rp_sample", "rp_copy", "rn_reposition"}
      /\ pc'[r] \notin Reading /\ op[r] = "next"
  BY DEF Finds, Reading, InNext
<1>4. PlaceOf(r)'
  BY <1>2, <1>3, ReadyFacts DEF PlaceOf, Reading
<1>5. Frame(r)'
  BY <1>2, <1>3, ReadyFacts DEF Frame, InNext, Dist
<1>6. Bound(r)'
  BY <1>2, <1>3, ReadyFacts DEF Bound
<1>7. Forward(r)' /\ Gapless(r)' /\ MovesForward(r)'
  BY <1>3 DEF Forward, Gapless, MovesForward, Resumes, Returned
<1> QED
  BY <1>4, <1>5, <1>6, <1>7 DEF DeliveryOf

(* RingReadNext() returns no packet: it passed over none that the reader   *)
(* selects, or it began without a position.                                *)
LEMMA NothingReturned ==
  ASSUME NEW r \in Readers, Ready(r), op[r] = "next", op'[r] = op[r],
         from'[r] = from[r], pc'[r] = "idle", rv'[r].id \notin PktIds,
         \/ /\ reader'[r] = reader[r]
            /\ Resumes(r) /\ AllKept(from[r].pkttime) => Unselected(r, reader[r].pkttime)
         \/ /\ ~Resumes(r)
            /\ reader'[r].pktoffset >= 0 => Place(reader'[r].pktoffset, reader'[r].pkttime)
  PROVE  DeliveryOf(r)'
<1>1. UNCHANGED wvars
  BY ReadyFacts
<1>2. /\ slot' = slot /\ latestoffset' = latestoffset /\ earliestoffset' = earliestoffset
      /\ last_pkttime' = last_pkttime /\ written' = written
      /\ \A o, t : Place(o, t)' <=> Place(o, t)
      /\ \A t : AllKept(t)' <=> AllKept(t)
  BY <1>1, RingKept
<1>3. pc'[r] \notin OnlyInNext /\ pc'[r] \notin Reading /\ pc'[r] \notin Finds
  BY DEF OnlyInNext, Reading, Finds
<1>4. PlaceOf(r)'
  BY <1>2, <1>3, ReadyFacts DEF PlaceOf
<1>5. Frame(r)'
  BY <1>3, ReadyFacts DEF Frame, InNext
<1>6. Bound(r)'
  BY DEF Bound, InNext
<1>7. Resumes(r)' <=> Resumes(r)
  BY DEF Resumes
<1>8. Forward(r)'
  BY <1>3, <1>7, ReadyFacts DEF Forward, Walking
<1>9. ~Delivered(r)'
  BY DEF Delivered
<1>10. Gapless(r)'
  <2> SUFFICES ASSUME Resumes(r), AllKept(from[r].pkttime)
               PROVE  Gapless(r)'
    BY <1>2, <1>7 DEF Gapless
  <2>1. reader'[r] = reader[r] /\ Unselected(r, reader[r].pkttime)
    OBVIOUS
  <2>2. {q \in After(from[r].pkttime) :
            q.pkttime <= reader[r].pkttime /\ q.streamid \in Selected[r]}' = {}
    BY <1>2, <2>1 DEF After, Unselected
  <2> QED
    BY <1>3, <1>9, <2>2 DEF Gapless
<1>11. MovesForward(r)'
  BY <1>9 DEF MovesForward
<1> QED
  BY <1>4, <1>5, <1>6, <1>8, <1>10, <1>11 DEF DeliveryOf

(* Returning without a packet, spelled out.                                *)
LEMMA ReturnsCode ==
  ASSUME PositionInv, NEW r \in Readers, NEW id, ReturnCode(r, id)
  PROVE  pc'[r] = "idle" /\ rv'[r].id = id
BY ReaderFacts DEF ReturnCode, Return, ReaderDomains


(* A reader's step leaves the other readers where they are.                *)
LEMMA OthersStay ==
  ASSUME PositionInv, DOMAIN from = Readers, NEW r \in Readers,
         ReadStep(r) \/ CallReadNext(r) \/ ClientCommand(r)
  PROVE  /\ DOMAIN from' = Readers
         /\ \A q \in Readers : q # r =>
              /\ pc'[q] = pc[q] /\ op'[q] = op[q] /\ reader'[q] = reader[q] /\ loc'[q] = loc[q]
              /\ off'[q] = off[q] /\ ptime'[q] = ptime[q] /\ rv'[q] = rv[q] /\ from'[q] = from[q]
<1> DEFINE Apart == /\ DOMAIN from' = Readers
                    /\ \A q \in Readers : q # r =>
                         /\ pc'[q] = pc[q] /\ op'[q] = op[q] /\ reader'[q] = reader[q]
                         /\ loc'[q] = loc[q] /\ off'[q] = off[q] /\ ptime'[q] = ptime[q]
                         /\ rv'[q] = rv[q] /\ from'[q] = from[q]
<1>1. MoreDomains /\ ReaderDomains
  BY ReaderFacts
<1>2. ASSUME NEW id, NEW p, Return(r, id, p), op' = op \/ (\E x : op' = [op EXCEPT ![r] = x]),
             from' = from,
             \/ reader' = reader
             \/ \E x : reader' = [reader EXCEPT ![r] = x]
      PROVE  Apart
  BY <1>1, <1>2 DEF Return, ReaderDomains, MoreDomains
<1>3. ASSUME NEW o, NEW pid, NEW time, SetReader(r, o, pid, time)
      PROVE  \E x : reader' = [reader EXCEPT ![r] = x]
  BY <1>3 DEF SetReader
<1>4. CASE \/ \E f \in Whole : CopyField(r, f)
           \/ RPSample(r) \/ FEarliest(r) \/ FLatest(r) \/ FSample(r) \/ FId(r)
           \/ FCheckEarliest(r) \/ FCheckLatest(r) \/ FMiss(r)
  BY <1>1, <1>4
     DEF CopyField, RPSample, FEarliest, FLatest, FSample, FId, FCheckEarliest, FCheckLatest,
         FMiss, FSampleNext, Goto, ReaderDomains, MoreDomains
<1>5. CASE \/ RNLatest(r) \/ Found(r) \/ RNSample(r) \/ RNLapped(r) \/ RNPosition(r)
           \/ RNMatch(r) \/ PSResolved(r) \/ PSTime(r) \/ CallReadNext(r)
  BY <1>1, <1>5
     DEF RNLatest, Found, RNSample, RNLapped, RNPosition, RNMatch, PSResolved, PSTime,
         CallReadNext, SetReader, Goto, ReaderDomains, MoreDomains
<1>6. CASE RPNone(r) \/ RNCaughtUp(r) \/ RNReturn(r) \/ RDReturn(r) \/ NotFound(r)
  BY <1>2, <1>3, <1>6, Zenon
     DEF RPNone, RNCaughtUp, RNReturn, RDReturn, NotFound, ReturnCode
<1>7. CASE PSCheck(r) \/ PBDone(r)
  BY <1>2, <1>3, <1>7, Zenon DEF PSCheck, PBDone, ReturnCode
<1>8. CASE RNEmpty(r)
  BY <1>2, <1>8, Zenon DEF RNEmpty, ReturnCode
<1>9. CASE RNBegin(r) \/ RNNotFound(r)
  <2>1. /\ op' = op /\ from' = from
        /\ \/ /\ ReturnCode(r, RINGID_NONE)
              /\ \E x : reader' = [reader EXCEPT ![r] = x]
           \/ /\ off' = off \/ \E o : off' = [off EXCEPT ![r] = o]
              /\ loc' = loc \/ \E x : loc' = [loc EXCEPT ![r] = x]
              /\ \E x : pc' = [pc EXCEPT ![r] = x]
              /\ UNCHANGED <<reader, rv, ptime>>
    BY <1>3, <1>9, Zenon DEF RNBegin, RNNotFound, WaitAtLatest, Goto
  <2>2. CASE ReturnCode(r, RINGID_NONE) /\ \E x : reader' = [reader EXCEPT ![r] = x]
    BY <1>2, <2>1, <2>2, Zenon DEF ReturnCode
  <2>3. CASE /\ off' = off \/ \E o : off' = [off EXCEPT ![r] = o]
             /\ loc' = loc \/ \E x : loc' = [loc EXCEPT ![r] = x]
             /\ \E x : pc' = [pc EXCEPT ![r] = x]
             /\ UNCHANGED <<reader, rv, ptime>>
    BY <1>1, <2>1, <2>3 DEF ReaderDomains, MoreDomains
  <2> QED
    BY <2>1, <2>2, <2>3
<1>10. CASE RNReposition(r) \/ RNSkip(r)
  <2>1. /\ op' = op /\ from' = from /\ reader' = reader
        /\ \/ ReturnCode(r, RINGID_NONE)
           \/ /\ \E o : off' = [off EXCEPT ![r] = o]
              /\ loc' = loc \/ \E x : loc' = [loc EXCEPT ![r] = x]
              /\ \E x : pc' = [pc EXCEPT ![r] = x]
              /\ UNCHANGED <<rv, ptime>>
    BY <1>10, Zenon DEF RNReposition, RNSkip, Goto
  <2>2. CASE ReturnCode(r, RINGID_NONE)
    BY <1>2, <2>1, <2>2, Zenon DEF ReturnCode
  <2>3. CASE /\ \E o : off' = [off EXCEPT ![r] = o]
             /\ loc' = loc \/ \E x : loc' = [loc EXCEPT ![r] = x]
             /\ \E x : pc' = [pc EXCEPT ![r] = x]
             /\ UNCHANGED <<rv, ptime>>
    BY <1>1, <2>1, <2>3 DEF ReaderDomains, MoreDomains
  <2> QED
    BY <2>1, <2>2, <2>3
<1>11. CASE RNWild(r)
  <2>1. CASE Goto(r, "rn_reposition") /\ UNCHANGED <<reader, rv, locals>>
    BY <1>1, <1>11, <2>1 DEF RNWild, Goto, locals, ReaderDomains
  <2>2. CASE ~(Goto(r, "rn_reposition") /\ UNCHANGED <<reader, rv, locals>>)
    BY <1>2, <1>3, <1>11, <2>2, Zenon DEF RNWild
  <2> QED
    BY <2>1, <2>2
<1>12. CASE ClientCommand(r)
  <2>1. ASSUME NEW id, NEW time, NEW x, Resolve(r, id, time), op' = [op EXCEPT ![r] = x],
               UNCHANGED <<reader, from>>
        PROVE  Apart
    BY <1>1, <2>1 DEF Resolve, Goto, ReaderDomains, MoreDomains
  <2>2. ASSUME NEW id, NEW time, CallPosition(r, id, time)
        PROVE  Apart
    BY <1>2, <2>1, <2>2, Zenon DEF CallPosition, Command, ReturnCode
  <2>3. ASSUME NEW id, CallPositionBefore(r, id)
        PROVE  Apart
    BY <1>2, <1>3, <2>1, <2>3, Zenon DEF CallPositionBefore, Command, ReturnCode
  <2>4. ASSUME NEW id, CallRead(r, id)
        PROVE  Apart
    BY <2>1, <2>4, Zenon DEF CallRead, Command
  <2> QED
    BY <1>12, <2>2, <2>3, <2>4, Zenon DEF ClientCommand
<1> QED
  BY <1>4, <1>5, <1>6, <1>7, <1>8, <1>9, <1>10, <1>11, <1>12, Zenon DEF ReadStep


(* What is known of a reader in FindOffsetForID().                         *)
LEMMA InFind ==
  ASSUME NEW r \in Readers, Ready(r), pc[r] \in Finds
  PROVE  /\ op[r] \notin {"position", "read"}
         /\ pc[r] \notin {"idle", "rn_latest", "rp_sample", "rp_copy"}
         /\ loc[r].began <= last_pkttime /\ last_pkttime - loc[r].began <= Pace
         /\ op[r] = "next" => /\ ~Resumes(r) /\ InNext(r)
                              /\ loc[r].latesttime = slot[loc[r].lo].pkttime
<1>1. Frame(r) /\ Forward(r) /\ Bound(r)
  BY ReadyFacts
<1>2. pc[r] \notin {"idle", "rn_latest", "rp_sample", "rp_copy"}
  BY DEF Finds
<1> QED
  BY <1>1, <1>2 DEF Frame, Forward, Bound, InNext

(* The search for a packet ID.                                             *)
LEMMA FindDelivery ==
  ASSUME NEW r \in Readers, Ready(r),
         \/ FEarliest(r) \/ FLatest(r) \/ FSample(r) \/ FId(r)
         \/ FCheckEarliest(r) \/ FCheckLatest(r) \/ FMiss(r)
  PROVE  DeliveryOf(r)'
<1>1. MoreDomains /\ ReaderDomains /\ loc[r] \in LocType
  BY ReadyFacts, ReaderFacts DEF RingInv
<1>2. /\ pc[r] \in Finds /\ pc'[r] \in Finds
      /\ op' = op /\ reader' = reader /\ from' = from
  <2>1. CASE FEarliest(r) \/ FLatest(r) \/ FCheckEarliest(r)
    BY <1>1, <2>1
       DEF FEarliest, FLatest, FCheckEarliest, FSampleNext, Goto, ReaderDomains, Finds
  <2>2. CASE FSample(r) \/ FId(r) \/ FCheckLatest(r) \/ FMiss(r)
    BY <1>1, <2>2 DEF FSample, FId, FCheckLatest, FMiss, Goto, ReaderDomains, Finds
  <2> QED
    BY <2>1, <2>2
<1>3. /\ loc'[r].lo = loc[r].lo /\ loc'[r].began = loc[r].began
      /\ loc'[r].latesttime = loc[r].latesttime
  <2>1. CASE FEarliest(r) \/ FLatest(r) \/ FCheckEarliest(r) \/ FSample(r)
    BY <1>1, <2>1 DEF FEarliest, FLatest, FCheckEarliest, FSampleNext, FSample, MoreDomains,
                      LocType
  <2>2. CASE FId(r) \/ FCheckLatest(r)
    BY <1>1, <2>2 DEF FId, FCheckLatest, MoreDomains, LocType
  <2>3. CASE FMiss(r)
    <3>1. loc'[r] = IF pc[r] = "f_scan" THEN [loc[r] EXCEPT !.at = PrevOffset(loc[r].at)]
                    ELSE IF slot[Probe(r)].pktid < loc[r].req
                           THEN [loc[r] EXCEPT !.low = Middle(r) + 1]
                    ELSE [loc[r] EXCEPT !.high = Middle(r) - 1]
      BY <1>1, <2>3 DEF FMiss, MoreDomains
    <3> QED
      BY <1>1, <3>1 DEF LocType
  <2> QED
    BY <2>1, <2>2, <2>3
<1>4. CASE op[r] = "next"
  BY <1>2, <1>3, <1>4, InFind, BeginsAnywhere
<1>5. CASE op[r] # "next"
  <2>1. pc'[r] \notin OnlyInNext
    BY <1>2 DEF OnlyInNext, Finds, Reading
  <2> QED
    BY <1>2, <1>3, <1>5, <2>1, InFind, OutsideNext
<1> QED
  BY <1>4, <1>5

(* The packet ID is found.                                                 *)
LEMMA FoundDelivery ==
  ASSUME NEW r \in Readers, Ready(r), Found(r)
  PROVE  DeliveryOf(r)'
<1>1. ReaderDomains
  BY ReadyFacts, ReaderFacts DEF RingInv
<1>2. pc[r] \in Finds /\ op' = op /\ reader' = reader /\ from' = from /\ loc' = loc
  BY DEF Found, Hit, Finds
<1>3. CASE op[r] = "next"
  <2>1. pc'[r] = "rn_sample"
    BY <1>1, <1>3 DEF Found, Goto, ReaderDomains
  <2> QED
    BY <1>2, <1>3, <2>1, InFind, BeginsAnywhere
<1>4. CASE op[r] # "next"
  <2>1. pc'[r] = "rp_sample"
    BY <1>1, <1>2, <1>4, InFind DEF Found, Goto, ReaderDomains
  <2>2. pc'[r] \notin OnlyInNext
    BY <2>1 DEF OnlyInNext, Reading
  <2> QED
    BY <1>2, <1>4, <2>2, InFind, OutsideNext
<1> QED
  BY <1>3, <1>4

(* The reader waits at the latest packet it knows.                         *)
LEMMA WaitDelivery ==
  ASSUME NEW r \in Readers, Ready(r), ~Resumes(r), InNext(r), UNCHANGED <<op, from>>,
         NEW id, NEW t, t = slot[loc[r].lo].pkttime, WaitAtLatest(r, id, t)
  PROVE  DeliveryOf(r)'
<1>1. RingInv /\ PositionInv /\ MoreDomains /\ op[r] = "next"
  BY ReadyFacts, ReaderFacts DEF RingInv, InNext
<1>2. /\ loc[r].lo \in Offsets /\ latestoffset >= 0 /\ slot[loc[r].lo].pkttime > 0
      /\ ~Busy(loc[r].lo)
  BY ReadyFacts, KnownLatest
<1>3. Place(loc[r].lo, t)
  BY <1>1, <1>2, PlaceAtSlot
<1>4. reader'[r].pktoffset = loc[r].lo /\ reader'[r].pkttime = t
  BY <1>1 DEF WaitAtLatest, SetReader, MoreDomains
<1>5. pc'[r] = "idle" /\ rv'[r].id \notin PktIds
  BY <1>1, ReturnsCode, CodesAreNoIds DEF WaitAtLatest
<1> QED
  BY <1>1, <1>3, <1>4, <1>5, NothingReturned

(* The packet ID is not found.                                             *)
LEMMA NotFoundDelivery ==
  ASSUME NEW r \in Readers, Ready(r), RNNotFound(r)
  PROVE  DeliveryOf(r)'
<1>1. ReaderDomains /\ pc[r] \in Finds /\ op[r] = "next" /\ UNCHANGED <<op, from>>
  BY ReadyFacts, ReaderFacts, FailsInFind DEF RingInv, RNNotFound
<1>2. CASE WaitAtLatest(r, loc[r].latestid, loc[r].latesttime)
  BY <1>1, <1>2, InFind, WaitDelivery
<1>3. CASE Goto(r, "rn_sample") /\ UNCHANGED <<reader, loc>>
  <2>1. pc'[r] = "rn_sample"
    BY <1>1, <1>3 DEF Goto, ReaderDomains
  <2> QED
    BY <1>1, <1>3, <2>1, InFind, BeginsAnywhere
<1> QED
  BY <1>2, <1>3 DEF RNNotFound

(* RingReadNext() is called.                                               *)
LEMMA CallDelivery ==
  ASSUME NEW r \in Readers, Ready(r), DOMAIN from = Readers, CallReadNext(r)
  PROVE  DeliveryOf(r)'
<1>1. MoreDomains /\ ReaderDomains /\ loc[r] \in LocType /\ UNCHANGED wvars
      /\ last_pkttime \in Nat /\ Pace \in Nat /\ reader[r] \in ReaderType
  BY ReadyFacts, ReaderFacts, WriterFacts, ReadersAssumption DEF RingInv
<1>2. /\ pc'[r] = "rn_latest" /\ op'[r] = "next" /\ from'[r] = reader[r]
      /\ reader' = reader /\ loc'[r].began = last_pkttime
  BY <1>1 DEF CallReadNext, Goto, ReaderDomains, MoreDomains, LocType
<1>3. last_pkttime' = last_pkttime /\ \A o, t : Place(o, t)' <=> Place(o, t)
  BY <1>1, RingKept
<1>4. PlaceOf(r)'
  BY <1>2, <1>3, ReadyFacts DEF PlaceOf, Reading
<1>5. Frame(r)'
  BY <1>1, <1>2, <1>3 DEF Frame, InNext
<1>6. Bound(r)'
  BY <1>2 DEF Bound, InNext
<1>7. Forward(r)'
  <2>1. reader[r].pkttime \in Int
    BY ReadyFacts
  <2> QED
    BY <1>2, <2>1 DEF Forward, Resumes, Finds, Walking, Reading
<1>8. Gapless(r)' /\ MovesForward(r)'
  BY <1>2 DEF Gapless, MovesForward, Returned, Reading
<1> QED
  BY <1>4, <1>5, <1>6, <1>7, <1>8 DEF DeliveryOf

(* RingPositionBefore() is called.                                         *)
LEMMA CallBeforeDelivery ==
  ASSUME NEW r \in Readers, Ready(r), NEW id, CallPositionBefore(r, id)
  PROVE  DeliveryOf(r)'
<1>1. /\ MoreDomains /\ ReaderDomains /\ loc[r] \in LocType /\ PositionInv
      /\ last_pkttime \in Nat /\ Pace \in Nat
  BY ReadyFacts, ReaderFacts, WriterFacts, ReadersAssumption DEF RingInv
<1>2. op'[r] = "before" /\ from' = from
  BY <1>1 DEF CallPositionBefore, Command, ReaderDomains
<1>3. CASE SetReader(r, -1, id, NSTUNSET) /\ ReturnCode(r, RINGID_NONE)
  <2>1. pc'[r] = "idle" /\ reader'[r].pktoffset = -1
    BY <1>1, <1>3, ReturnsCode DEF SetReader, MoreDomains
  <2> QED
    BY <1>2, <2>1, OutsideNext DEF OnlyInNext, Reading
<1>4. CASE Resolve(r, id, NSTUNSET) /\ UNCHANGED reader
  <2>1. pc'[r] \in {"rp_sample", "f_earliest"} /\ loc'[r].began = last_pkttime
    BY <1>1, <1>4 DEF Resolve, Goto, ReaderDomains, MoreDomains, LocType
  <2> QED
    BY <1>1, <1>2, <1>4, <2>1, OutsideNext DEF OnlyInNext, Reading
<1> QED
  BY <1>3, <1>4 DEF CallPositionBefore

(* RingPositionBefore() returns.                                           *)
LEMMA BeforeDoneDelivery ==
  ASSUME NEW r \in Readers, Ready(r), PBDone(r)
  PROVE  DeliveryOf(r)'
<1>1. MoreDomains /\ PositionInv
  BY ReadyFacts, ReaderFacts DEF RingInv
<1>2. op'[r] = "before" /\ from' = from
  BY DEF PBDone
<1>3. \E id : ReturnCode(r, id)
  BY DEF PBDone
<1>4. pc'[r] = "idle" /\ reader'[r].pktoffset = -1
  BY <1>1, <1>3, ReturnsCode DEF PBDone, SetReader, MoreDomains
<1> QED
  BY <1>2, <1>4, OutsideNext DEF OnlyInNext, Reading

(* Reading the latest packet begins.                                       *)
LEMMA SampleLatestDelivery ==
  ASSUME NEW r \in Readers, Ready(r), RPSample(r)
  PROVE  DeliveryOf(r)'
<1>1. ReaderDomains /\ UNCHANGED wvars
  BY ReadyFacts, ReaderFacts DEF RingInv
<1>2. /\ pc[r] = "rp_sample" /\ pc'[r] = "rp_copy" /\ op' = op /\ reader' = reader
      /\ loc' = loc /\ off' = off /\ rv' = rv /\ from' = from
  BY <1>1 DEF RPSample, Goto, ReaderDomains
<1>3. CASE op[r] # "next"
  BY <1>2, <1>3, ReadyFacts, OutsideNext DEF OnlyInNext, Reading, Frame
<1>4. CASE op[r] = "next"
  <2>1. /\ slot' = slot /\ latestoffset' = latestoffset /\ earliestoffset' = earliestoffset
        /\ last_pkttime' = last_pkttime /\ written' = written /\ Begun' = Begun
        /\ \A o, t : Place(o, t)' <=> Place(o, t)
        /\ \A x, t : Newer(x, t)' <=> Newer(x, t)
    BY <1>1, RingKept
  <2>2. PlaceOf(r)'
    BY <1>2, <2>1, ReadyFacts DEF PlaceOf, Reading
  <2>3. Frame(r)'
    BY <1>2, <1>4, <2>1, ReadyFacts DEF Frame, InNext, Dist, OnlyInNext, Reading
  <2>4. Bound(r)'
    BY <1>2, <1>4, <2>1, ReadyFacts DEF Bound, InNext, Reading
  <2>5. Forward(r)'
    BY <1>2, <2>1, ReadyFacts DEF Forward, Resumes, Dist, Finds, Walking, Reading
  <2>6. Gapless(r)' /\ MovesForward(r)'
    BY <1>2 DEF Gapless, MovesForward, Returned, Reading
  <2> QED
    BY <2>2, <2>3, <2>4, <2>5, <2>6 DEF DeliveryOf
<1> QED
  BY <1>3, <1>4


(* RingReadNext() of a reader still where it was when it called.           *)
LEMMA NothingPassed ==
  ASSUME NEW r \in Readers, Ready(r), pc[r] \in {"rn_latest", "rp_sample", "rp_copy"}
  PROVE  Resumes(r) /\ AllKept(from[r].pkttime) => Unselected(r, reader[r].pkttime)
<1> SUFFICES ASSUME Resumes(r)
             PROVE  Unselected(r, reader[r].pkttime)
  OBVIOUS
<1>1. reader[r] = from[r] /\ from[r].pkttime \in Int
  BY ReadyFacts DEF Forward
<1>2. \A q \in written : q.pkttime \in Int
  BY ReadyFacts, WriterFacts DEF RingInv, WriterTypes, PacketType, NSTUNSET
<1> QED
  BY <1>1, <1>2 DEF Unselected

(* The latest packet was overwritten while it was read.                    *)
LEMMA NoLatestDelivery ==
  ASSUME NEW r \in Readers, Ready(r), RPNone(r)
  PROVE  DeliveryOf(r)'
<1>1. MoreDomains /\ PositionInv
  BY ReadyFacts, ReaderFacts DEF RingInv
<1>2. pc[r] \in {"rp_sample", "rp_copy"} /\ op' = op /\ from' = from
  BY DEF RPNone
<1>3. pc'[r] = "idle" /\ rv'[r].id \in {RINGID_ERROR, RINGID_NONE}
  BY <1>1, ReturnsCode DEF RPNone
<1>4. CASE op[r] = "next"
  <2>1. reader' = reader
    BY <1>4 DEF RPNone
  <2> QED
    BY <1>2, <1>3, <1>4, <2>1, NothingPassed, NothingReturned, CodesAreNoIds
<1>5. CASE op[r] # "next"
  <2>1. reader'[r] = reader[r] \/ reader'[r].pktoffset = -1
    BY <1>1 DEF RPNone, SetReader, MoreDomains
  <2> QED
    BY <1>2, <1>3, <1>5, <2>1, ReadyFacts, OutsideNext DEF OnlyInNext, Reading, Frame
<1> QED
  BY <1>4, <1>5

(* RingReadNext() on an empty ring, or with nothing new.                   *)
LEMMA NothingNewDelivery ==
  ASSUME NEW r \in Readers, Ready(r), RNEmpty(r) \/ RNCaughtUp(r)
  PROVE  DeliveryOf(r)'
<1>1. MoreDomains /\ PositionInv /\ Frame(r) /\ PlaceOf(r) /\ Forward(r)
  BY ReadyFacts, ReaderFacts DEF RingInv
<1>2. /\ pc[r] = "rn_latest" /\ op' = op /\ from' = from /\ ReturnCode(r, RINGID_NONE)
  BY DEF RNEmpty, RNCaughtUp
<1>3. op[r] = "next" /\ pc'[r] = "idle" /\ rv'[r].id \notin PktIds
  BY <1>1, <1>2, ReturnsCode, CodesAreNoIds DEF Frame, OnlyInNext
<1>4. CASE reader' = reader
  BY <1>2, <1>3, <1>4, NothingPassed, NothingReturned
<1>5. CASE reader' # reader
  <2>1. /\ latestoffset < 0 /\ reader' = [reader EXCEPT ![r].pktid = RINGID_EARLIEST]
        /\ reader[r].pktoffset < 0
    BY <1>5 DEF RNEmpty, RNCaughtUp, Unpositioned
  <2>2. reader'[r].pktoffset = reader[r].pktoffset /\ reader[r].pktoffset \in Int
    BY <1>1, <2>1, ReadyFacts DEF MoreDomains, ReaderType, Offsets
  <2>3. ~Resumes(r)
    BY <1>1, <2>1, <2>2 DEF Forward
  <2>4. ~(reader'[r].pktoffset >= 0)
    BY <2>1, <2>2
  <2> QED
    BY <1>2, <1>3, <2>3, <2>4, NothingReturned
<1> QED
  BY <1>4, <1>5

(* The latest packet is chosen to bound the walk.                          *)
LEMMA LatestDelivery ==
  ASSUME NEW r \in Readers, Ready(r), RNLatest(r)
  PROVE  DeliveryOf(r)'
<1>1. /\ MoreDomains /\ ReaderDomains /\ loc[r] \in LocType /\ UNCHANGED wvars /\ RingInv
      /\ PlaceOf(r) /\ Frame(r) /\ Forward(r) /\ WriterTypes
  BY ReadyFacts, ReaderFacts DEF RingInv
<1>2. /\ pc[r] = "rn_latest" /\ pc'[r] = "rp_sample" /\ latestoffset >= 0 /\ ~AtEnd(r)
      /\ op' = op /\ reader' = reader /\ from' = from
      /\ loc'[r].lo = latestoffset /\ off'[r] = latestoffset /\ loc'[r].began = loc[r].began
  BY <1>1 DEF RNLatest, Goto, ReaderDomains, MoreDomains, LocType
<1>3. /\ slot' = slot /\ latestoffset' = latestoffset /\ earliestoffset' = earliestoffset
      /\ last_pkttime' = last_pkttime /\ written' = written /\ Begun' = Begun
      /\ \A o, t : Place(o, t)' <=> Place(o, t)
      /\ \A x, t : Newer(x, t)' <=> Newer(x, t)
  BY <1>1, RingKept
<1>4. /\ latestoffset \in Offsets /\ earliestoffset \in Offsets
      /\ slot[earliestoffset].pkttime > 0
      /\ slot[earliestoffset].pkttime <= slot[latestoffset].pkttime
      /\ op[r] = "next"
  BY <1>1, <1>2, EndsInOrder DEF RingInv, Frame, OnlyInNext
<1>5. slot[latestoffset].pkttime > 0
  <2>1. slot[latestoffset].pkttime \in Int /\ slot[earliestoffset].pkttime \in Int
    BY <1>1, <1>4, SlotTimes DEF RingInv
  <2> QED
    BY <1>4, <2>1
<1>6. /\ TargetOffset = NextOffset(latestoffset) /\ TargetOffset \in Offsets
      /\ Rank(latestoffset) = MaxPackets - 1
      /\ wpc # "idle" => woff = TargetOffset /\ earliestoffset # woff
  BY <1>1, <1>2, RankFacts, WriterFacts DEF RingInv, OrderInv, EarliestInPlace
<1>7. PlaceOf(r)'
  BY <1>1, <1>2, <1>3 DEF PlaceOf, Reading
<1>8. Frame(r)'
  <2>1. loc[r].began \in Int /\ last_pkttime \in Int /\ Begun \in {0, 1}
        /\ (Begun = 1 => wpc # "idle")
    BY <1>1, WriterFacts DEF RingInv, LocType, Begun
  <2>2. Dist(latestoffset, latestoffset) = 0
    BY <1>4, DistFacts
  <2>3. loc[r].began <= last_pkttime /\ last_pkttime - loc[r].began <= Pace
    BY <1>1, <1>2 DEF Frame
  <2>4. 0 + Begun <= last_pkttime - loc[r].began + 1
    BY <2>1, <2>3
  <2>5. earliestoffset # latestoffset => Dist(latestoffset, earliestoffset) > 0 + Begun
    <3> SUFFICES ASSUME earliestoffset # latestoffset
                 PROVE  Dist(latestoffset, earliestoffset) > 0 + Begun
      OBVIOUS
    <3>1. /\ Dist(latestoffset, earliestoffset) \in Nat
          /\ Dist(latestoffset, earliestoffset) # 0
      BY <1>4, DistFacts DEF Offsets
    <3>2. Dist(latestoffset, earliestoffset) = 1 => earliestoffset = NextOffset(latestoffset)
      BY <1>4, ReadersAssumption DEF Dist, NextOffset, Offsets
    <3>3. Begun = 1 => Dist(latestoffset, earliestoffset) # 1
      BY <1>6, <2>1, <3>2
    <3> QED
      BY <2>1, <3>1, <3>3
  <2>6. Frame(r)' <=>
          (/\ from[r] \in ReaderType /\ op[r] \notin {"position", "read"} /\ op[r] = "next"
           /\ loc[r].began <= last_pkttime /\ last_pkttime - loc[r].began <= Pace
           /\ latestoffset \in Offsets /\ latestoffset >= 0 /\ slot[latestoffset].pkttime > 0
           /\ Dist(latestoffset, latestoffset) + Begun <= last_pkttime - loc[r].began + 1
           /\ \/ earliestoffset = latestoffset
              \/ Dist(latestoffset, earliestoffset) > Dist(latestoffset, latestoffset) + Begun)
    BY <1>2, <1>3, <1>4 DEF Frame, InNext, OnlyInNext, Dist
  <2> QED
    BY <1>1, <1>2, <1>4, <1>5, <2>2, <2>3, <2>4, <2>5, <2>6 DEF Frame
<1>9. Bound(r)'
  <2>1. reader[r].pktoffset >= 0 => reader[r].pkttime <= slot[latestoffset].pkttime
    BY <1>1 DEF PlaceOf, Place
  <2> QED
    BY <1>2, <1>3, <2>1 DEF Bound, Reading
<1>10. Forward(r)'
  <2> SUFFICES ASSUME Resumes(r)
               PROVE  Forward(r)'
    BY <1>2 DEF Forward, Resumes
  <2>1. reader[r] = from[r] /\ reader[r].pktoffset >= 0 /\ from[r].pkttime <= reader[r].pkttime
    BY <1>1, <1>2 DEF Forward
  <2>2. reader[r].pktoffset \in Offsets /\ Behind(reader[r].pktoffset, reader[r].pkttime)
    BY <1>1, <2>1 DEF PlaceOf, Place
  <2>3. reader[r].pktoffset # latestoffset
    BY <1>2, <1>4, <2>2 DEF AtEnd, Unpositioned, Offsets
  <2>4. ASSUME NEW x \in Offsets, Dist(x, latestoffset) < Dist(reader[r].pktoffset, latestoffset)
        PROVE  Newer(x, from[r].pkttime)
    <3>1. Rank(reader[r].pktoffset) < Rank(x)
      <4>1. \A o \in Offsets : Dist(o, latestoffset) = MaxPackets - 1 - Rank(o)
                               /\ Rank(o) \in Int
        BY <1>4, <1>6, ReadersAssumption DEF Rank, Dist, Offsets
      <4> QED
        BY <2>2, <2>4, <4>1, ReadersAssumption
    <3> QED
      BY <2>1, <2>2, <3>1 DEF Behind
  <2> QED
    BY <1>2, <1>3, <2>1, <2>3, <2>4 DEF Forward, Dist, Finds, Walking, Reading
<1>11. Gapless(r)' /\ MovesForward(r)'
  BY <1>2 DEF Gapless, MovesForward, Returned, Reading
<1> QED
  BY <1>7, <1>8, <1>9, <1>10, <1>11 DEF DeliveryOf


(* The ends of the ring as a call knows them stay as they are.             *)
LEMMA FrameKept ==
  ASSUME NEW r \in Readers, Ready(r), InNext(r), op'[r] = op[r], from'[r] = from[r],
         loc'[r].lo = loc[r].lo, loc'[r].began = loc[r].began,
         pc'[r] \notin {"idle", "rn_latest"}
  PROVE  Frame(r)'
<1>1. UNCHANGED wvars
  BY ReadyFacts
<1>2. /\ slot' = slot /\ latestoffset' = latestoffset /\ earliestoffset' = earliestoffset
      /\ last_pkttime' = last_pkttime /\ Begun' = Begun
  BY <1>1, RingKept
<1> QED
  BY <1>2, ReadyFacts DEF Frame, InNext, Dist

(* Where RingReadNext() begins once the latest packet is known.            *)
LEMMA BeginDelivery ==
  ASSUME NEW r \in Readers, Ready(r), RNBegin(r)
  PROVE  DeliveryOf(r)'
<1>1. /\ MoreDomains /\ ReaderDomains /\ loc[r] \in LocType /\ UNCHANGED wvars /\ RingInv
      /\ PlaceOf(r) /\ Frame(r) /\ Bound(r) /\ Forward(r) /\ SeqlockInv /\ LooksAtSlots(r)
  BY ReadyFacts, ReaderFacts DEF RingInv
<1>2. /\ pc[r] = "rp_copy" /\ rtodo[r] = {} /\ Intact(r) /\ op[r] = "next"
      /\ op' = op /\ from' = from /\ InNext(r)
  BY DEF RNBegin, RPDone, InNext
<1>3. buf[r].pkttime = slot[loc[r].lo].pkttime
  <2>1. CopyIsFaithful(r)
    BY <1>1 DEF SeqlockInv, ReaderInv
  <2>2. off[r] \in Offsets /\ off[r] = loc[r].lo
    BY <1>1, <1>2 DEF LooksAtSlots, AtSlot, Bound
  <2>3. "pkttime" \in Copied(r) \ rtodo[r]
    BY <1>2 DEF Copied, Header, Whole
  <2> QED
    BY <1>2, <2>1, <2>2, <2>3 DEF CopyIsFaithful, Copying
<1>4. Unpositioned(r) => ~Resumes(r)
  BY <1>1, ReadyFacts DEF Forward, Unpositioned, Offsets
<1>5. ASSUME NEW o, off' = [off EXCEPT ![r] = o],
             loc' = [loc EXCEPT ![r].latestid = buf[r].pktid, ![r].latesttime = buf[r].pkttime],
             Goto(r, "rn_sample"), UNCHANGED reader
      PROVE  /\ pc'[r] = "rn_sample" /\ off'[r] = o /\ loc'[r].lo = loc[r].lo
             /\ loc'[r].began = loc[r].began /\ loc'[r].latesttime = slot[loc[r].lo].pkttime
  BY <1>1, <1>3, <1>5 DEF Goto, ReaderDomains, MoreDomains, LocType
<1>6. CASE Unpositioned(r)
  <2>1. CASE WaitAtLatest(r, buf[r].pktid, buf[r].pkttime)
    BY <1>2, <1>3, <1>4, <1>6, <2>1, WaitDelivery
  <2>2. ASSUME NEW o, off' = [off EXCEPT ![r] = o],
             loc' = [loc EXCEPT ![r].latestid = buf[r].pktid, ![r].latesttime = buf[r].pkttime],
             Goto(r, "rn_sample"), UNCHANGED reader
        PROVE  DeliveryOf(r)'
    BY <1>2, <1>4, <1>5, <1>6, <2>2, BeginsAnywhere
  <2>3. CASE \E id : /\ loc' = [loc EXCEPT ![r].latestid = buf[r].pktid,
                                         ![r].latesttime = buf[r].pkttime, ![r].req = id]
                     /\ Goto(r, "f_earliest")
                     /\ UNCHANGED reader
    <3>1. /\ pc'[r] = "f_earliest" /\ loc'[r].lo = loc[r].lo
          /\ loc'[r].began = loc[r].began /\ loc'[r].latesttime = slot[loc[r].lo].pkttime
      BY <1>1, <1>3, <2>3 DEF Goto, ReaderDomains, MoreDomains, LocType
    <3> QED
      BY <1>2, <1>4, <1>6, <2>3, <3>1, BeginsAnywhere DEF Finds
  <2> QED
    BY <1>6, <2>1, <2>2, <2>3, Zenon DEF RNBegin
<1>7. CASE ~Unpositioned(r)
  <2> DEFINE o == reader[r].pktoffset
  <2>1. /\ off' = [off EXCEPT ![r] = NextOffset(o)]
        /\ loc' = [loc EXCEPT ![r].latestid = buf[r].pktid, ![r].latesttime = buf[r].pkttime]
        /\ Goto(r, "rn_sample") /\ UNCHANGED reader
    BY <1>7 DEF RNBegin
  <2>2. /\ pc'[r] = "rn_sample" /\ off'[r] = NextOffset(o) /\ loc'[r].lo = loc[r].lo
        /\ loc'[r].began = loc[r].began /\ loc'[r].latesttime = slot[loc[r].lo].pkttime
        /\ reader' = reader
    BY <1>5, <2>1
  <2>3. /\ slot' = slot /\ latestoffset' = latestoffset
        /\ \A x, t : Place(x, t)' <=> Place(x, t)
        /\ \A x, t : Newer(x, t)' <=> Newer(x, t)
        /\ \A t : AllKept(t)' <=> AllKept(t)
        /\ written' = written
    BY <1>1, RingKept
  <2>4. o \in Offsets /\ loc[r].lo \in Offsets /\ NextOffset(o) \in Offsets
    <3>1. o \in Offsets
      BY <1>1, <1>7, ReadyFacts DEF Unpositioned, Offsets
    <3> QED
      BY <1>1, <1>2, <3>1, NextOffsetInBuffer DEF Frame
  <2>5. PlaceOf(r)'
    BY <1>1, <2>2, <2>3 DEF PlaceOf, Reading
  <2>6. Frame(r)'
    BY <1>2, <2>2, FrameKept
  <2>7. Bound(r)'
    BY <1>1, <1>2, <2>2, <2>3 DEF Bound, Reading
  <2>8. ASSUME Resumes(r)
        PROVE  /\ reader[r] = from[r] /\ o # loc[r].lo /\ o >= 0
               /\ from[r].pkttime <= reader[r].pkttime
               /\ \A x \in Offsets : Dist(x, loc[r].lo) <= Dist(NextOffset(o), loc[r].lo) =>
                    Newer(x, from[r].pkttime)
    <3>1. /\ reader[r] = from[r] /\ o # loc[r].lo /\ o >= 0
          /\ from[r].pkttime <= reader[r].pkttime
          /\ \A x \in Offsets : Dist(x, loc[r].lo) < Dist(o, loc[r].lo) =>
               Newer(x, from[r].pkttime)
      BY <1>1, <1>2, <2>8 DEF Forward
    <3>2. Dist(NextOffset(o), loc[r].lo) = Dist(o, loc[r].lo) - 1 /\ Dist(o, loc[r].lo) \in Int
      BY <2>4, <3>1, DistFacts DEF Offsets
    <3>3. \A x \in Offsets : Dist(x, loc[r].lo) \in Nat
      BY <2>4, DistNat
    <3> QED
      BY <3>1, <3>2, <3>3
  <2>9. Forward(r)'
    <3> SUFFICES ASSUME Resumes(r)
                 PROVE  Forward(r)'
      BY <1>2 DEF Forward, Resumes
    <3> QED
      BY <1>2, <2>2, <2>3, <2>4, <2>8 DEF Forward, Dist, Finds, Walking, Reading
  <2>10. Gapless(r)'
    <3> SUFFICES ASSUME Resumes(r), AllKept(from[r].pkttime)
                 PROVE  Gapless(r)'
      BY <1>2, <2>3 DEF Gapless, Resumes
    <3>1. Unselected(r, reader[r].pkttime)
      BY <1>2, NothingPassed
    <3>2. Unselected(r, reader[r].pkttime)'
      BY <1>2, <2>2, <2>3, <3>1 DEF Unselected
    <3> QED
      BY <1>2, <2>2, <2>8, <3>2 DEF Gapless, Reading
  <2>11. MovesForward(r)'
    BY <2>2 DEF MovesForward, Returned
  <2> QED
    BY <2>5, <2>6, <2>7, <2>9, <2>10, <2>11 DEF DeliveryOf
<1> QED
  BY <1>6, <1>7

(* What is known of a reader that walks the slots.                         *)
LEMMA OnTheWalk ==
  ASSUME NEW r \in Readers, Ready(r), pc[r] \in Walking
  PROVE  /\ op[r] = "next" /\ InNext(r) /\ loc[r].latesttime = slot[loc[r].lo].pkttime
         /\ loc[r].lo \in Offsets /\ latestoffset >= 0
         /\ pc[r] \notin {"idle", "rn_latest", "rp_sample", "rp_copy"}
<1>1. pc[r] \in OnlyInNext /\ pc[r] \notin {"idle", "rn_latest", "rp_sample", "rp_copy"}
  BY DEF Walking, OnlyInNext, Reading
<1>2. op[r] = "next" /\ InNext(r)
  BY <1>1, ReadyFacts DEF Frame, InNext
<1> QED
  BY <1>1, <1>2, ReadyFacts DEF Frame, Bound

(* Reading memory before the first slot.                                   *)
LEMMA WildDelivery ==
  ASSUME NEW r \in Readers, Ready(r), RNWild(r)
  PROVE  DeliveryOf(r)'
<1>1. /\ MoreDomains /\ ReaderDomains /\ UNCHANGED wvars /\ PositionInv
      /\ PlaceOf(r) /\ Frame(r) /\ Bound(r) /\ Forward(r)
  BY ReadyFacts, ReaderFacts DEF RingInv
<1>2. pc[r] = "rn_sample" /\ off[r] = -1 /\ op' = op /\ from' = from
  BY ReadyFacts DEF RNWild, Offsets
<1>3. /\ op[r] = "next" /\ InNext(r) /\ loc[r].latesttime = slot[loc[r].lo].pkttime
  BY <1>2, OnTheWalk DEF Walking
<1>4. ~Resumes(r)
  BY <1>1, <1>2 DEF Forward, Walking, Offsets
<1>5. /\ slot' = slot /\ last_pkttime' = last_pkttime
      /\ \A o, t : Place(o, t)' <=> Place(o, t)
  BY <1>1, RingKept
<1>6. ~Resumes(r)'
  BY <1>2, <1>4 DEF Resumes
<1>7. CASE Goto(r, "rn_reposition") /\ UNCHANGED <<reader, rv, locals>>
  <2>1. /\ pc'[r] = "rn_reposition" /\ reader' = reader /\ loc' = loc /\ off' = off
    BY <1>1, <1>7 DEF Goto, locals, ReaderDomains
  <2>2. PlaceOf(r)'
    BY <1>1, <1>5, <2>1 DEF PlaceOf, Reading
  <2>3. Frame(r)'
    BY <1>2, <1>3, <2>1, FrameKept
  <2>4. Bound(r)'
    BY <1>1, <1>2, <1>3, <1>5, <2>1 DEF Bound, Reading, Offsets
  <2>5. Forward(r)' /\ Gapless(r)' /\ MovesForward(r)'
    BY <1>6, <2>1 DEF Forward, Gapless, MovesForward, Returned
  <2> QED
    BY <2>2, <2>3, <2>4, <2>5 DEF DeliveryOf
<1>8. CASE /\ SetReader(r, -1, RINGID_MAXIMUM, 0)
           /\ Return(r, RINGID_MAXIMUM, [Blank EXCEPT !.pktid = RINGID_MAXIMUM])
  <2>1. /\ pc'[r] = "idle" /\ reader'[r].pktoffset = -1
        /\ rv'[r].pkt = [Blank EXCEPT !.pktid = RINGID_MAXIMUM]
    BY <1>1, <1>8 DEF SetReader, Return, ReaderDomains, MoreDomains
  <2>2. rv'[r].pkt.pkttime = 0
    BY <2>1 DEF Blank
  <2>3. PlaceOf(r)'
    BY <2>1 DEF PlaceOf, Reading
  <2>4. Frame(r)'
    BY <1>1, <1>2, <2>1 DEF Frame, InNext, OnlyInNext, Reading
  <2>5. Bound(r)'
    BY <2>1 DEF Bound, InNext
  <2>6. Forward(r)' /\ Gapless(r)'
    BY <1>6 DEF Forward, Gapless
  <2>7. MovesForward(r)'
    <3>1. ~(from[r].pktoffset >= 0)
      BY <1>3, <1>4 DEF Resumes
    <3> QED
      BY <1>2, <2>2, <3>1 DEF MovesForward, FromTime, NSTUNSET
  <2> QED
    BY <2>3, <2>4, <2>5, <2>6, <2>7 DEF DeliveryOf
<1> QED
  BY <1>7, <1>8 DEF RNWild


(* The reader takes its new position, or its expressions match.            *)
LEMMA PositionDelivery ==
  ASSUME NEW r \in Readers, Ready(r), RNPosition(r) \/ RNMatch(r)
  PROVE  DeliveryOf(r)'
<1>1. /\ MoreDomains /\ ReaderDomains /\ UNCHANGED wvars /\ RingInv
      /\ PlaceOf(r) /\ Frame(r) /\ Bound(r) /\ Forward(r) /\ Gapless(r)
      /\ from[r].pkttime \in Int /\ ptime[r] \in Int
  BY ReadyFacts, ReaderFacts DEF RingInv
<1>2. /\ pc[r] \in Reading /\ pc'[r] \in {"rn_filter", "rn_copy"}
      /\ op' = op /\ from' = from /\ loc' = loc /\ off' = off /\ ptime' = ptime
      /\ reader'[r].pktoffset = off[r] /\ reader'[r].pkttime = ptime[r]
  <2>1. CASE RNPosition(r)
    BY <1>1, <2>1 DEF RNPosition, Goto, SetReader, ReaderDomains, MoreDomains, Reading
  <2>2. CASE RNMatch(r)
    BY <1>1, <2>2 DEF RNMatch, Goto, ReaderDomains, PlaceOf, Reading
  <2> QED
    BY <2>1, <2>2
<1>3. /\ op[r] = "next" /\ InNext(r) /\ loc[r].latesttime = slot[loc[r].lo].pkttime
  BY <1>2, OnTheWalk DEF Walking
<1>4. /\ slot' = slot /\ latestoffset' = latestoffset /\ written' = written
      /\ \A x, t : Place(x, t)' <=> Place(x, t)
      /\ \A x, t : Newer(x, t)' <=> Newer(x, t)
      /\ \A t : AllKept(t)' <=> AllKept(t)
  BY <1>1, RingKept
<1>5. Place(off[r], ptime[r]) /\ off[r] \in Offsets /\ ptime[r] <= slot[loc[r].lo].pkttime
  BY <1>1, <1>2, <1>3 DEF PlaceOf, Place, Bound
<1>6. PlaceOf(r)'
  BY <1>2, <1>4, <1>5 DEF PlaceOf
<1>7. Frame(r)'
  BY <1>2, <1>3, FrameKept
<1>8. Bound(r)'
  BY <1>2, <1>3, <1>4, <1>5 DEF Bound
<1>9. Forward(r)'
  <2> SUFFICES ASSUME Resumes(r)
               PROVE  Forward(r)'
    BY <1>2 DEF Forward, Resumes
  <2>1. /\ from[r].pkttime < ptime[r]
        /\ \A x \in Offsets :
              Dist(x, loc[r].lo) <= Dist(off[r], loc[r].lo) => Newer(x, from[r].pkttime)
    BY <1>1, <1>2 DEF Forward, Walking
  <2>2. off[r] >= 0 /\ from[r].pkttime <= ptime[r]
    BY <1>1, <1>5, <2>1 DEF Offsets
  <2> QED
    BY <1>2, <1>4, <1>5, <2>1, <2>2 DEF Forward, Dist, Finds, Walking, Reading
<1>10. Gapless(r)'
  <2> SUFFICES ASSUME Resumes(r), AllKept(from[r].pkttime)
               PROVE  Gapless(r)'
    BY <1>2, <1>4 DEF Gapless, Resumes
  <2>1. UnselectedBefore(r, ptime[r])
    BY <1>1, <1>2 DEF Gapless
  <2>2. UnselectedBefore(r, ptime[r])'
    BY <1>2, <1>4, <2>1 DEF UnselectedBefore
  <2> QED
    BY <1>2, <2>2 DEF Gapless
<1>11. MovesForward(r)'
  BY <1>2 DEF MovesForward, Returned
<1> QED
  BY <1>6, <1>7, <1>8, <1>9, <1>10, <1>11 DEF DeliveryOf

(* A slot taken as overwritten is one after the latest packet the call     *)
(* knows; a reader that keeps up meets none.                               *)
LEMMA LappedAhead ==
  ASSUME NEW r \in Readers, Ready(r), pc[r] = "rn_sample", off[r] \in Offsets, Lapped(r)
  PROVE  /\ off[r] # loc[r].lo
         /\ Dist(loc[r].lo, off[r]) <= Dist(loc[r].lo, latestoffset) + Begun
         /\ ~(Resumes(r) /\ AllKept(from[r].pkttime))
<1> DEFINE lo == loc[r].lo
           d == Dist(lo, latestoffset)
<1>1. /\ SlowWriter /\ RingInv /\ TypesOf(r) /\ PlaceOf(r) /\ Frame(r) /\ Bound(r)
      /\ Forward(r) /\ Gapless(r) /\ from[r].pkttime \in Int /\ reader[r].pkttime \in Int
  BY ReadyFacts
<1>2. /\ op[r] = "next" /\ InNext(r) /\ loc[r].latesttime = slot[lo].pkttime
  BY OnTheWalk DEF Walking
<1>3. /\ lo \in Offsets /\ latestoffset \in Offsets /\ latestoffset >= 0
      /\ slot[lo].pkttime \in Int /\ slot[lo].pkttime > 0
      /\ wpc # "idle" => /\ Begun = 1 /\ woff # lo /\ Dist(lo, woff) = d + 1
      /\ Begun \in {0, 1}
      /\ \A x \in Offsets :
           /\ Dist(lo, x) <= d /\ x # lo => slot[lo].pkttime < slot[x].pkttime
           /\ slot[lo].pkttime < slot[x].pkttime /\ ~Busy(x) => Dist(lo, x) <= d
  BY <1>1, <1>2, KnownLatest
<1>4. d \in Int /\ Dist(lo, off[r]) \in Int
  BY <1>3, DistNat
<1>5. off[r] # lo
  BY <1>2, <1>3 DEF Lapped, NSTUNSET
<1>6. Dist(lo, off[r]) <= d + Begun
  <2>1. CASE Busy(off[r])
    <3>1. wpc # "idle" /\ off[r] = woff
      BY <2>1 DEF Busy
    <3>2. Begun = 1 /\ Dist(lo, off[r]) = d + 1
      BY <1>3, <3>1
    <3> HIDE DEF d
    <3> QED
      BY <1>4, <3>2
  <2>2. CASE ~Busy(off[r])
    <3>1. slot[off[r]].pkttime > slot[lo].pkttime
      BY <1>1, <1>2, <2>2 DEF Lapped, RingInv, OrderInv, OneUnset
    <3>2. slot[off[r]].pkttime \in Int
      BY <1>1, SlotTimes DEF RingInv
    <3>3. slot[lo].pkttime < slot[off[r]].pkttime
      BY <1>3, <3>1, <3>2
    <3>4. Dist(lo, off[r]) <= d
      BY <1>3, <2>2, <3>3
    <3> HIDE DEF d
    <3> QED
      BY <1>3, <1>4, <3>4
  <2> QED
    BY <2>1, <2>2
<1>7. ASSUME Resumes(r), AllKept(from[r].pkttime)
      PROVE  FALSE
  <2> DEFINE o == reader[r].pktoffset
             t == reader[r].pkttime
  <2>1. off[r] = NextOffset(o) /\ o # lo /\ o >= 0 /\ from[r].pkttime <= t
    BY <1>1, <1>7 DEF Gapless, Forward
  <2>2. o \in Offsets /\ Held(o, t) /\ t <= slot[lo].pkttime
    BY <1>1, <1>2, <2>1 DEF PlaceOf, Place, Bound
  <2>3. Dist(lo, off[r]) = Dist(lo, o) + 1 /\ Dist(lo, o) \in Int
    BY <1>3, <1>5, <2>1, <2>2, DistStep, DistNat
  <2>4. Dist(lo, o) <= d
    <3>1. Begun = 0 \/ Begun = 1
      BY <1>3
    <3> HIDE DEF d, o
    <3> QED
      BY <1>4, <1>6, <2>3, <3>1
  <2>5. slot[lo].pkttime < slot[o].pkttime /\ slot[o].pkttime \in Int
    BY <1>1, <1>3, <2>1, <2>2, <2>4, SlotTimes DEF RingInv
  <2>6. Gone(t)
    BY <1>1, <1>3, <2>2, <2>5 DEF Held
  <2>7. AllKept(t)
    <3>1. \A q \in written : q.pkttime \in Int
      BY <1>1, WriterFacts DEF RingInv, WriterTypes, PacketType, NSTUNSET
    <3> QED
      BY <1>1, <1>7, <2>1, <3>1 DEF AllKept, After
  <2>8. earliestoffset = off[r]
    BY <2>1, <2>2, <2>6, <2>7 DEF Held
  <2>9. earliestoffset = lo \/ Dist(lo, earliestoffset) > d + Begun
    BY <1>1, <1>2 DEF Frame
  <2>10. Dist(lo, off[r]) > d + Begun
    BY <1>5, <2>8, <2>9
  <2>11. Begun \in Int
    BY <1>3
  <2> HIDE DEF d
  <2> QED
    BY <1>4, <1>6, <2>10, <2>11
<1> QED
  BY <1>5, <1>6, <1>7

(* The slot is taken as overwritten.                                       *)
LEMMA LappedDelivery ==
  ASSUME NEW r \in Readers, Ready(r), RNLapped(r)
  PROVE  DeliveryOf(r)'
<1>1. /\ ReaderDomains /\ UNCHANGED wvars /\ PlaceOf(r) /\ Bound(r) /\ Forward(r)
  BY ReadyFacts, ReaderFacts DEF RingInv
<1>2. /\ pc[r] = "rn_sample" /\ off[r] \in Offsets /\ Lapped(r) /\ pc'[r] = "rn_reposition"
      /\ op' = op /\ from' = from /\ loc' = loc /\ off' = off /\ reader' = reader
  BY <1>1, ReadyFacts DEF RNLapped, Goto, ReaderDomains, Offsets
<1>3. /\ op[r] = "next" /\ InNext(r) /\ loc[r].latesttime = slot[loc[r].lo].pkttime
  BY <1>2, OnTheWalk DEF Walking
<1>4. /\ slot' = slot /\ latestoffset' = latestoffset /\ Begun' = Begun
      /\ \A x, t : Place(x, t)' <=> Place(x, t)
      /\ \A x, t : Newer(x, t)' <=> Newer(x, t)
      /\ \A t : AllKept(t)' <=> AllKept(t)
  BY <1>1, RingKept
<1>5. /\ off[r] # loc[r].lo
      /\ Dist(loc[r].lo, off[r]) <= Dist(loc[r].lo, latestoffset) + Begun
      /\ ~(Resumes(r) /\ AllKept(from[r].pkttime))
  BY <1>2, LappedAhead
<1>6. PlaceOf(r)'
  BY <1>1, <1>2, <1>4 DEF PlaceOf, Reading
<1>7. Frame(r)'
  BY <1>2, <1>3, FrameKept
<1>8. Bound(r)'
  BY <1>1, <1>2, <1>3, <1>4, <1>5 DEF Bound, Reading, Dist
<1>9. Forward(r)'
  BY <1>1, <1>2, <1>4 DEF Forward, Resumes, Dist, Finds, Walking, Reading
<1>10. Gapless(r)' /\ MovesForward(r)'
  BY <1>2, <1>4, <1>5 DEF Gapless, MovesForward, Returned, Resumes
<1> QED
  BY <1>6, <1>7, <1>8, <1>9, <1>10 DEF DeliveryOf

(* The reader goes to the earliest packet, or gives up.                    *)
LEMMA RepositionDelivery ==
  ASSUME NEW r \in Readers, Ready(r), RNReposition(r)
  PROVE  DeliveryOf(r)'
<1>1. /\ MoreDomains /\ ReaderDomains /\ UNCHANGED wvars /\ RingInv /\ loc[r] \in LocType
      /\ PlaceOf(r) /\ Frame(r) /\ Bound(r) /\ Forward(r) /\ Gapless(r) /\ PositionInv
  BY ReadyFacts, ReaderFacts DEF RingInv
<1>2. /\ pc[r] = "rn_reposition" /\ op' = op /\ from' = from /\ reader' = reader
  BY DEF RNReposition
<1>3. /\ op[r] = "next" /\ InNext(r) /\ loc[r].latesttime = slot[loc[r].lo].pkttime
      /\ loc[r].lo \in Offsets /\ latestoffset >= 0
  BY <1>2, OnTheWalk DEF Walking
<1>4. ~(Resumes(r) /\ AllKept(from[r].pkttime))
  BY <1>1, <1>2 DEF Gapless
<1>5. CASE ReturnCode(r, RINGID_NONE)
  <2>1. pc'[r] = "idle" /\ rv'[r].id \notin PktIds
    BY <1>1, <1>5, ReturnsCode, CodesAreNoIds
  <2> QED
    BY <1>2, <1>3, <1>4, <2>1, NothingReturned
<1>6. CASE ~ReturnCode(r, RINGID_NONE)
  <2>1. /\ off'[r] = earliestoffset /\ pc'[r] = "rn_sample" /\ loc'[r].lo = loc[r].lo
        /\ loc'[r].began = loc[r].began /\ loc'[r].latesttime = loc[r].latesttime
    BY <1>1, <1>6 DEF RNReposition, Goto, ReaderDomains, MoreDomains, LocType
  <2>2. /\ slot' = slot /\ latestoffset' = latestoffset
        /\ \A x, t : Place(x, t)' <=> Place(x, t)
        /\ \A x, t : Newer(x, t)' <=> Newer(x, t)
        /\ \A t : AllKept(t)' <=> AllKept(t)
    BY <1>1, RingKept
  <2>3. PlaceOf(r)'
    BY <1>1, <1>2, <2>1, <2>2 DEF PlaceOf, Reading
  <2>4. Frame(r)'
    BY <1>2, <1>3, <2>1, FrameKept
  <2>5. Bound(r)'
    BY <1>1, <1>2, <1>3, <2>1, <2>2 DEF Bound, Reading
  <2>6. ASSUME Resumes(r)
        PROVE  /\ earliestoffset \in Offsets
               /\ \A x \in Offsets : Dist(x, loc[r].lo) <= Dist(earliestoffset, loc[r].lo) =>
                    Newer(x, from[r].pkttime)
    <3> DEFINE lo == loc[r].lo
               d == Dist(lo, latestoffset)
    <3>1. /\ off[r] \in Offsets
          /\ \A x \in Offsets : Dist(x, lo) <= Dist(off[r], lo) => Newer(x, from[r].pkttime)
      BY <1>1, <1>2, <2>6 DEF Forward, Walking
    <3>2. /\ off[r] # lo /\ Dist(lo, off[r]) <= d + Begun
      BY <1>1, <1>2, <1>3, <3>1 DEF Bound
    <3>3. /\ earliestoffset \in Offsets /\ latestoffset \in Offsets
          /\ earliestoffset = lo \/ Dist(lo, earliestoffset) > d + Begun
      BY <1>1, <1>3, EndsInOrder DEF RingInv, Frame
    <3>4. /\ d \in Int /\ Begun \in Int /\ Dist(lo, off[r]) \in Int
          /\ Dist(lo, earliestoffset) \in Int /\ MaxPackets \in Int
          /\ \A x \in Offsets : Dist(x, lo) \in Nat
      BY <1>3, <3>1, <3>3, DistNat, ReadersAssumption DEF Begun
    <3>5. Dist(earliestoffset, lo) <= Dist(off[r], lo)
      <4>1. CASE earliestoffset = lo
        <5>1. Dist(earliestoffset, lo) = 0
          BY <1>3, <4>1, DistFacts
        <5> QED
          BY <3>1, <3>4, <5>1
      <4>2. CASE earliestoffset # lo
        <5>1. Dist(lo, earliestoffset) > Dist(lo, off[r])
          <6> HIDE DEF d
          <6> QED
            BY <3>2, <3>3, <3>4, <4>2
        <5>2. /\ Dist(lo, earliestoffset) + Dist(earliestoffset, lo) = MaxPackets
              /\ Dist(lo, off[r]) + Dist(off[r], lo) = MaxPackets
          BY <1>3, <3>1, <3>2, <3>3, <4>2, DistBack
        <5>3. Dist(earliestoffset, lo) \in Int /\ Dist(off[r], lo) \in Int
          BY <3>1, <3>3, <3>4
        <5> QED
          BY <3>4, <5>1, <5>2, <5>3
      <4> QED
        BY <4>1, <4>2
    <3>6. ASSUME NEW x \in Offsets, Dist(x, lo) <= Dist(earliestoffset, lo)
          PROVE  Newer(x, from[r].pkttime)
      <4>1. /\ Dist(x, lo) \in Int /\ Dist(earliestoffset, lo) \in Int
            /\ Dist(off[r], lo) \in Int
        BY <3>1, <3>3, <3>4
      <4>2. Dist(x, lo) <= Dist(off[r], lo)
        BY <3>5, <3>6, <4>1
      <4> QED
        BY <3>1, <4>2
    <3> QED
      BY <3>3, <3>6
  <2>7. Forward(r)'
    <3> SUFFICES ASSUME Resumes(r)
                 PROVE  Forward(r)'
      BY <1>2 DEF Forward, Resumes
    <3> QED
      BY <1>1, <1>2, <2>1, <2>2, <2>6 DEF Forward, Dist, Finds, Walking, Reading
  <2>8. Gapless(r)' /\ MovesForward(r)'
    BY <1>2, <1>4, <2>1, <2>2 DEF Gapless, MovesForward, Returned, Resumes
  <2> QED
    BY <2>3, <2>4, <2>5, <2>7, <2>8 DEF DeliveryOf
<1> QED
  BY <1>5, <1>6


(* A slot sampled on the walk holds a packet and is not being filled.      *)
LEMMA SampledPlace ==
  ASSUME NEW r \in Readers, Ready(r), pc[r] = "rn_sample", off[r] \in Offsets, ~Lapped(r)
  PROVE  /\ slot[off[r]].pkttime \in Int /\ slot[off[r]].pkttime > 0
         /\ slot[off[r]].pkttime <= slot[loc[r].lo].pkttime
         /\ ~Busy(off[r])
         /\ Place(off[r], slot[off[r]].pkttime)
<1>1. /\ SlowWriter /\ RingInv /\ PositionInv /\ TypesOf(r) /\ Frame(r) /\ NotAhead(r)
  BY ReadyFacts, ReaderFacts DEF RingInv
<1>2. InNext(r) /\ loc[r].latesttime = slot[loc[r].lo].pkttime
  BY OnTheWalk DEF Walking
<1>3. /\ loc[r].lo \in Offsets /\ slot[loc[r].lo].pkttime \in Int /\ latestoffset >= 0
      /\ latestoffset \in Offsets /\ ~Busy(loc[r].lo)
      /\ wpc # "idle" => woff # loc[r].lo
  BY <1>1, <1>2, KnownLatest
<1>4. /\ slot[off[r]].pkttime \in Int /\ slot[off[r]].pkttime >= -1
      /\ slot[off[r]].pkttime # NSTUNSET /\ slot[off[r]].pkttime <= slot[loc[r].lo].pkttime
  BY <1>1, <1>2, <1>3, SlotTimes DEF Lapped
<1>5. slot[off[r]].pkttime # 0
  <2> SUFFICES ASSUME slot[off[r]].pkttime = 0
               PROVE  FALSE
    OBVIOUS
  <2>1. Filling
    BY DEF Filling
  <2>2. off[r] <= latestoffset
    BY <1>1, <2>1 DEF NotAhead
  <2>3. slot[off[r]].pkttime > 0
    BY <1>1, <2>1, <2>2, WriterFacts DEF FillsInOrder
  <2> QED
    BY <2>3
<1>6. slot[off[r]].pkttime > 0
  BY <1>4, <1>5 DEF NSTUNSET
<1>7. ~Busy(off[r])
  <2> SUFFICES ASSUME Busy(off[r])
               PROVE  FALSE
    OBVIOUS
  <2>1. off[r] = woff /\ wpc \notin {"idle", "invalidate"} /\ EndsOK /\ NewestCommits
        /\ SlotsHoldPackets
    BY <1>1, WriterFacts DEF Busy
  <2>2. wpc \in Commits
    BY <1>4, <2>1 DEF EndsOK, SlotsHoldPackets, Unpublished, Commits
  <2>3. slot[woff].pkttime = last_pkttime /\ slot[loc[r].lo].pkttime < last_pkttime
    BY <1>3, <2>1, <2>2 DEF NewestCommits
  <2>4. last_pkttime \in Nat
    BY <1>1, WriterFacts
  <2> QED
    BY <1>3, <1>4, <2>1, <2>3, <2>4
<1>8. Place(off[r], slot[off[r]].pkttime)
  BY <1>1, <1>3, <1>6, <1>7, PlaceAtSlot
<1> QED
  BY <1>4, <1>6, <1>7, <1>8

(* Between a place and the packet in the next slot, no packet that is      *)
(* still in the ring was written.                                          *)
LEMMA NothingBetween ==
  ASSUME RingInv, NEW o, NEW t, Place(o, t), AllKept(t),
         ~Busy(NextOffset(o)), slot[NextOffset(o)].pkttime > 0,
         NEW q \in written, t < q.pkttime
  PROVE  slot[NextOffset(o)].pkttime <= q.pkttime
<1> DEFINE n == NextOffset(o)
<1> SUFFICES ASSUME ~(slot[n].pkttime <= q.pkttime)
             PROVE  FALSE
  OBVIOUS
<1>1. /\ latestoffset >= 0 /\ latestoffset \in Offsets /\ o \in Offsets /\ t \in Int /\ t > 0
  BY PlaceFacts
<1>2. n \in Offsets /\ Held(o, t)
  BY <1>1, NextOffsetInBuffer DEF Place
<1>3. slot[n].pkttime \in Int /\ q.pkttime \in Int /\ last_pkttime \in Nat
      /\ slot[n].pkttime <= last_pkttime /\ q.pkttime < slot[n].pkttime
  <2>1. slot[n].pkttime \in Int /\ slot[n].pkttime <= last_pkttime
    BY <1>2, SlotTimes DEF RingInv
  <2>2. q.pkttime \in Int /\ last_pkttime \in Nat
    BY WriterFacts DEF RingInv, WriterTypes, PacketType, NSTUNSET
  <2> QED
    BY <2>1, <2>2
<1>4. ~Gone(q.pkttime)
  BY <1>1, KeptMeans
<1>5. PICK y \in Offsets : slot[y] = q
  BY <1>4 DEF RingInv, OrderInv, Contents
<1>6. ~Busy(y)
  <2> SUFFICES ASSUME Busy(y)
               PROVE  FALSE
    OBVIOUS
  <2>1. y = woff /\ wpc \notin {"idle", "invalidate"} /\ EndsOK /\ NewestCommits
        /\ SlotsHoldPackets
    BY WriterFacts DEF Busy, RingInv
  <2>2. slot[woff].pkttime # NSTUNSET
    BY <1>1, <1>5, <2>1 DEF NSTUNSET
  <2>3. wpc \in Commits
    BY <2>1, <2>2 DEF EndsOK, SlotsHoldPackets, Unpublished, Commits
  <2>4. slot[woff].pkttime = last_pkttime
    BY <2>1, <2>3 DEF NewestCommits
  <2> QED
    BY <1>3, <1>5, <2>1, <2>4
<1>7. /\ WriterTypes /\ Rank(y) \in Nat /\ Rank(n) \in Nat /\ Rank(o) \in Nat
      /\ TargetOffset \in Offsets
  BY <1>1, <1>2, <1>5, WriterFacts, RankFacts DEF RingInv, Offsets
<1>8. Rank(y) < Rank(n)
  <2>1. ~(Rank(n) < Rank(y))
    BY <1>2, <1>3, <1>5 DEF RingInv, OrderInv, RingOrder
  <2>2. Rank(n) # Rank(y)
    BY <1>2, <1>3, <1>5, <1>7, DistInjective DEF Rank
  <2> QED
    BY <1>7, <2>1, <2>2
<1>9. Rank(n) = Rank(o) + 1
  <2>1. n # TargetOffset
    BY <1>2, <1>7, <1>8, RankFacts
  <2> QED
    BY <1>1, <1>7, <2>1, DistStep DEF Rank
<1>10. ~Gone(t)
  <2> SUFFICES ASSUME Gone(t)
               PROVE  FALSE
    OBVIOUS
  <2>1. earliestoffset = n
    BY <1>2 DEF Held
  <2> QED
    BY <1>2, <1>3, <1>4, <2>1 DEF Gone, Offsets
<1>11. ~Busy(o) /\ slot[o].pkttime = t
  BY <1>2, <1>10 DEF Held
<1>12. CASE Rank(y) = Rank(o)
  BY <1>1, <1>5, <1>7, <1>11, <1>12, DistInjective DEF Rank
<1>13. CASE Rank(y) # Rank(o)
  <2>1. Rank(y) < Rank(o)
    BY <1>7, <1>8, <1>9, <1>13
  <2>2. slot[y].pkttime > 0
    BY <1>1, <1>3, <1>5
  <2>3. slot[y].pkttime < slot[o].pkttime
    BY <1>1, <1>6, <2>1, <2>2 DEF RingInv, OrderInv, RingOrder
  <2> QED
    BY <1>1, <1>3, <1>5, <1>11, <2>3
<1> QED
  BY <1>12, <1>13

(* A slot is sampled.                                                      *)
LEMMA SampleDelivery ==
  ASSUME NEW r \in Readers, Ready(r), RNSample(r)
  PROVE  DeliveryOf(r)'
<1>1. /\ MoreDomains /\ ReaderDomains /\ UNCHANGED wvars /\ RingInv /\ loc[r] \in LocType
      /\ PlaceOf(r) /\ Frame(r) /\ Bound(r) /\ Forward(r) /\ Gapless(r)
      /\ from[r].pkttime \in Int /\ reader[r].pkttime \in Int
  BY ReadyFacts, ReaderFacts DEF RingInv
<1>2. /\ pc[r] = "rn_sample" /\ off[r] \in Offsets /\ ~Lapped(r) /\ pc'[r] = "rn_position"
      /\ op' = op /\ from' = from /\ off' = off /\ reader' = reader
      /\ ptime'[r] = slot[off[r]].pkttime /\ loc'[r].lo = loc[r].lo
      /\ loc'[r].began = loc[r].began /\ loc'[r].latesttime = loc[r].latesttime
  <2>1. off[r] \in Offsets
    BY ReadyFacts DEF RNSample, Offsets
  <2> QED
    BY <1>1, <2>1 DEF RNSample, Goto, ReaderDomains, MoreDomains, LocType
<1>3. /\ op[r] = "next" /\ InNext(r) /\ loc[r].latesttime = slot[loc[r].lo].pkttime
      /\ loc[r].lo \in Offsets
  BY <1>2, OnTheWalk DEF Walking
<1>4. /\ slot' = slot /\ latestoffset' = latestoffset /\ written' = written
      /\ \A x, t : Place(x, t)' <=> Place(x, t)
      /\ \A x, t : Newer(x, t)' <=> Newer(x, t)
      /\ \A t : AllKept(t)' <=> AllKept(t)
  BY <1>1, RingKept
<1>5. /\ slot[off[r]].pkttime \in Int /\ slot[off[r]].pkttime > 0
      /\ slot[off[r]].pkttime <= slot[loc[r].lo].pkttime
      /\ ~Busy(off[r])
      /\ Place(off[r], slot[off[r]].pkttime)
  BY <1>2, SampledPlace
<1>6. PlaceOf(r)'
  BY <1>1, <1>2, <1>4, <1>5 DEF PlaceOf
<1>7. Frame(r)'
  BY <1>2, <1>3, FrameKept
<1>8. Bound(r)'
  BY <1>1, <1>2, <1>3, <1>4, <1>5 DEF Bound
<1>9. Forward(r)'
  <2> SUFFICES ASSUME Resumes(r)
               PROVE  Forward(r)'
    BY <1>2 DEF Forward, Resumes
  <2>1. /\ reader[r].pktoffset >= 0 /\ from[r].pkttime <= reader[r].pkttime
        /\ \A x \in Offsets :
              Dist(x, loc[r].lo) <= Dist(off[r], loc[r].lo) => Newer(x, from[r].pkttime)
    BY <1>1, <1>2 DEF Forward, Walking
  <2>2. Newer(off[r], from[r].pkttime)
    <3>1. Dist(off[r], loc[r].lo) \in Nat
      BY <1>2, <1>3, DistNat
    <3> QED
      BY <1>2, <2>1, <3>1
  <2>3. from[r].pkttime < slot[off[r]].pkttime
    BY <1>1, <1>5, <2>2 DEF Newer
  <2> QED
    BY <1>2, <1>4, <2>1, <2>3 DEF Forward, Dist, Finds, Walking, Reading
<1>10. Gapless(r)'
  <2> SUFFICES ASSUME Resumes(r), AllKept(from[r].pkttime)
               PROVE  Gapless(r)'
    BY <1>2, <1>4 DEF Gapless, Resumes
  <2>1. /\ off[r] = NextOffset(reader[r].pktoffset) /\ Unselected(r, reader[r].pkttime)
        /\ reader[r].pktoffset >= 0 /\ from[r].pkttime <= reader[r].pkttime
    BY <1>1, <1>2 DEF Gapless, Forward
  <2>2. Place(reader[r].pktoffset, reader[r].pkttime)
    BY <1>1, <2>1 DEF PlaceOf
  <2>3. \A q \in written : q.pkttime \in Int
    BY <1>1, WriterFacts DEF RingInv, WriterTypes, PacketType, NSTUNSET
  <2>4. AllKept(reader[r].pkttime)
    BY <1>1, <2>1, <2>3 DEF AllKept, After
  <2>5. ASSUME NEW q \in written, from[r].pkttime < q.pkttime, q.pkttime < slot[off[r]].pkttime
        PROVE  q.streamid \notin Selected[r]
    <3>1. q.pkttime \in Int
      BY <2>3
    <3>2. ~(reader[r].pkttime < q.pkttime)
      <4>1. reader[r].pkttime < q.pkttime => slot[off[r]].pkttime <= q.pkttime
        BY <1>1, <1>5, <2>1, <2>2, <2>4, NothingBetween
      <4> QED
        BY <1>5, <2>5, <3>1, <4>1
    <3> QED
      BY <1>1, <2>1, <2>5, <3>1, <3>2 DEF Unselected
  <2>6. UnselectedBefore(r, slot[off[r]].pkttime)
    BY <2>5 DEF UnselectedBefore
  <2>7. UnselectedBefore(r, ptime[r])'
    BY <1>2, <1>4, <2>6 DEF UnselectedBefore
  <2> QED
    BY <1>2, <2>7 DEF Gapless
<1>11. MovesForward(r)'
  BY <1>2 DEF MovesForward, Returned
<1> QED
  BY <1>6, <1>7, <1>8, <1>9, <1>10, <1>11 DEF DeliveryOf


(* A reader that keeps up finds the packet it is looking at in its slot.   *)
LEMMA StillThere ==
  ASSUME NEW r \in Readers, Ready(r), pc[r] \in Reading, Resumes(r), AllKept(from[r].pkttime)
  PROVE  /\ off[r] \in Offsets /\ ~Busy(off[r]) /\ slot[off[r]].pkttime = ptime[r]
         /\ slot[off[r]] \in written
         /\ \A q \in written : q.pkttime = ptime[r] => q = slot[off[r]]
<1>1. RingInv /\ PlaceOf(r) /\ Forward(r)
  BY ReadyFacts
<1>2. /\ Place(off[r], ptime[r]) /\ Stamped(ptime[r]) /\ Held(off[r], ptime[r])
      /\ from[r].pkttime < ptime[r]
  BY <1>1 DEF PlaceOf, Place, Forward
<1>3. /\ latestoffset >= 0 /\ off[r] \in Offsets /\ ptime[r] \in Int /\ ptime[r] > 0
  BY <1>1, <1>2, PlaceFacts
<1>4. ~Gone(ptime[r])
  <2>1. PICK q \in written : q.pkttime = ptime[r]
    BY <1>2 DEF Stamped
  <2> QED
    BY <1>1, <1>2, <1>3, <2>1, KeptMeans, ReadyFacts
<1>5. ~Busy(off[r]) /\ slot[off[r]].pkttime = ptime[r]
  BY <1>2, <1>4 DEF Held
<1>6. slot[off[r]] \in written /\ StampsNamePackets
  BY <1>1, <1>3, <1>5, SlotTimes, WriterFacts DEF RingInv
<1> QED
  BY <1>3, <1>5, <1>6 DEF StampsNamePackets

(* The reader's expressions do not match: the packet passed over is one it *)
(* does not select.                                                        *)
LEMMA SkipDelivery ==
  ASSUME NEW r \in Readers, Ready(r), RNSkip(r)
  PROVE  DeliveryOf(r)'
<1>1. /\ MoreDomains /\ ReaderDomains /\ UNCHANGED wvars /\ RingInv /\ PositionInv
      /\ PlaceOf(r) /\ Frame(r) /\ Bound(r) /\ Forward(r) /\ Gapless(r)
      /\ from[r].pkttime \in Int /\ ptime[r] \in Int
  BY ReadyFacts, ReaderFacts DEF RingInv
<1>2. /\ pc[r] = "rn_filter" /\ pc[r] \in Reading
      /\ op' = op /\ from' = from /\ reader' = reader
  BY DEF RNSkip, Reading
<1>3. /\ op[r] = "next" /\ InNext(r) /\ loc[r].latesttime = slot[loc[r].lo].pkttime
      /\ loc[r].lo \in Offsets
  BY <1>2, OnTheWalk DEF Walking
<1>4. /\ reader[r].pktoffset = off[r] /\ reader[r].pkttime = ptime[r] /\ off[r] \in Offsets
  BY <1>1, <1>2 DEF PlaceOf, Place
<1>5. Resumes(r) /\ AllKept(from[r].pkttime) => Unselected(r, reader[r].pkttime)
  <2> SUFFICES ASSUME Resumes(r), AllKept(from[r].pkttime), NEW q \in written,
                      from[r].pkttime < q.pkttime, q.pkttime <= ptime[r]
               PROVE  q.streamid \notin Selected[r]
    BY <1>4 DEF Unselected
  <2>1. UnselectedBefore(r, ptime[r]) /\ q.pkttime \in Int
    BY <1>1, <1>2, WriterFacts DEF Gapless, WriterTypes, PacketType, NSTUNSET
  <2>2. CASE q.pkttime < ptime[r]
    BY <2>1, <2>2 DEF UnselectedBefore
  <2>3. CASE q.pkttime = ptime[r]
    <3>1. q = slot[off[r]] /\ ~Busy(off[r])
      BY <1>2, <2>3, StillThere
    <3>2. ~InCopy(off[r], "streamid")
      BY <3>1 DEF InCopy, Busy
    <3>3. slot[off[r]]["streamid"] \notin Selected[r]
      BY <3>2 DEF RNSkip, Reads
    <3> QED
      BY <3>1, <3>3
  <2> QED
    BY <1>1, <2>1, <2>2, <2>3
<1>6. CASE NextOffset(off[r]) = NextOffset(loc[r].lo)
  <2>1. pc'[r] = "idle" /\ rv'[r].id \notin PktIds
    BY <1>1, <1>6, ReturnsCode, CodesAreNoIds DEF RNSkip
  <2> QED
    BY <1>2, <1>3, <1>5, <2>1, NothingReturned
<1>7. CASE NextOffset(off[r]) # NextOffset(loc[r].lo)
  <2>1. /\ pc'[r] = "rn_sample" /\ off'[r] = NextOffset(off[r]) /\ loc' = loc
    BY <1>1, <1>7 DEF RNSkip, Goto, ReaderDomains
  <2>2. off[r] # loc[r].lo /\ NextOffset(off[r]) \in Offsets
    BY <1>4, <1>7, NextOffsetInBuffer
  <2>3. /\ slot' = slot /\ latestoffset' = latestoffset /\ written' = written
        /\ \A x, t : Place(x, t)' <=> Place(x, t)
        /\ \A x, t : Newer(x, t)' <=> Newer(x, t)
        /\ \A t : AllKept(t)' <=> AllKept(t)
    BY <1>1, RingKept
  <2>4. PlaceOf(r)'
    BY <1>1, <1>2, <2>1, <2>3 DEF PlaceOf, Reading
  <2>5. Frame(r)'
    BY <1>2, <1>3, <2>1, FrameKept
  <2>6. Bound(r)'
    BY <1>1, <1>2, <1>3, <2>1, <2>3 DEF Bound, Reading
  <2>7. Forward(r)'
    <3> SUFFICES ASSUME Resumes(r)
                 PROVE  Forward(r)'
      BY <1>2 DEF Forward, Resumes
    <3>1. /\ reader[r].pktoffset >= 0 /\ from[r].pkttime <= reader[r].pkttime
          /\ \A x \in Offsets :
                Dist(x, loc[r].lo) <= Dist(off[r], loc[r].lo) => Newer(x, from[r].pkttime)
      BY <1>1, <1>2 DEF Forward, Walking
    <3>2. Dist(NextOffset(off[r]), loc[r].lo) = Dist(off[r], loc[r].lo) - 1
      BY <1>3, <1>4, <2>2, DistFacts
    <3>3. \A x \in Offsets : Dist(x, loc[r].lo) \in Nat
      BY <1>3, DistNat
    <3>4. \A x \in Offsets :
            Dist(x, loc[r].lo) <= Dist(NextOffset(off[r]), loc[r].lo) =>
              Newer(x, from[r].pkttime)
      BY <1>4, <3>1, <3>2, <3>3
    <3> QED
      BY <1>2, <2>1, <2>2, <2>3, <3>1, <3>4 DEF Forward, Dist, Finds, Walking, Reading
  <2>8. Gapless(r)'
    <3> SUFFICES ASSUME Resumes(r), AllKept(from[r].pkttime)
                 PROVE  Gapless(r)'
      BY <1>2, <2>3 DEF Gapless, Resumes
    <3>1. Unselected(r, reader[r].pkttime)'
      BY <1>2, <1>5, <2>3 DEF Unselected
    <3> QED
      BY <1>2, <1>4, <2>1, <2>2, <3>1 DEF Gapless, Reading
  <2>9. MovesForward(r)'
    BY <2>1 DEF MovesForward, Returned
  <2> QED
    BY <2>4, <2>5, <2>6, <2>7, <2>8, <2>9 DEF DeliveryOf
<1> QED
  BY <1>6, <1>7

\* Packet IDs stay within their range.
ValidIds ==
  /\ \A p \in written : p.pktid \in PktIds
  /\ wpc # "idle" => wpkt.pktid \in PktIds

(* The packet is handed out, unless it was overwritten while it was copied.*)
LEMMA ReturnDelivery ==
  ASSUME NEW r \in Readers, Ready(r), ValidIds, RNReturn(r)
  PROVE  DeliveryOf(r)'
<1>1. /\ MoreDomains /\ ReaderDomains /\ UNCHANGED wvars /\ RingInv /\ PositionInv
      /\ PlaceOf(r) /\ Frame(r) /\ Bound(r) /\ Forward(r) /\ Gapless(r) /\ SeqlockInv
      /\ from[r].pkttime \in Int /\ ptime[r] \in Int
  BY ReadyFacts, ReaderFacts DEF RingInv
<1>2. /\ pc[r] = "rn_copy" /\ pc[r] \in Reading /\ rtodo[r] = {}
      /\ op' = op /\ from' = from /\ reader' = reader
  BY DEF RNReturn, Reading
<1>3. op[r] = "next" /\ InNext(r)
  BY <1>2, OnTheWalk DEF Walking
<1>4. /\ reader[r].pktoffset = off[r] /\ reader[r].pkttime = ptime[r] /\ off[r] \in Offsets
      /\ ptime[r] > 0
  <2>1. Place(off[r], ptime[r]) /\ reader[r].pktoffset = off[r] /\ reader[r].pkttime = ptime[r]
    BY <1>1, <1>2 DEF PlaceOf
  <2> QED
    BY <1>1, <2>1, PlaceFacts
<1>5. CASE ~Intact(r)
  <2>1. pc'[r] = "idle" /\ rv'[r].id \notin PktIds
    BY <1>1, <1>5, ReturnsCode, CodesAreNoIds DEF RNReturn
  <2>2. ~(Resumes(r) /\ AllKept(from[r].pkttime))
    BY <1>2, <1>5, StillThere DEF Intact
  <2> QED
    BY <1>2, <1>3, <2>1, <2>2, NothingReturned
<1>6. CASE Intact(r)
  <2>1. /\ pc'[r] = "idle" /\ rv'[r].id = buf[r].pktid /\ rv'[r].pkt = buf[r]
    BY <1>1, <1>6 DEF RNReturn, Return, ReaderDomains
  <2>2. /\ buf[r] = slot[off[r]] /\ buf[r] \in written \cup {Blank}
        /\ buf[r].streamid \in Selected[r] \cup {NoStream}
    BY <1>1, <1>2, <1>4, <1>6, CheckedCopy DEF Copied, Copying
  <2>3. buf[r].pkttime = ptime[r] /\ buf[r] \in written /\ buf[r].pktid \in PktIds
    BY <1>4, <1>6, <2>2, BlankPacket DEF Intact, ValidIds
  <2>4. /\ buf[r].streamid \in Selected[r]
        /\ \A q \in written : q.pkttime = ptime[r] => q = buf[r]
    BY <1>1, <2>2, <2>3, WriterFacts, ReadersAssumption DEF StampsNamePackets
  <2>5. /\ slot' = slot /\ latestoffset' = latestoffset /\ written' = written
        /\ \A x, t : Place(x, t)' <=> Place(x, t)
        /\ \A t : AllKept(t)' <=> AllKept(t)
    BY <1>1, RingKept
  <2>6. pc'[r] \notin OnlyInNext /\ pc'[r] \notin Reading /\ pc'[r] \notin Finds
    BY <2>1 DEF OnlyInNext, Reading, Finds
  <2>7. PlaceOf(r)'
    BY <1>1, <1>2, <2>1, <2>5, <2>6 DEF PlaceOf
  <2>8. Frame(r)'
    BY <1>1, <1>2, <2>1, <2>6 DEF Frame, InNext
  <2>9. Bound(r)'
    BY <2>1 DEF Bound, InNext
  <2>10. Forward(r)'
    BY <1>1, <1>2, <2>1, <2>6 DEF Forward, Resumes, Walking
  <2>11. Delivered(r)'
    BY <1>2, <1>3, <2>1, <2>3 DEF Delivered
  <2>12. Gapless(r)'
    <3> SUFFICES ASSUME Resumes(r), AllKept(from[r].pkttime)
                 PROVE  Gapless(r)'
      BY <1>2, <2>5 DEF Gapless, Resumes
    <3>1. UnselectedBefore(r, ptime[r]) /\ from[r].pkttime < ptime[r]
      BY <1>1, <1>2 DEF Gapless, Forward
    <3>2. \A q \in written : q.pkttime \in Int
      BY <1>1, WriterFacts DEF WriterTypes, PacketType, NSTUNSET
    <3>3. \A q \in written :
            (from[r].pkttime < q.pkttime /\ q.pkttime <= ptime[r] /\ q.streamid \in Selected[r])
              <=> q = buf[r]
      BY <1>1, <2>3, <2>4, <3>1, <3>2 DEF UnselectedBefore
    <3>4. {q \in After(from[r].pkttime) :
             q.pkttime <= reader[r].pkttime /\ q.streamid \in Selected[r]} = {buf[r]}
      <4>1. ASSUME NEW q
            PROVE  q \in {p \in After(from[r].pkttime) :
                            p.pkttime <= reader[r].pkttime /\ p.streamid \in Selected[r]}
                     <=> q \in {buf[r]}
        BY <1>1, <1>4, <2>3, <3>2, <3>3 DEF After
      <4> QED
        BY <4>1
    <3>5. {q \in After(from[r].pkttime) :
             q.pkttime <= reader[r].pkttime /\ q.streamid \in Selected[r]}' = {rv'[r].pkt}
      BY <1>2, <2>1, <2>5, <3>4 DEF After
    <3> QED
      BY <2>1, <2>6, <2>11, <3>5 DEF Gapless
  <2>13. MovesForward(r)'
    <3>1. from[r].pktoffset >= 0 => from[r].pkttime < ptime[r]
      BY <1>1, <1>2, <1>3 DEF Forward, Resumes
    <3> QED
      BY <1>2, <1>4, <2>1, <2>3, <3>1, <1>1 DEF MovesForward, FromTime, NSTUNSET
  <2> QED
    BY <2>7, <2>8, <2>9, <2>10, <2>12, <2>13 DEF DeliveryOf
<1> QED
  BY <1>5, <1>6


-----------------------------------------------------------------------------
(* The theorems.                                                           *)

(* Packet IDs, generated or supplied, stay within their range.             *)
LEMMA IdsInvariant == Spec => []ValidIds
<1>1. Init => ValidIds
  BY DEF Init, ValidIds
<1>2. ValidIds /\ PositionInv /\ OrderInv /\ [Next]_vars => ValidIds'
  <2> SUFFICES ASSUME ValidIds, PositionInv, OrderInv, [Next]_vars
               PROVE  ValidIds'
    OBVIOUS
  <2>1. CASE UNCHANGED wvars
    BY <2>1 DEF wvars, ValidIds
  <2>2. ASSUME NEW sid \in Streams, NEW reqid \in SuppliedIds \cup {RINGID_NONE},
               WStart(sid, reqid)
        PROVE  ValidIds'
    <3>1. written' = written /\ wpc' = "invalidate"
          /\ wpkt'.pktid = IF reqid = RINGID_NONE THEN NextPktId ELSE reqid
      BY <2>2 DEF WStart
    <3>2. latestoffset >= 0 => slot[latestoffset].pktid \in PktIds
      <4> SUFFICES ASSUME latestoffset >= 0
                   PROVE  slot[latestoffset].pktid \in PktIds
        OBVIOUS
      <4>1. /\ latestoffset \in Offsets /\ earliestoffset \in Offsets
            /\ slot[earliestoffset].pkttime > 0
            /\ slot[earliestoffset].pkttime <= slot[latestoffset].pkttime
        BY EndsInOrder
      <4>2. slot[latestoffset].pkttime \in Int /\ slot[earliestoffset].pkttime \in Int
        BY <4>1, SlotTimes
      <4>3. slot[latestoffset].pkttime > 0
        BY <4>1, <4>2
      <4> QED
        BY <4>1, <4>3, SlotTimes DEF ValidIds
    <3>3. NextPktId \in PktIds
      <4>1. latestoffset < 0 \/ latestoffset >= 0
        BY WriterFacts DEF Offsets
      <4> QED
        BY <3>2, <4>1, ReadersAssumption DEF NextPktId, PktIds
    <3> QED
      BY <3>1, <3>3, ReadersAssumption DEF ValidIds, PktIds
  <2>3. CASE WError
    BY <2>3 DEF WError, ValidIds
  <2>4. CASE Writing
    BY <2>4
       DEF Writing, WInvalidate, WPayload, WHeader, WPublish, WEarliest, WLatest, ValidIds
  <2>5. ASSUME NEW r \in Readers, ReadStep(r) \/ CallReadNext(r) \/ ClientCommand(r)
        PROVE  UNCHANGED wvars
    BY <2>5, ReaderLeavesRing
  <2> QED
    BY <2>1, <2>2, <2>3, <2>4, <2>5 DEF Next, Write, vars
<1> QED
  BY <1>1, <1>2, PositionInvariant, OrderInvariant, PTL DEF Spec

(* A step of reader r leaves its part of the invariant true.               *)
LEMMA StepDelivery ==
  ASSUME RelativeOnly, NEW r \in Readers, Ready(r), ValidIds, DOMAIN from = Readers,
         ReadStep(r) \/ CallReadNext(r) \/ ClientCommand(r)
  PROVE  DeliveryOf(r)'
<1>1. /\ TypesOf(r) /\ op[r] \notin {"position", "read"}
      /\ MoreDomains /\ ReaderDomains
  BY ReadyFacts, ReaderFacts DEF Frame, RingInv
<1>2. CASE \E f \in Whole : CopyField(r, f)
  BY <1>2, StaysDelivered DEF CopyField
<1>3. CASE \/ FEarliest(r) \/ FLatest(r) \/ FSample(r) \/ FId(r)
           \/ FCheckEarliest(r) \/ FCheckLatest(r) \/ FMiss(r)
  BY <1>3, FindDelivery
<1>4. CASE RPSample(r) \/ RPNone(r) \/ RNEmpty(r) \/ RNCaughtUp(r) \/ RNLatest(r) \/ RNBegin(r)
  BY <1>4, SampleLatestDelivery, NoLatestDelivery, NothingNewDelivery, LatestDelivery,
     BeginDelivery
<1>5. CASE \/ Found(r) \/ RNNotFound(r) \/ RNSample(r) \/ RNLapped(r) \/ RNReposition(r)
           \/ RNWild(r)
  BY <1>5, FoundDelivery, NotFoundDelivery, SampleDelivery, LappedDelivery,
     RepositionDelivery, WildDelivery
<1>6. CASE RNPosition(r) \/ RNMatch(r) \/ RNSkip(r) \/ RNReturn(r) \/ PBDone(r)
  BY <1>6, PositionDelivery, SkipDelivery, ReturnDelivery, BeforeDoneDelivery
<1>7. ~(PSResolved(r) \/ PSTime(r) \/ PSCheck(r) \/ RDReturn(r) \/ NotFound(r))
  BY <1>1 DEF PSResolved, PSTime, PSCheck, RDReturn, NotFound, TypesOf
<1>8. CASE CallReadNext(r)
  BY <1>8, CallDelivery
<1>9. CASE ClientCommand(r)
  <2>1. \A id, time : ~CallPosition(r, id, time) /\ ~CallRead(r, id)
    BY DEF CallPosition, CallRead, Command, RelativeOnly
  <2>2. \E id : CallPositionBefore(r, id)
    BY <1>9, <2>1 DEF ClientCommand
  <2> QED
    BY <2>2, CallBeforeDelivery
<1> QED
  BY <1>2, <1>3, <1>4, <1>5, <1>6, <1>7, <1>8, <1>9 DEF ReadStep

(* The invariant that says where RingReadNext() is and what it has passed, *)
(* when the writer does not get around the buffer during a call and the    *)
(* readers are positioned with RingPositionBefore() only.                  *)
THEOREM DeliveryInvariant ==
  ASSUME SlowWriter, RelativeOnly
  PROVE  Spec => []DeliveryInv
<1>1. Init => DeliveryInv
  <2> SUFFICES ASSUME Init
               PROVE  DeliveryInv
    OBVIOUS
  <2>1. DOMAIN from = Readers
    BY DEF Init
  <2>2. ASSUME NEW r \in Readers
        PROVE  DeliveryOf(r)
    <3>1. /\ pc[r] = "idle" /\ op[r] = "none"
          /\ reader[r] = [pktoffset |-> -1, pktid |-> RINGID_NONE, pkttime |-> NSTUNSET]
          /\ from[r] = reader[r]
      BY DEF Init
    <3>2. reader[r] \in ReaderType /\ reader[r].pktoffset = -1
      BY <3>1, CodesAreNoIds DEF ReaderType
    <3>3. PlaceOf(r) /\ Frame(r)
      BY <3>1, <3>2 DEF PlaceOf, Frame, InNext, OnlyInNext, Reading
    <3>4. Bound(r) /\ Forward(r) /\ Gapless(r) /\ MovesForward(r)
      BY <3>1 DEF Bound, Forward, Gapless, MovesForward, InNext, Resumes, Returned
    <3> QED
      BY <3>3, <3>4 DEF DeliveryOf
  <2> QED
    BY <2>1, <2>2 DEF DeliveryInv
<1>2. /\ DeliveryInv /\ PositionInv /\ PositionInv' /\ OrderInv /\ OrderInv' /\ ValidIds
      /\ [Next]_vars
      => DeliveryInv'
  <2> SUFFICES ASSUME DeliveryInv, PositionInv, PositionInv', OrderInv, OrderInv', ValidIds,
                      [Next]_vars
               PROVE  DeliveryInv'
    OBVIOUS
  <2>1. RingInv /\ RingInv' /\ DOMAIN from = Readers
    BY DEF RingInv, DeliveryInv
  <2>2. \A r \in Readers : DeliveryOf(r) /\ TypesOf(r)
    BY ReaderFacts DEF DeliveryInv
  <2>3. CASE Write \/ Writing
    <3>1. WriterStep /\ UNCHANGED rvars
      BY <2>3, WriterSteps
    <3>2. WriterMoves
      BY <2>1, <3>1 DEF WriterMoves, rvars, locals
    <3>3. \A r \in Readers : DeliveryOf(r)'
      BY <2>2, <3>2, WriterDelivery
    <3> QED
      BY <2>1, <3>2, <3>3 DEF DeliveryInv, WriterMoves
  <2>4. ASSUME UNCHANGED wvars
        PROVE  \A r \in Readers : Ready(r)
    BY <2>1, <2>2, <2>4 DEF Ready
  <2>5. ASSUME NEW r \in Readers, ReadStep(r) \/ CallReadNext(r) \/ ClientCommand(r)
        PROVE  DeliveryInv'
    <3>1. UNCHANGED wvars
      BY <2>5, ReaderLeavesRing
    <3>2. DeliveryOf(r)'
      BY <2>1, <2>4, <2>5, <3>1, StepDelivery
    <3>3. ASSUME NEW q \in Readers, q # r
          PROVE  DeliveryOf(q)'
      BY <2>1, <2>4, <2>5, <3>1, <3>3, OthersStay, StaysDelivered
    <3>4. DOMAIN from' = Readers
      BY <2>1, <2>5, OthersStay
    <3> QED
      BY <3>2, <3>3, <3>4 DEF DeliveryInv
  <2>6. CASE UNCHANGED vars
    <3>1. UNCHANGED wvars /\ UNCHANGED <<pc, op, reader, loc, off, ptime, rv, from>>
      BY <2>6 DEF vars, rvars, locals
    <3>2. \A r \in Readers : DeliveryOf(r)'
      BY <2>4, <3>1, StaysDelivered
    <3> QED
      BY <2>1, <3>1, <3>2 DEF DeliveryInv
  <2> QED
    BY <2>3, <2>5, <2>6 DEF Next
<1> QED
  BY <1>1, <1>2, PositionInvariant, OrderInvariant, IdsInvariant, PTL DEF Spec

(* Successive calls of RingReadNext() hand out packets in order of time    *)
(* and none twice, however many writes overtake the reader between calls.  *)
THEOREM MovesForwardAlways ==
  ASSUME SlowWriter, RelativeOnly
  PROVE  Spec => []DeliveryMovesForward
<1>1. DeliveryInv => DeliveryMovesForward
  BY DEF DeliveryInv, DeliveryOf, MovesForward, DeliveryMovesForward
<1> QED
  BY <1>1, DeliveryInvariant, PTL

(* A reader that keeps up misses nothing: as long as no packet after its   *)
(* position was dropped from the ring, RingReadNext() hands out the first  *)
(* packet it selects and passes over only packets it does not.             *)
THEOREM NothingMissed ==
  ASSUME SlowWriter, RelativeOnly
  PROVE  Spec => []NoGapUnlessEvicted
<1>1. DeliveryInv => NoGapUnlessEvicted
  <2> SUFFICES ASSUME DeliveryInv, NEW r \in Readers,
                      Returned(r), FromTime(r) # NSTUNSET,
                      \A q \in After(FromTime(r)) : ~Evicted(q)
               PROVE  {q \in After(FromTime(r)) :
                         q.pkttime <= reader[r].pkttime /\ q.streamid \in Selected[r]}
                        = IF Delivered(r) THEN {rv[r].pkt} ELSE {}
    BY DEF NoGapUnlessEvicted
  <2>1. FromTime(r) = from[r].pkttime /\ from[r].pktoffset >= 0
    BY DEF FromTime
  <2>2. Resumes(r) /\ AllKept(from[r].pkttime) /\ pc[r] = "idle"
    BY <2>1 DEF Resumes, Returned, AllKept
  <2>3. Gapless(r)
    BY DEF DeliveryInv, DeliveryOf
  <2> QED
    BY <2>1, <2>2, <2>3 DEF Gapless
<1> QED
  BY <1>1, DeliveryInvariant, PTL


-----------------------------------------------------------------------------
(***************************************************************************)
(* Resuming at a packet ID: RingReadNext() after RingPositionBefore(), for *)
(* a call during which at most one write has begun.  earliestoffset is     *)
(* loaded before latestoffset; a write between the two loads and another   *)
(* during the search make the search fail and the walk start on the newest *)
(* packet.  And the ring numbers its packets: with IDs supplied by callers *)
(* two packets may share an ID.                                            *)
(***************************************************************************)

\* Reader r is in a call, and at most one write has begun during it.
InTime(r) == pc[r] # "idle" /\ last_pkttime - loc[r].began <= 1

\* The ring numbers its packets, with no fewer IDs than slots.
OwnIds == SuppliedIds = {} /\ MaxPackets <= RINGID_MAXIMUM

\* IDs count up along the slots, from 1 again after the largest.
Follows(i, d, j) == j = i + d \/ j = i + d - RINGID_MAXIMUM

IdsInOrder ==
  /\ \A q \in written : q.pktid \in 1 .. RINGID_MAXIMUM
  /\ wpc # "idle" => wpkt.pktid = NextPktId /\ wpkt.pktid \in 1 .. RINGID_MAXIMUM
  /\ wpc \in Commits => slot[woff] = wpkt
  /\ \A x, y \in Offsets :
       ~Busy(x) /\ slot[x].pkttime > 0 /\ Rank(x) < Rank(y) =>
         Follows(slot[x].pktid, Rank(y) - Rank(x), slot[y].pktid)

\* Reader r is in RingReadNext() after RingPositionBefore() with a packet ID,
\* and packet q is the one it asks for.
Aims(r) == op[r] = "next" /\ from[r].pktoffset < 0 /\ from[r].pktid \in PktIds
Wanted(r, q) == q \in written /\ q.pktid = from[r].pktid /\ ~Evicted(q)

\* No packet from the one asked for on was passed over, before time t.
PassedBy(r, t) ==
  \A q, p \in written :
    Wanted(r, q) /\ q.pkttime <= p.pkttime /\ p.pkttime < t => p.streamid \notin Selected[r]

\* Slot x holds a packet that is not later than the earliest.
Early(x) == slot[x].pkttime \in 1 .. slot[earliestoffset].pkttime

\* The earliest slot the call loaded, before it loads the latest: it is still
\* an early one, or it is overwritten by a write that began during the call.
EarliestKnown(r) ==
  loc[r].eo \in Offsets =>
    /\ wpc \in Unpublished /\ woff = loc[r].eo => last_pkttime > loc[r].began
    /\ \/ earliestoffset \in Offsets /\ Early(loc[r].eo)
       \/ last_pkttime > loc[r].began /\ (Busy(loc[r].eo) \/ wpc = "idle")

\* The slots from the earliest to the latest packet.
Live(y) == y \in Offsets /\ Rank(earliestoffset) <= Rank(y)

\* The slots with the packet ID that is searched for.
Sought(r, y) == Live(y) /\ slot[y].pktid = loc[r].req

\* FindOffsetForID() in a ring that does not change: what it has loaded is
\* so, and a packet with the ID is in the slots it still has to look at.
Faithful(r) ==
  LET v == loc[r]
      at == pc[r]
  IN  /\ at # "f_earliest" /\ at \in Finds => v.e = earliestoffset
      /\ at \in Bounded => v.l = latestoffset
      /\ at \in {"f_esample", "f_eid", "f_echeck"} => off[r] = v.e
      /\ at \in {"f_lsample", "f_lid", "f_lcheck"} => off[r] = v.l
      /\ at \in {"f_eid", "f_echeck", "f_lid", "f_lcheck"} => ptime[r] = slot[off[r]].pkttime
      /\ at \in {"f_echeck", "f_lsample", "f_lid", "f_lcheck", "f_bisect", "f_scan"} =>
           v.eid = slot[v.e].pktid
      /\ at \in {"f_lcheck", "f_bisect", "f_scan"} => v.lid = slot[v.l].pktid
      /\ at = "f_bisect" =>
           /\ v.eid <= v.lid /\ v.high <= Dist(v.e, v.l)
           /\ \A y \in Offsets : Sought(r, y) => v.low <= Dist(v.e, y) /\ Dist(v.e, y) <= v.high
      /\ at = "f_scan" => /\ Live(v.at)
                          /\ \A y \in Offsets : Sought(r, y) => Rank(y) <= Rank(v.at)

\* The search may fall back on the earliest slot the call loaded, or the ring
\* does not change until the call returns and the search finds the packet.
FallbackSafe(r) ==
  loc[r].eo \in Offsets =>
    \/ Newer(loc[r].eo, slot[loc[r].lo].pkttime)
    \/ Early(loc[r].eo)
    \/ wpc = "idle" /\ last_pkttime > loc[r].began /\ Faithful(r)

\* The walk is about to look at a slot that is not after the packet asked
\* for, or that it takes as overwritten.
StartsBefore(r, x) ==
  \/ Newer(x, slot[loc[r].lo].pkttime)
  \/ \A q \in written : Wanted(r, q) => slot[x].pkttime <= q.pkttime

\* Slot x holds the packet of stamp t, or one the call takes as overwritten.
StillOrNewer(r, x, t) == slot[x].pkttime = t \/ Newer(x, slot[loc[r].lo].pkttime)

WalksOn(r) ==
  /\ reader[r].pktoffset >= 0 /\ off[r] = NextOffset(reader[r].pktoffset)
  /\ StillOrNewer(r, reader[r].pktoffset, reader[r].pkttime)
  /\ PassedBy(r, reader[r].pkttime + 1)

ResumeOf(r) ==
  Aims(r) =>
    /\ pc[r] = "rn_latest" => reader[r] = from[r] /\ EarliestKnown(r)
    /\ pc[r] \in {"rp_sample", "rp_copy"} \cup Finds => reader[r] = from[r] /\ FallbackSafe(r)
    /\ pc[r] \in Finds => loc[r].req = from[r].pktid
    /\ pc[r] = "rn_sample" /\ off[r] \in Offsets => StartsBefore(r, off[r]) \/ WalksOn(r)
    /\ pc[r] \in Reading => PassedBy(r, ptime[r]) /\ StillOrNewer(r, off[r], ptime[r])
    /\ pc[r] = "idle" /\ Delivered(r) /\ rv[r].off \in Offsets =>
         latestoffset >= 0 /\ PassedBy(r, rv[r].pkt.pkttime)

ResumeInv == \A r \in Readers : InTime(r) => ResumeOf(r)


-----------------------------------------------------------------------------
(* Packet IDs count up along the slots.                                    *)

(* What is in a slot that is stamped.                                      *)
LEMMA StampedId ==
  ASSUME PositionInv, IdsInOrder, NEW x \in Offsets, slot[x].pkttime > 0
  PROVE  slot[x].pktid \in 1 .. RINGID_MAXIMUM
BY SlotTimes DEF IdsInOrder

(* The latest packet of a ring that is not empty.                          *)
LEMMA LatestStamped ==
  ASSUME RingInv, latestoffset >= 0
  PROVE  /\ latestoffset \in Offsets
         /\ slot[latestoffset].pkttime \in Int /\ slot[latestoffset].pkttime > 0
<1>1. /\ latestoffset \in Offsets /\ earliestoffset \in Offsets
      /\ slot[earliestoffset].pkttime > 0
      /\ slot[earliestoffset].pkttime <= slot[latestoffset].pkttime
  BY EndsInOrder DEF RingInv
<1>2. slot[latestoffset].pkttime \in Int /\ slot[earliestoffset].pkttime \in Int
  BY <1>1, SlotTimes DEF RingInv
<1> QED
  BY <1>1, <1>2

(* A write chooses its ID.                                                 *)
LEMMA StartNumbers ==
  ASSUME OwnIds, RingInv, IdsInOrder, NEW sid \in Streams,
         NEW reqid \in SuppliedIds \cup {RINGID_NONE}, WStart(sid, reqid)
  PROVE  IdsInOrder'
<1>1. /\ wpc = "idle" /\ wpc' = "invalidate" /\ reqid = RINGID_NONE
      /\ slot' = slot /\ latestoffset' = latestoffset /\ written' = written
      /\ wpkt'.pktid = NextPktId
  BY DEF OwnIds, WStart, MayWrite
<1>2. \A x : ~Busy(x) /\ ~Busy(x)' /\ Rank(x)' = Rank(x)
  BY <1>1 DEF Busy, Rank, TargetOffset
<1>3. NextPktId \in 1 .. RINGID_MAXIMUM
  <2>1. CASE latestoffset >= 0
    <3>1. slot[latestoffset].pktid \in 1 .. RINGID_MAXIMUM
      BY <2>1, LatestStamped, StampedId DEF RingInv
    <3> QED
      BY <2>1, <3>1, ReadersAssumption DEF NextPktId
  <2>2. CASE latestoffset < 0
    BY <2>2, ReadersAssumption DEF NextPktId
  <2>3. latestoffset \in Int
    BY WriterFacts DEF RingInv, Offsets
  <2> QED
    BY <2>1, <2>2, <2>3
<1>4. NextPktId' = NextPktId
  BY <1>1 DEF NextPktId
<1> QED
  BY <1>1, <1>2, <1>3, <1>4 DEF IdsInOrder, Commits

(* The slot is filled: it has no number that counts.                       *)
LEMMA FillsNumbers ==
  ASSUME RingInv, RingInv', IdsInOrder, Fills, wpkt' = wpkt
  PROVE  IdsInOrder'
<1>1. /\ woff \in Offsets /\ woff = TargetOffset /\ WriterTypes
  BY WriterFacts DEF RingInv, Fills, Unpublished
<1>2. /\ TargetOffset' = TargetOffset /\ (\A x : Rank(x)' = Rank(x)) /\ Rank(woff) = 0
      /\ \A x \in Offsets : Rank(x) >= 0 /\ Rank(x) \in Int
  BY <1>1, RankFacts DEF Fills, TargetOffset, Rank, Offsets
<1>3. /\ \A x : Busy(x)' <=> x = woff
      /\ \A x : Busy(x) => x = woff
      /\ wpc # "idle" /\ wpc' # "idle"
  BY DEF Fills, Busy, Unpublished
<1>4. latestoffset >= 0 => latestoffset \in Offsets /\ latestoffset # woff
  BY <1>1, RankFacts
<1>5. NextPktId' = NextPktId
  <2>1. latestoffset' = latestoffset /\ latestoffset \in Int
    BY <1>1 DEF Fills, WriterTypes, Offsets
  <2>2. latestoffset >= 0 => slot'[latestoffset] = slot[latestoffset]
    BY <1>4 DEF Fills
  <2> QED
    BY <2>1, <2>2 DEF NextPktId
<1>6. ASSUME NEW x \in Offsets, NEW y \in Offsets,
             ~Busy(x)', slot'[x].pkttime > 0, Rank(x)' < Rank(y)'
      PROVE  Follows(slot'[x].pktid, Rank(y)' - Rank(x)', slot'[y].pktid)
  <2>1. x # woff /\ y # woff /\ ~Busy(x)
    BY <1>2, <1>3, <1>6
  <2>2. slot'[x] = slot[x] /\ slot'[y] = slot[y]
    BY <2>1 DEF Fills
  <2> QED
    BY <1>2, <1>6, <2>1, <2>2 DEF IdsInOrder
<1> QED
  BY <1>3, <1>5, <1>6 DEF IdsInOrder, Fills, Follows, Commits

LEMMA PublishesNumbers ==
  ASSUME RingInv, RingInv', IdsInOrder, Publishes, wpkt' = wpkt
  PROVE  IdsInOrder'
<1>1. /\ woff \in Offsets /\ woff = TargetOffset /\ WriterTypes
  BY WriterFacts DEF RingInv, Publishes
<1>2. /\ TargetOffset' = TargetOffset /\ (\A x : Rank(x)' = Rank(x)) /\ Rank(woff) = 0
      /\ \A x \in Offsets : Rank(x) >= 0 /\ Rank(x) \in Int
  BY <1>1, RankFacts DEF Publishes, TargetOffset, Rank, Offsets
<1>3. /\ \A x : Busy(x)' <=> x = woff
      /\ \A x : Busy(x) => x = woff
      /\ wpc # "idle" /\ wpc' # "idle"
  BY DEF Publishes, Busy
<1>4. latestoffset >= 0 => latestoffset \in Offsets /\ latestoffset # woff
  BY <1>1, RankFacts
<1>5. NextPktId' = NextPktId
  <2>1. latestoffset' = latestoffset /\ latestoffset \in Int
    BY <1>1 DEF Publishes, WriterTypes, Offsets
  <2>2. latestoffset >= 0 => slot'[latestoffset] = slot[latestoffset]
    BY <1>4 DEF Publishes
  <2> QED
    BY <2>1, <2>2 DEF NextPktId
<1>6. ASSUME NEW x \in Offsets, NEW y \in Offsets,
             ~Busy(x)', slot'[x].pkttime > 0, Rank(x)' < Rank(y)'
      PROVE  Follows(slot'[x].pktid, Rank(y)' - Rank(x)', slot'[y].pktid)
  <2>1. x # woff /\ y # woff /\ ~Busy(x)
    BY <1>2, <1>3, <1>6
  <2>2. slot'[x] = slot[x] /\ slot'[y] = slot[y]
    BY <2>1 DEF Publishes
  <2> QED
    BY <1>2, <1>6, <2>1, <2>2 DEF IdsInOrder
<1>7. \A q \in written' : q.pktid \in 1 .. RINGID_MAXIMUM
  BY <1>3 DEF Publishes, IdsInOrder
<1> QED
  BY <1>3, <1>5, <1>6, <1>7 DEF IdsInOrder, Follows, Publishes

(* The packet becomes the latest: its ID follows that of the one before.   *)
LEMMA CommitNumbers ==
  ASSUME OwnIds, RingInv, RingInv', IdsInOrder, Commit
  PROVE  IdsInOrder'
<1>1. /\ woff \in Offsets /\ WriterTypes /\ slot' = slot /\ written' = written
      /\ wpc = "latest" /\ wpc' = "idle" /\ latestoffset \in Int
      /\ latestoffset \in Offsets \cup {-1} /\ slot[woff] = wpkt
  BY WriterFacts DEF RingInv, Commit, Offsets, IdsInOrder, Commits
<1>2. /\ Rank(woff) = 0
      /\ \A x \in Offsets : x = woff => Rank(x)' = MaxPackets - 1
      /\ \A x \in Offsets : x # woff => Rank(x)' = Rank(x) - 1 /\ Rank(x) > 0
  BY CommitRanks DEF RingInv
<1>3. \A x \in Offsets : Rank(x) \in 0 .. MaxPackets - 1
  BY <1>1, RankFacts DEF Offsets
<1>4. \A x \in Offsets : ~Busy(x)' /\ (Busy(x) <=> x = woff)
  BY <1>1 DEF Busy
<1>5. ASSUME NEW x \in Offsets, NEW y \in Offsets,
             slot[x].pkttime > 0, Rank(x)' < Rank(y)'
      PROVE  Follows(slot[x].pktid, Rank(y)' - Rank(x)', slot[y].pktid)
  <2>1. x # woff
    <3>1. Rank(y)' \in Int /\ Rank(y)' <= MaxPackets - 1
      BY <1>2, <1>3, ReadersAssumption
    <3> QED
      BY <1>2, <1>5, <3>1, ReadersAssumption
  <2>2. CASE y # woff
    <3>1. Rank(y)' - Rank(x)' = Rank(y) - Rank(x) /\ Rank(x) < Rank(y)
      BY <1>2, <1>3, <1>5, <2>1, <2>2
    <3> QED
      BY <1>4, <1>5, <2>1, <3>1 DEF IdsInOrder
  <2>3. CASE y = woff
    <3>1. Rank(y)' - Rank(x)' = MaxPackets - Rank(x) /\ Rank(x) > 0 /\ Rank(x) \in Int
      BY <1>2, <1>3, <2>1, <2>3, ReadersAssumption
    <3>2. latestoffset >= 0
      <4>1. latestoffset < 0 => \A z \in Offsets : ~Busy(z) => slot[z].pkttime = 0
        BY DEF RingInv, OrderInv, EmptyAtFirst
      <4>2. ~Busy(x)
        BY <1>4, <2>1
      <4> QED
        BY <1>1, <1>5, <4>1, <4>2
    <3>3. latestoffset \in Offsets /\ Rank(latestoffset) = MaxPackets - 1
      BY <1>1, <3>2, RankFacts
    <3>4. slot[x].pktid \in 1 .. RINGID_MAXIMUM
      BY <1>5, StampedId DEF RingInv
    <3>5. slot[latestoffset].pktid \in Int
      BY <1>1, <3>3, ReadersAssumption DEF WriterTypes, PacketType, PktIds, NSTUNSET
    <3>6. Follows(slot[x].pktid, MaxPackets - 1 - Rank(x), slot[latestoffset].pktid)
      <4>1. CASE x = latestoffset
        BY <3>3, <3>4, <4>1, ReadersAssumption DEF Follows
      <4>2. CASE x # latestoffset
        <5>1. Rank(x) # Rank(latestoffset)
          BY <1>1, <3>3, <4>2, RankFacts, DistInjective DEF Rank
        <5>2. Rank(x) < Rank(latestoffset)
          BY <1>3, <3>3, <5>1, ReadersAssumption
        <5> QED
          BY <1>4, <1>5, <2>1, <3>3, <5>2 DEF IdsInOrder
      <4> QED
        BY <4>1, <4>2
    <3>7. slot[y].pktid = NextPktId /\ slot[y].pktid \in 1 .. RINGID_MAXIMUM
      BY <1>1, <2>3 DEF IdsInOrder
    <3>8. MaxPackets <= RINGID_MAXIMUM
      BY DEF OwnIds
    <3>9. slot[y].pktid = IF slot[latestoffset].pktid + 1 > RINGID_MAXIMUM
                            THEN 1 ELSE slot[latestoffset].pktid + 1
      BY <1>1, <3>2, <3>7 DEF NextPktId
    <3>10. Follows(slot[x].pktid, MaxPackets - Rank(x), slot[y].pktid)
      <4>1. /\ MaxPackets \in Int /\ RINGID_MAXIMUM \in Int /\ slot[x].pktid \in Int
            /\ slot[x].pktid <= RINGID_MAXIMUM /\ 1 <= slot[x].pktid
        BY <3>4, ReadersAssumption
      <4>2. slot[latestoffset].pktid \in 1 .. RINGID_MAXIMUM
        BY <3>2, LatestStamped, StampedId DEF RingInv
      <4> QED
        BY <3>1, <3>6, <3>8, <3>9, <4>1, <4>2 DEF Follows
    <3> QED
      BY <3>1, <3>10
  <2> QED
    BY <2>2, <2>3
<1> QED
  BY <1>1, <1>5 DEF IdsInOrder, Commits


(* Packet IDs count up from slot to slot.                                  *)
LEMMA NumbersInvariant ==
  ASSUME OwnIds
  PROVE  Spec => []IdsInOrder
<1>1. Init => IdsInOrder
  BY BlankPacket DEF Init, IdsInOrder, Commits
<1>2. IdsInOrder /\ RingInv /\ RingInv' /\ [Next]_vars => IdsInOrder'
  <2> SUFFICES ASSUME IdsInOrder, RingInv, RingInv', [Next]_vars
               PROVE  IdsInOrder'
    OBVIOUS
  <2>1. CASE UNCHANGED wvars
    <3>1. UNCHANGED <<slot, latestoffset, wpc, wpkt, woff, written>>
      BY <2>1 DEF wvars
    <3> QED
      BY <3>1 DEF IdsInOrder, Busy, Rank, TargetOffset, NextPktId, Follows
  <2>2. CASE Write
    <3>1. CASE WError
      <4>1. UNCHANGED <<slot, latestoffset, wpc, wpkt, woff, written>>
        BY <3>1 DEF WError
      <4> QED
        BY <4>1 DEF IdsInOrder, Busy, Rank, TargetOffset, NextPktId, Follows
    <3> QED
      BY <2>2, <3>1, StartNumbers DEF Write
  <2>3. CASE Writing
    <3>1. WriterStep
      BY <2>3, WriterSteps DEF RingInv
    <3>2. wpkt' = wpkt /\ ~Begins
      BY <2>3, WriterFacts
         DEF Writing, WInvalidate, WPayload, WHeader, WPublish, WEarliest, WLatest, Begins
    <3>3. CASE SetsEarliest
      <4>1. UNCHANGED <<slot, latestoffset, woff, written>> /\ wpc = "earliest" /\ wpc' = "latest"
        BY <3>3 DEF SetsEarliest
      <4> QED
        BY <3>2, <4>1 DEF IdsInOrder, Busy, Rank, TargetOffset, NextPktId, Follows, Commits
    <3> QED
      BY <3>1, <3>2, <3>3, FillsNumbers, PublishesNumbers, CommitNumbers DEF WriterStep
  <2>4. ASSUME NEW r \in Readers, ReadStep(r) \/ CallReadNext(r) \/ ClientCommand(r)
        PROVE  UNCHANGED wvars
    BY <2>4, ReaderLeavesRing
  <2> QED
    BY <2>1, <2>2, <2>3, <2>4 DEF Next, vars
<1> QED
  BY <1>1, <1>2, PositionInvariant, OrderInvariant, PTL DEF Spec, RingInv

(* Two packets in the ring have different IDs, and a packet that is later  *)
(* in a ring whose IDs ascend has the greater ID.                          *)
LEMMA IdsDiffer ==
  ASSUME OwnIds, RingInv, IdsInOrder, NEW x \in Offsets, NEW y \in Offsets,
         ~Busy(x), slot[x].pkttime > 0, Rank(x) < Rank(y)
  PROVE  slot[x].pktid # slot[y].pktid
<1>1. Follows(slot[x].pktid, Rank(y) - Rank(x), slot[y].pktid)
  BY DEF IdsInOrder
<1>2. Rank(x) \in 0 .. MaxPackets - 1 /\ Rank(y) \in 0 .. MaxPackets - 1
  BY WriterFacts, RankFacts DEF RingInv, Offsets
<1>3. slot[x].pktid \in 1 .. RINGID_MAXIMUM
  BY StampedId DEF RingInv
<1> QED
  BY <1>1, <1>2, <1>3, ReadersAssumption DEF Follows, OwnIds

(* In a ring whose latest ID is not below the earliest, the IDs ascend by  *)
(* one from slot to slot.                                                  *)
LEMMA IdsAscend ==
  ASSUME OwnIds, RingInv, IdsInOrder, latestoffset >= 0,
         slot[earliestoffset].pktid <= slot[latestoffset].pktid,
         NEW y \in Offsets, Live(y)
  PROVE  slot[y].pktid = slot[earliestoffset].pktid + Dist(earliestoffset, y)
<1> DEFINE e == earliestoffset
           l == latestoffset
<1>1. /\ e \in Offsets /\ l \in Offsets /\ ~Busy(e) /\ slot[e].pkttime > 0 /\ WriterTypes
  BY EndsInOrder, WriterFacts DEF RingInv
<1>2. /\ Rank(l) = MaxPackets - 1
      /\ \A x \in Offsets : Rank(x) \in 0 .. MaxPackets - 1
  BY <1>1, RankFacts DEF Offsets
<1>3. /\ Dist(e, y) = Rank(y) - Rank(e) /\ Rank(e) <= Rank(y)
  BY <1>1, RankFacts, DistBack DEF Rank, Live
<1>4. slot[e].pktid \in 1 .. RINGID_MAXIMUM
  BY <1>1, StampedId DEF RingInv
<1>5. \A x \in Offsets : Rank(e) < Rank(x) =>
        /\ Follows(slot[e].pktid, Rank(x) - Rank(e), slot[x].pktid)
        /\ slot[x].pktid \in 1 .. RINGID_MAXIMUM
  <2> SUFFICES ASSUME NEW x \in Offsets, Rank(e) < Rank(x)
               PROVE  /\ Follows(slot[e].pktid, Rank(x) - Rank(e), slot[x].pktid)
                      /\ slot[x].pktid \in 1 .. RINGID_MAXIMUM
    OBVIOUS
  <2>1. slot[e].pkttime < slot[x].pkttime
    BY <1>1 DEF RingInv, OrderInv, RingOrder
  <2>2. slot[e].pkttime \in Int /\ slot[x].pkttime \in Int
    BY <1>1, SlotTimes DEF RingInv
  <2>3. slot[x].pkttime > 0
    BY <1>1, <2>1, <2>2
  <2> QED
    BY <1>1, <2>3, StampedId DEF RingInv, IdsInOrder
<1>6. CASE Rank(e) = Rank(y)
  <2>1. y = e
    BY <1>1, <1>6, RankFacts, DistInjective DEF Rank
  <2> QED
    BY <1>1, <1>2, <1>3, <1>4, <2>1
<1>7. CASE Rank(e) < Rank(y)
  <2>1. Rank(e) < Rank(l)
    BY <1>1, <1>2, <1>7
  <2>2. slot[l].pktid = slot[e].pktid + (Rank(l) - Rank(e))
    <3>1. Follows(slot[e].pktid, Rank(l) - Rank(e), slot[l].pktid)
      BY <1>1, <1>5, <2>1
    <3> QED
      BY <1>1, <1>2, <1>4, <2>1, <3>1, ReadersAssumption DEF Follows, OwnIds
  <2>3. slot[l].pktid <= RINGID_MAXIMUM
    BY <1>1, <1>5, <2>1, ReadersAssumption
  <2>4. /\ Follows(slot[e].pktid, Rank(y) - Rank(e), slot[y].pktid)
        /\ slot[y].pktid \in 1 .. RINGID_MAXIMUM
    BY <1>5, <1>7
  <2>5. slot[e].pktid \in Int /\ Rank(y) <= Rank(l) /\ Rank(y) \in Int /\ Rank(l) \in Int
        /\ Rank(e) \in Int
    BY <1>1, <1>2, <1>4, ReadersAssumption
  <2> QED
    BY <1>3, <2>2, <2>3, <2>4, <2>5, ReadersAssumption DEF Follows
<1> QED
  BY <1>1, <1>2, <1>3, <1>6, <1>7


-----------------------------------------------------------------------------
(* A step of the writer, seen from a reader that resumes.                  *)

(* A slot changes by being marked unset, or while it is.                   *)
LEMMA SlotChanges ==
  ASSUME RingInv, WriterStep, NEW x \in Offsets
  PROVE  \/ slot'[x] = slot[x]
         \/ slot'[x].pkttime = NSTUNSET
         \/ slot[x].pkttime = NSTUNSET
BY DEF WriterStep, Begins, Fills, Publishes, SetsEarliest, Commit

(* What the call knows as its latest packet is no newer than the latest.   *)
LEMMA KnownIsOld ==
  ASSUME SlowWriter, RingInv, NEW r \in Readers, TypesOf(r), Frame(r), InNext(r)
  PROVE  /\ latestoffset >= 0 /\ loc[r].lo \in Offsets
         /\ slot[loc[r].lo].pkttime \in Int /\ slot[loc[r].lo].pkttime > 0
         /\ slot[loc[r].lo].pkttime <= slot[latestoffset].pkttime
<1>1. /\ loc[r].lo \in Offsets /\ latestoffset >= 0 /\ ~Busy(loc[r].lo)
      /\ slot[loc[r].lo].pkttime \in Int /\ slot[loc[r].lo].pkttime > 0
  BY KnownLatest
<1> QED
  BY <1>1, EndsInOrder DEF RingInv

(* No packet published now is earlier than one written before.             *)
LEMMA NewIsLater ==
  ASSUME RingInv, WriterStep, NEW u, Stamped(u), NEW q \in written', q.pkttime <= u
  PROVE  q \in written
<1>1. PICK p \in written : p.pkttime = u
  BY DEF Stamped
<1>2. StampsNamePackets /\ last_pkttime \in Nat
  BY WriterFacts DEF RingInv
<1>3. p.pkttime \in Int
  BY <1>2 DEF StampsNamePackets
<1>4. CASE Publishes
  <2>1. written' = written \cup {wpkt} /\ wpkt.pkttime = last_pkttime /\ wpc = "header"
    BY <1>4 DEF Publishes
  <2>2. p.pkttime < last_pkttime
    BY <1>2, <2>1 DEF StampsNamePackets, Unpublished
  <2> QED
    BY <1>1, <1>2, <1>3, <2>1, <2>2
<1>5. CASE ~Publishes
  BY <1>5 DEF WriterStep, Begins, Fills, SetsEarliest, Commit
<1> QED
  BY <1>4, <1>5

(* A packet that is wanted after a step of the writer was wanted before.   *)
LEMMA WantedBefore ==
  ASSUME WriterMoves, latestoffset >= 0, NEW r \in Readers, NEW q \in written, Wanted(r, q)'
  PROVE  Wanted(r, q)
<1>1. /\ RingInv /\ RingInv' /\ WriterStep /\ from' = from
  BY DEF WriterMoves
<1>2. q.pkttime \in Int
  BY <1>1, WriterFacts DEF RingInv, StampsNamePackets
<1>3. /\ earliestoffset \in Offsets /\ earliestoffset' \in Offsets
  BY <1>1, EarliestGrows
<1>4. Gone(q.pkttime) => Gone(q.pkttime)'
  BY <1>1, <1>2, GoneStays
<1> QED
  BY <1>1, <1>3, <1>4 DEF Wanted, Evicted, Gone, Offsets

(* What was passed over stays what it is.                                  *)
LEMMA PassedStays ==
  ASSUME WriterMoves, latestoffset >= 0, NEW r \in Readers, NEW u \in Int, NEW t \in {u, u + 1},
         Stamped(u), PassedBy(r, t)
  PROVE  PassedBy(r, t)'
<1> SUFFICES ASSUME NEW q \in written', NEW p \in written',
                    Wanted(r, q)', q.pkttime <= p.pkttime, p.pkttime < t
             PROVE  p.streamid \notin Selected[r]
  BY DEF PassedBy
<1>1. /\ RingInv /\ RingInv' /\ WriterStep
  BY DEF WriterMoves
<1>2. p.pkttime \in Int /\ q.pkttime \in Int
  <2>1. StampsNamePackets'
    BY <1>1 DEF RingInv, PositionInv, SeqlockInv
  <2> QED
    BY <2>1 DEF StampsNamePackets
<1>3. p \in written
  BY <1>1, <1>2, NewIsLater
<1>4. q \in written
  BY <1>1, <1>2, NewIsLater
<1> QED
  BY <1>3, <1>4, WantedBefore DEF PassedBy

(* The walk still starts early enough.                                     *)
LEMMA StartsStays ==
  ASSUME SlowWriter, WriterMoves, NEW r \in Readers, TypesOf(r), Frame(r), InNext(r),
         NEW x \in Offsets, StartsBefore(r, x)
  PROVE  StartsBefore(r, x)'
<1>1. /\ RingInv /\ RingInv' /\ WriterStep /\ loc' = loc
  BY DEF WriterMoves
<1>2. /\ latestoffset >= 0 /\ loc[r].lo \in Offsets /\ slot[loc[r].lo].pkttime \in Int
      /\ slot[loc[r].lo].pkttime <= slot[latestoffset].pkttime
  BY <1>1, KnownIsOld
<1>3. slot'[loc[r].lo] = slot[loc[r].lo]
  BY FrameStays DEF TypesOf
<1>4. CASE Newer(x, slot[loc[r].lo].pkttime)
  BY <1>1, <1>2, <1>3, <1>4, NewerStays DEF StartsBefore, Newer
<1>5. CASE slot'[x] = slot[x] /\ ~Newer(x, slot[loc[r].lo].pkttime)
  <2> SUFFICES ASSUME NEW q \in written', Wanted(r, q)'
               PROVE  slot'[x].pkttime <= q.pkttime
    BY DEF StartsBefore
  <2>1. CASE q \in written
    BY <1>2, <1>5, <2>1, WantedBefore DEF StartsBefore
  <2>2. CASE q \notin written
    <3>1. q = wpkt /\ q.pkttime = last_pkttime
      BY <1>1, <2>2 DEF WriterStep, Begins, Fills, Publishes, SetsEarliest, Commit
    <3> QED
      BY <1>1, <1>5, <3>1, SlotTimes DEF RingInv
  <2> QED
    BY <2>1, <2>2
<1>6. slot[x].pkttime = NSTUNSET => Newer(x, slot[loc[r].lo].pkttime)
  BY DEF Newer, NSTUNSET
<1>7. slot'[x].pkttime = NSTUNSET => StartsBefore(r, x)'
  BY DEF StartsBefore, Newer, NSTUNSET
<1> QED
  BY <1>1, <1>4, <1>5, <1>6, <1>7, SlotChanges

(* A slot read during the call stays or counts as overwritten.             *)
LEMMA StillStays ==
  ASSUME SlowWriter, WriterMoves, NEW r \in Readers, TypesOf(r), Frame(r), InNext(r),
         NEW x \in Offsets, NEW t, StillOrNewer(r, x, t)
  PROVE  StillOrNewer(r, x, t)'
<1>1. /\ RingInv /\ RingInv' /\ WriterStep /\ loc' = loc
  BY DEF WriterMoves
<1>2. /\ latestoffset >= 0 /\ loc[r].lo \in Offsets /\ slot[loc[r].lo].pkttime \in Int
      /\ slot[loc[r].lo].pkttime <= slot[latestoffset].pkttime
  BY <1>1, KnownIsOld
<1>3. slot'[loc[r].lo] = slot[loc[r].lo]
  BY FrameStays DEF TypesOf
<1>4. CASE Newer(x, slot[loc[r].lo].pkttime)
  BY <1>1, <1>2, <1>3, <1>4, NewerStays DEF StillOrNewer, Newer
<1>5. slot[x].pkttime = NSTUNSET => Newer(x, slot[loc[r].lo].pkttime)
  BY DEF Newer, NSTUNSET
<1>6. slot'[x].pkttime = NSTUNSET => StillOrNewer(r, x, t)'
  BY DEF StillOrNewer, Newer, NSTUNSET
<1> QED
  BY <1>1, <1>4, <1>5, <1>6, SlotChanges DEF StillOrNewer

(* A slot no later than the earliest stays so or is overwritten.           *)
LEMMA EarlyStays ==
  ASSUME RingInv, RingInv', WriterStep, latestoffset >= 0, NEW x \in Offsets, Early(x)
  PROVE  Early(x)' \/ slot'[x].pkttime = NSTUNSET
<1>1. slot[x].pkttime # NSTUNSET
  BY DEF Early, NSTUNSET
<1>2. /\ slot[earliestoffset].pkttime \in Int /\ slot'[earliestoffset'].pkttime \in Int
      /\ slot[earliestoffset].pkttime <= slot'[earliestoffset'].pkttime
  BY EarliestGrows
<1>3. slot'[x] = slot[x] => Early(x)'
  BY <1>2 DEF Early
<1> QED
  BY <1>1, <1>3, SlotChanges

(* The slot to fall back on stays safe.                                    *)
LEMMA FallbackStays ==
  ASSUME SlowWriter, WriterMoves, NEW r \in Readers, TypesOf(r), Frame(r), InNext(r),
         last_pkttime' - loc[r].began <= 1, FallbackSafe(r)
  PROVE  FallbackSafe(r)'
<1> SUFFICES ASSUME loc[r].eo \in Offsets
             PROVE  \/ Newer(loc[r].eo, slot[loc[r].lo].pkttime)'
                    \/ Early(loc[r].eo)'
  BY DEF FallbackSafe, WriterMoves
<1>1. /\ RingInv /\ RingInv' /\ WriterStep /\ loc' = loc /\ pc' = pc
  BY DEF WriterMoves
<1>2. /\ latestoffset >= 0 /\ loc[r].lo \in Offsets /\ slot[loc[r].lo].pkttime \in Int
      /\ slot[loc[r].lo].pkttime <= slot[latestoffset].pkttime
  BY <1>1, KnownIsOld
<1>3. slot'[loc[r].lo] = slot[loc[r].lo]
  BY FrameStays DEF TypesOf
<1>4. CASE Newer(loc[r].eo, slot[loc[r].lo].pkttime)
  BY <1>1, <1>2, <1>3, <1>4, NewerStays DEF Newer
<1>5. CASE Early(loc[r].eo)
  BY <1>1, <1>2, <1>5, EarlyStays DEF Newer, NSTUNSET
<1>6. ~(wpc = "idle" /\ last_pkttime > loc[r].began)
  <2> SUFFICES ASSUME wpc = "idle", last_pkttime > loc[r].began
               PROVE  FALSE
    OBVIOUS
  <2>1. Begins
    BY <1>1 DEF WriterStep, Fills, Publishes, SetsEarliest, Commit, Unpublished
  <2>2. last_pkttime' = last_pkttime + 1
    BY <2>1 DEF Begins
  <2> QED
    BY <1>1, <2>2, WriterFacts DEF TypesOf, LocType, RingInv
<1> QED
  BY <1>4, <1>5, <1>6 DEF FallbackSafe

(* So does the earliest slot before the latest is loaded.                  *)
LEMMA EarliestKnownStays ==
  ASSUME WriterMoves, NEW r \in Readers, TypesOf(r), Frame(r), pc[r] = "rn_latest",
         last_pkttime' - loc[r].began <= 1, EarliestKnown(r)
  PROVE  EarliestKnown(r)'
<1> DEFINE eo == loc[r].eo
           b == loc[r].began
<1> SUFFICES ASSUME eo \in Offsets
             PROVE  /\ wpc' \in Unpublished /\ woff' = eo => last_pkttime' > b
                    /\ \/ earliestoffset' \in Offsets /\ Early(eo)'
                       \/ last_pkttime' > b /\ (Busy(eo)' \/ wpc' = "idle")
  BY DEF EarliestKnown, WriterMoves
<1>1. /\ RingInv /\ RingInv' /\ WriterStep /\ loc' = loc /\ pc' = pc
  BY DEF WriterMoves
<1>2. last_pkttime \in Nat /\ b \in Nat /\ b <= last_pkttime /\ last_pkttime' - b <= 1
      /\ eo' = eo
  BY <1>1, WriterFacts DEF RingInv, TypesOf, LocType, Frame
<1>3. /\ wpc \in Unpublished /\ woff = eo => last_pkttime > b
      /\ \/ earliestoffset \in Offsets /\ Early(eo)
         \/ last_pkttime > b /\ (Busy(eo) \/ wpc = "idle")
  BY DEF EarliestKnown
<1>4. CASE Begins
  <2>1. /\ last_pkttime' = last_pkttime + 1
        /\ slot' = slot /\ wpc = "idle"
    BY <1>4 DEF Begins
  <2>2. last_pkttime' > b /\ ~(last_pkttime > b)
    BY <1>2, <2>1
  <2>3. earliestoffset \in Offsets /\ Early(eo)
    BY <1>3, <2>2
  <2>4. earliestoffset' \in Offsets /\ slot[eo].pkttime \in Int
        /\ slot[earliestoffset].pkttime <= slot[earliestoffset'].pkttime
        /\ slot[earliestoffset].pkttime \in Int /\ slot[earliestoffset'].pkttime \in Int
    <3>1. CASE Full
      BY <1>1, <1>4, <2>3, <3>1, FullRing, SlotTimes DEF Begins, RingInv
    <3>2. CASE ~Full
      BY <1>1, <1>4, <2>3, <3>2, SlotTimes DEF Begins, RingInv
    <3> QED
      BY <3>1, <3>2
  <2> QED
    BY <1>2, <2>1, <2>2, <2>3, <2>4 DEF Early
<1>5. CASE ~Begins
  <2>1. /\ last_pkttime' = last_pkttime /\ woff' = woff /\ wpc # "idle"
        /\ wpc' \in Unpublished => wpc \in Unpublished
    BY <1>1, <1>5 DEF WriterStep, Fills, Publishes, SetsEarliest, Commit, Unpublished
  <2>2. CASE last_pkttime > b /\ Busy(eo)
    <3>1. Busy(eo)' \/ wpc' = "idle"
      BY <1>1, <1>5, <2>2
         DEF Busy, WriterStep, Fills, Publishes, SetsEarliest, Commit, Unpublished
    <3> QED
      BY <2>1, <2>2, <3>1
  <2>3. CASE earliestoffset \in Offsets /\ Early(eo)
    <3>1. slot[eo].pkttime # NSTUNSET
      BY <2>3 DEF Early, NSTUNSET
    <3>2. CASE slot'[eo] = slot[eo]
      <4>1. earliestoffset' = earliestoffset
        BY <1>1, <1>5, <2>3
           DEF WriterStep, Fills, Publishes, SetsEarliest, Commit, Offsets
      <4>2. slot'[earliestoffset].pkttime = slot[earliestoffset].pkttime
        <5>1. latestoffset >= 0 => earliestoffset # woff
          BY <1>1, <2>1 DEF RingInv, OrderInv, EarliestInPlace
        <5>2. ~(latestoffset >= 0) => wpc = "latest"
          BY <1>1, <2>3, WriterFacts DEF RingInv, OrderInv, EmptyAtFirst, Offsets
        <5> QED
          BY <1>1, <1>5, <2>3, <5>1, <5>2
             DEF WriterStep, Fills, Publishes, SetsEarliest, Commit, Unpublished
      <4> QED
        BY <1>2, <1>3, <2>1, <2>3, <3>2, <4>1, <4>2 DEF Early
    <3>3. CASE slot'[eo] # slot[eo]
      <4>1. Fills /\ woff = eo
        BY <1>1, <1>5, <3>1, <3>3 DEF WriterStep, Fills, Publishes, SetsEarliest, Commit
      <4>2. wpc \in Unpublished /\ Busy(eo)'
        BY <1>2, <4>1 DEF Fills, Busy
      <4> QED
        BY <1>3, <2>1, <4>1, <4>2
    <3> QED
      BY <3>2, <3>3
  <2> QED
    BY <1>3, <2>1, <2>2, <2>3
<1> QED
  BY <1>4, <1>5


(* A step of the writer leaves the part of a reader that resumes true.     *)
LEMMA WriterResume ==
  ASSUME SlowWriter, WriterMoves, NEW r \in Readers, DeliveryOf(r), ResumeOf(r),
         last_pkttime' - loc[r].began <= 1
  PROVE  ResumeOf(r)'
<1>1. /\ pc' = pc /\ op' = op /\ reader' = reader /\ loc' = loc /\ off' = off /\ ptime' = ptime
      /\ rv' = rv /\ from' = from /\ RingInv /\ RingInv' /\ WriterStep
  BY DEF WriterMoves
<1>2. /\ TypesOf(r) /\ PlaceOf(r) /\ Frame(r) /\ LooksAtSlots(r)
  BY <1>1, ReaderFacts DEF DeliveryOf, RingInv
<1> SUFFICES ASSUME Aims(r)
             PROVE  ResumeOf(r)'
  BY <1>1 DEF ResumeOf, Aims
<1>3. op[r] = "next"
  BY DEF Aims
<1>4. pc[r] = "rn_latest" => EarliestKnown(r)'
  BY <1>2, EarliestKnownStays DEF ResumeOf
<1>5. pc[r] \in {"rp_sample", "rp_copy"} \cup Finds => FallbackSafe(r)'
  BY <1>2, <1>3, FallbackStays DEF ResumeOf, InNext, Finds
<1>6. pc[r] = "rn_sample" /\ off[r] \in Offsets => StartsBefore(r, off[r])' \/ WalksOn(r)'
  <2> SUFFICES ASSUME pc[r] = "rn_sample", off[r] \in Offsets
               PROVE  StartsBefore(r, off[r])' \/ WalksOn(r)'
    OBVIOUS
  <2>1. InNext(r)
    BY <1>3 DEF InNext
  <2>2. CASE StartsBefore(r, off[r])
    <3>1. ASSUME NEW x \in Offsets, StartsBefore(r, x)
          PROVE  StartsBefore(r, x)'
      BY <1>2, <2>1, <3>1, StartsStays
    <3> QED
      BY <1>1, <2>2, <3>1
  <2>3. CASE WalksOn(r)
    <3>1. /\ reader[r].pktoffset >= 0 /\ Place(reader[r].pktoffset, reader[r].pkttime)
          /\ reader[r].pktoffset \in Offsets
          /\ StillOrNewer(r, reader[r].pktoffset, reader[r].pkttime)
          /\ PassedBy(r, reader[r].pkttime + 1)
      BY <1>2, <2>3 DEF WalksOn, PlaceOf, Place
    <3>2. Stamped(reader[r].pkttime) /\ reader[r].pkttime \in Int /\ latestoffset >= 0
      BY <1>1, <3>1, PlaceFacts DEF Place
    <3>3. PassedBy(r, reader[r].pkttime + 1)'
      <4>1. ASSUME NEW u \in Int, Stamped(u), PassedBy(r, u + 1)
            PROVE  PassedBy(r, u + 1)'
        BY <3>2, <4>1, PassedStays
      <4> QED
        BY <1>1, <3>1, <3>2, <4>1
    <3>4. StillOrNewer(r, reader[r].pktoffset, reader[r].pkttime)'
      <4>1. ASSUME NEW x \in Offsets, NEW t, StillOrNewer(r, x, t)
            PROVE  StillOrNewer(r, x, t)'
        BY <1>2, <2>1, <4>1, StillStays
      <4> QED
        BY <1>1, <3>1, <4>1
    <3> QED
      BY <1>1, <2>3, <3>3, <3>4 DEF WalksOn
  <2> QED
    BY <2>2, <2>3 DEF ResumeOf
<1>7. pc[r] \in Reading => PassedBy(r, ptime[r])' /\ StillOrNewer(r, off[r], ptime[r])'
  <2> SUFFICES ASSUME pc[r] \in Reading
               PROVE  PassedBy(r, ptime[r])' /\ StillOrNewer(r, off[r], ptime[r])'
    OBVIOUS
  <2>1. InNext(r)
    BY <1>3 DEF InNext, Reading
  <2>2. /\ Place(off[r], ptime[r]) /\ Stamped(ptime[r]) /\ off[r] \in Offsets
    BY <1>2 DEF PlaceOf, Place
  <2>3. ptime[r] \in Int /\ latestoffset >= 0
    BY <1>1, <2>2, PlaceFacts
  <2>4. ASSUME NEW u \in Int, Stamped(u), PassedBy(r, u)
        PROVE  PassedBy(r, u)'
    BY <2>3, <2>4, PassedStays
  <2>5. ASSUME NEW x \in Offsets, NEW t, StillOrNewer(r, x, t)
        PROVE  StillOrNewer(r, x, t)'
    BY <1>2, <2>1, <2>5, StillStays
  <2> QED
    BY <1>1, <2>2, <2>3, <2>4, <2>5 DEF ResumeOf
<1>8. pc[r] = "idle" /\ Delivered(r) /\ rv[r].off \in Offsets =>
        latestoffset' >= 0 /\ PassedBy(r, rv[r].pkt.pkttime)'
  <2> SUFFICES ASSUME pc[r] = "idle", Delivered(r), rv[r].off \in Offsets
               PROVE  latestoffset' >= 0 /\ PassedBy(r, rv[r].pkt.pkttime)'
    OBVIOUS
  <2>1. latestoffset >= 0 /\ PassedBy(r, rv[r].pkt.pkttime)
    BY DEF ResumeOf
  <2>2. rv[r].pkt \in written
    BY <1>1 DEF RingInv, PositionInv, PositionOf, HandedWritten, SeqlockInv, ReaderInv, HandedOut
  <2>3. Stamped(rv[r].pkt.pkttime) /\ rv[r].pkt.pkttime \in Int
    BY <1>1, <2>2, WriterFacts DEF Stamped, StampsNamePackets, RingInv
  <2>4. ASSUME NEW u \in Int, Stamped(u), PassedBy(r, u)
        PROVE  PassedBy(r, u)'
    BY <2>1, <2>4, PassedStays
  <2>5. latestoffset' >= 0
    BY <1>1, <2>1, EarliestGrows
  <2> QED
    BY <1>1, <2>1, <2>3, <2>4, <2>5
<1> QED
  BY <1>1, <1>4, <1>5, <1>6, <1>7, <1>8 DEF ResumeOf, Delivered


-----------------------------------------------------------------------------
(* The steps of a reader that resumes.                                     *)

\* Reader r's parts of the invariants, as a step of a reader finds them.
Resuming(r) == Ready(r) /\ ResumeOf(r)

(* A reader's step leaves the ring as it is.                               *)
LEMMA RingSeen ==
  ASSUME UNCHANGED wvars
  PROVE  /\ slot' = slot /\ latestoffset' = latestoffset /\ earliestoffset' = earliestoffset
         /\ last_pkttime' = last_pkttime /\ written' = written /\ wpc' = wpc /\ woff' = woff
         /\ \A x : (Early(x)' <=> Early(x)) /\ (Busy(x)' <=> Busy(x)) /\ (Live(x)' <=> Live(x))
         /\ \A x : Rank(x)' = Rank(x)
         /\ \A x, t : Newer(x, t)' <=> Newer(x, t)
<1>1. /\ slot' = slot /\ latestoffset' = latestoffset /\ earliestoffset' = earliestoffset
      /\ last_pkttime' = last_pkttime /\ written' = written /\ wpc' = wpc /\ woff' = woff
  BY DEF wvars
<1> QED
  BY <1>1 DEF Early, Busy, Live, Rank, TargetOffset, Newer

(* And what has been passed over.                                          *)
LEMMA SeenFrom ==
  ASSUME UNCHANGED wvars, NEW r \in Readers, from'[r] = from[r], loc'[r].lo = loc[r].lo
  PROVE  /\ \A q : Wanted(r, q)' <=> Wanted(r, q)
         /\ \A t : PassedBy(r, t)' <=> PassedBy(r, t)
         /\ \A x : StartsBefore(r, x)' <=> StartsBefore(r, x)
         /\ \A x, t : StillOrNewer(r, x, t)' <=> StillOrNewer(r, x, t)
<1>1. /\ slot' = slot /\ earliestoffset' = earliestoffset /\ written' = written
  BY RingSeen
<1>2. \A q : Wanted(r, q)' <=> Wanted(r, q)
  BY <1>1 DEF Wanted, Evicted
<1> QED
  BY <1>1, <1>2 DEF PassedBy, StartsBefore, StillOrNewer, Newer

(* A step that leaves a reader where it is.                                *)
LEMMA StaysResuming ==
  ASSUME NEW q \in Readers, Resuming(q),
         pc'[q] = pc[q], op'[q] = op[q], reader'[q] = reader[q], loc'[q] = loc[q],
         off'[q] = off[q], ptime'[q] = ptime[q], rv'[q] = rv[q], from'[q] = from[q]
  PROVE  ResumeOf(q)'
<1>1. UNCHANGED wvars
  BY DEF Resuming, Ready
<1>2. /\ \A t : PassedBy(q, t)' <=> PassedBy(q, t)
      /\ \A x : StartsBefore(q, x)' <=> StartsBefore(q, x)
      /\ \A x, t : StillOrNewer(q, x, t)' <=> StillOrNewer(q, x, t)
  BY <1>1, SeenFrom
<1>3. /\ slot' = slot /\ latestoffset' = latestoffset /\ earliestoffset' = earliestoffset
      /\ last_pkttime' = last_pkttime /\ wpc' = wpc /\ woff' = woff
      /\ \A x : (Early(x)' <=> Early(x)) /\ (Busy(x)' <=> Busy(x)) /\ (Live(x)' <=> Live(x))
      /\ \A x : Rank(x)' = Rank(x)
      /\ \A x, t : Newer(x, t)' <=> Newer(x, t)
  BY <1>1, RingSeen
<1>4. EarliestKnown(q)' <=> EarliestKnown(q)
  BY <1>3 DEF EarliestKnown
<1>5. Faithful(q)' <=> Faithful(q)
  BY <1>3 DEF Faithful, Sought, Dist
<1>6. FallbackSafe(q)' <=> FallbackSafe(q)
  BY <1>3, <1>5 DEF FallbackSafe
<1>7. WalksOn(q)' <=> WalksOn(q)
  BY <1>2 DEF WalksOn, NextOffset
<1>8. Aims(q)' <=> Aims(q)
  BY DEF Aims
<1> QED
  BY <1>2, <1>3, <1>4, <1>6, <1>7, <1>8 DEF Resuming, ResumeOf, Delivered

(* A call that ends without a packet, and calls of other functions.        *)
LEMMA NothingResumed ==
  ASSUME NEW r \in Readers,
         \/ op'[r] # "next"
         \/ pc'[r] = "idle" /\ rv'[r].id \notin PktIds
         \/ pc'[r] = "rn_reposition"
  PROVE  ResumeOf(r)'
BY DEF ResumeOf, Aims, Delivered, Finds, Reading

(* RingReadNext() is called: the earliest slot is loaded.                  *)
LEMMA CallResume ==
  ASSUME NEW r \in Readers, Ready(r), CallReadNext(r), DOMAIN from = Readers
  PROVE  ResumeOf(r)'
<1>1. /\ RingInv /\ PositionInv /\ MoreDomains /\ ReaderDomains /\ UNCHANGED wvars
      /\ loc[r] \in LocType
  BY ReadyFacts, ReaderFacts DEF RingInv
<1>2. /\ pc'[r] = "rn_latest" /\ reader' = reader /\ from'[r] = reader[r]
      /\ loc'[r].eo = earliestoffset /\ loc'[r].began = last_pkttime
  BY <1>1 DEF CallReadNext, Goto, ReaderDomains, MoreDomains, LocType
<1>3. /\ slot' = slot /\ latestoffset' = latestoffset /\ earliestoffset' = earliestoffset
      /\ last_pkttime' = last_pkttime /\ wpc' = wpc /\ woff' = woff
      /\ \A x : Early(x)' <=> Early(x)
  BY <1>1, RingSeen
<1>4. EarliestKnown(r)'
  <2> SUFFICES ASSUME earliestoffset \in Offsets
               PROVE  ~(wpc \in Unpublished /\ woff = earliestoffset) /\ Early(earliestoffset)
    BY <1>2, <1>3 DEF EarliestKnown
  <2>1. slot[earliestoffset].pkttime \in Int /\ latestoffset \in Int
    BY <1>1, SlotTimes, WriterFacts DEF Offsets
  <2>2. CASE latestoffset >= 0
    <3>1. slot[earliestoffset].pkttime > 0 /\ (wpc # "idle" => earliestoffset # woff)
      BY <1>1, <2>2 DEF RingInv, OrderInv, EarliestInPlace
    <3> QED
      BY <2>1, <3>1 DEF Early, Unpublished
  <2>3. CASE latestoffset < 0
    <3>1. wpc = "latest" /\ earliestoffset = woff
      BY <1>1, <2>3 DEF RingInv, OrderInv, EmptyAtFirst, Offsets
    <3>2. slot[earliestoffset].pkttime > 0
      BY <1>1, <3>1, WriterFacts DEF NewestCommits, Commits
    <3> QED
      BY <2>1, <3>1, <3>2 DEF Early, Unpublished
  <2> QED
    BY <2>1, <2>2, <2>3
<1> QED
  BY <1>2, <1>4 DEF ResumeOf, Finds, Reading

(* The latest slot is loaded.                                              *)
LEMMA LatestResume ==
  ASSUME NEW r \in Readers, Resuming(r), RNLatest(r)
  PROVE  ResumeOf(r)'
<1>1. /\ RingInv /\ PositionInv /\ MoreDomains /\ ReaderDomains /\ UNCHANGED wvars
      /\ loc[r] \in LocType
  BY ReadyFacts, ReaderFacts DEF Resuming, RingInv
<1>2. /\ pc[r] = "rn_latest" /\ pc'[r] = "rp_sample" /\ latestoffset >= 0
      /\ op' = op /\ reader' = reader /\ from' = from
      /\ loc'[r].lo = latestoffset /\ loc'[r].began = loc[r].began /\ loc'[r].eo = loc[r].eo
  BY <1>1 DEF RNLatest, Goto, ReaderDomains, MoreDomains, LocType
<1>3. /\ slot' = slot /\ latestoffset' = latestoffset /\ last_pkttime' = last_pkttime
      /\ wpc' = wpc
      /\ \A x : Early(x)' <=> Early(x)
      /\ \A x, t : Newer(x, t)' <=> Newer(x, t)
  BY <1>1, RingSeen
<1> SUFFICES ASSUME Aims(r)
             PROVE  ResumeOf(r)'
  BY <1>2 DEF ResumeOf, Aims
<1>4. reader[r] = from[r] /\ EarliestKnown(r)
  BY <1>2 DEF Resuming, ResumeOf
<1>5. Faithful(r)'
  BY <1>2 DEF Faithful, Finds, Bounded
<1>6. ASSUME loc[r].eo \in Offsets, Busy(loc[r].eo)
      PROVE  Newer(loc[r].eo, slot[latestoffset].pkttime)
  <2>1. /\ latestoffset \in Offsets /\ slot[latestoffset].pkttime \in Int
    BY <1>1, <1>2, LatestStamped
  <2>2. wpc \in {"payload", "header"} \cup Commits /\ loc[r].eo = woff
    BY <1>1, <1>6, WriterFacts DEF Busy, EndsOK, Unpublished
  <2>3. CASE wpc \in {"payload", "header"}
    BY <1>1, <2>2, <2>3, WriterFacts DEF SlotsHoldPackets, Newer, NSTUNSET
  <2>4. CASE wpc \in Commits
    <3>1. slot[woff].pkttime = last_pkttime /\ last_pkttime \in Nat
      BY <1>1, <2>4, WriterFacts DEF NewestCommits
    <3>2. slot[latestoffset].pkttime < last_pkttime
      BY <1>1, <1>2, <2>4, EndsInOrder DEF RingInv
    <3> QED
      BY <2>1, <2>2, <3>1, <3>2 DEF Newer
  <2> QED
    BY <2>2, <2>3, <2>4
<1>7. FallbackSafe(r)'
  BY <1>2, <1>3, <1>4, <1>5, <1>6 DEF FallbackSafe, EarliestKnown
<1> QED
  BY <1>2, <1>4, <1>7 DEF ResumeOf, Finds, Reading

(* The latest packet is sampled and read; the search for the ID begins.    *)
LEMMA BeginResume ==
  ASSUME NEW r \in Readers, Resuming(r), RPSample(r) \/ RNBegin(r)
  PROVE  ResumeOf(r)'
<1>1. /\ RingInv /\ PositionInv /\ MoreDomains /\ ReaderDomains /\ UNCHANGED wvars
      /\ loc[r] \in LocType
  BY ReadyFacts, ReaderFacts DEF Resuming, RingInv
<1>2. pc[r] \in {"rp_sample", "rp_copy"} /\ op' = op /\ from' = from
  BY DEF RPSample, RNBegin, RPDone
<1> SUFFICES ASSUME Aims(r)
             PROVE  ResumeOf(r)'
  BY <1>2 DEF ResumeOf, Aims
<1>3. reader[r] = from[r] /\ FallbackSafe(r)
  BY <1>2 DEF Resuming, ResumeOf
<1>4. /\ reader[r].pktid \in PktIds /\ Unpositioned(r)
      /\ reader[r].pktid \notin {RINGID_NEXT, RINGID_NONE, RINGID_LATEST, RINGID_EARLIEST}
  BY <1>3, ReadersAssumption
     DEF Aims, Unpositioned, PktIds, RINGID_NEXT, RINGID_NONE, RINGID_LATEST, RINGID_EARLIEST
<1>5. /\ loc'[r].eo = loc[r].eo /\ loc'[r].lo = loc[r].lo /\ loc'[r].began = loc[r].began
      /\ reader' = reader
      /\ \/ pc'[r] = "rp_copy"
         \/ pc'[r] = "f_earliest" /\ loc'[r].req = reader[r].pktid
  <2>1. CASE RPSample(r)
    BY <1>1, <2>1 DEF RPSample, Goto, ReaderDomains
  <2>2. CASE RNBegin(r)
    <3>1. /\ loc' = [loc EXCEPT ![r].latestid = buf[r].pktid,
                                ![r].latesttime = buf[r].pkttime, ![r].req = reader[r].pktid]
          /\ pc' = [pc EXCEPT ![r] = "f_earliest"] /\ reader' = reader
      BY <1>4, <2>2 DEF RNBegin, Goto
    <3> QED
      BY <1>1, <3>1 DEF ReaderDomains, MoreDomains, LocType
  <2> QED
    BY <2>1, <2>2
<1>6. Faithful(r)'
  BY <1>5 DEF Faithful, Finds, Bounded
<1>7. FallbackSafe(r)'
  BY <1>1, <1>3, <1>5, <1>6, RingSeen DEF FallbackSafe
<1> QED
  BY <1>2, <1>3, <1>5, <1>7 DEF ResumeOf, Finds, Reading


(* A packet that is wanted is in one of the slots from the earliest on,    *)
(* and so is every later one.                                              *)
LEMMA WantedLive ==
  ASSUME RingInv, latestoffset >= 0, NEW r \in Readers, NEW q \in written, Wanted(r, q),
         NEW p \in written, q.pkttime <= p.pkttime
  PROVE  /\ slot[earliestoffset].pkttime <= p.pkttime /\ p.pkttime \in Int /\ p.pkttime > 0
         /\ \E y \in Offsets : slot[y] = p /\ ~Gone(p.pkttime)
<1>1. /\ earliestoffset \in Offsets /\ slot[earliestoffset].pkttime \in Int
      /\ p.pkttime \in Int /\ q.pkttime \in Int /\ p.pkttime > 0
  BY EndsInOrder, SlotTimes, WriterFacts DEF RingInv, StampsNamePackets
<1>2. slot[earliestoffset].pkttime <= q.pkttime
  BY <1>1 DEF Wanted, Evicted, Offsets
<1>3. ~Gone(p.pkttime)
  BY <1>1, <1>2 DEF Gone
<1> QED
  BY <1>1, <1>2, <1>3 DEF RingInv, OrderInv, Contents

(* Going back to the earliest packet is early enough.                      *)
LEMMA EarliestStarts ==
  ASSUME RingInv, latestoffset >= 0, NEW r \in Readers, NEW x \in Offsets, Early(x)
  PROVE  StartsBefore(r, x)
<1> SUFFICES ASSUME NEW q \in written, Wanted(r, q)
             PROVE  slot[x].pkttime <= q.pkttime
  BY DEF StartsBefore
<1>1. q.pkttime \in Int
  BY WriterFacts DEF RingInv, StampsNamePackets
<1>2. slot[earliestoffset].pkttime <= q.pkttime
  BY <1>1, WantedLive
<1>3. slot[earliestoffset].pkttime \in Int /\ slot[x].pkttime \in Int
  BY EndsInOrder, SlotTimes DEF RingInv
<1> QED
  BY <1>1, <1>2, <1>3 DEF Early

(* The reader goes to the earliest packet, or gives up.                    *)
LEMMA RepositionResume ==
  ASSUME NEW r \in Readers, Resuming(r), RNReposition(r)
  PROVE  ResumeOf(r)'
<1>1. /\ RingInv /\ PositionInv /\ MoreDomains /\ ReaderDomains /\ UNCHANGED wvars
      /\ loc[r] \in LocType /\ Ready(r)
  BY ReadyFacts, ReaderFacts DEF Resuming, RingInv
<1>2. pc[r] = "rn_reposition" /\ op' = op /\ from' = from
  BY DEF RNReposition
<1>3. latestoffset >= 0
  BY <1>1, <1>2, OnTheWalk DEF Walking
<1>4. CASE loc[r].skipped + 1 >= SkipLimit
  BY <1>1, <1>4, ReturnsCode, CodesAreNoIds, NothingResumed DEF RNReposition
<1>5. CASE ~(loc[r].skipped + 1 >= SkipLimit)
  <2>1. /\ pc'[r] = "rn_sample" /\ off'[r] = earliestoffset /\ loc'[r].lo = loc[r].lo
    BY <1>1, <1>5 DEF RNReposition, Goto, ReaderDomains, MoreDomains, LocType
  <2>2. /\ earliestoffset \in Offsets /\ slot[earliestoffset].pkttime > 0
        /\ slot[earliestoffset].pkttime \in Int
    BY <1>1, <1>3, EndsInOrder, SlotTimes DEF RingInv
  <2>3. Early(earliestoffset)
    BY <2>2 DEF Early
  <2>4. StartsBefore(r, earliestoffset)
    BY <1>1, <1>3, <2>2, <2>3, EarliestStarts
  <2>5. StartsBefore(r, off[r])'
    BY <1>1, <1>2, <2>1, <2>4, SeenFrom
  <2> QED
    BY <2>1, <2>5 DEF ResumeOf, Finds, Reading
<1> QED
  BY <1>4, <1>5

(* The next packet after a place whose slot still holds the place's packet *)
(* or one overwritten since: nothing that is wanted lies between.          *)
LEMMA NoneBetween ==
  ASSUME RingInv, latestoffset >= 0, NEW r \in Readers, NEW o \in Offsets, NEW t \in Int, t > 0,
         NEW m \in Int, Place(o, t), slot[o].pkttime = t \/ Newer(o, m),
         ~Busy(NextOffset(o)), slot[NextOffset(o)].pkttime \in 1 .. m,
         NEW q \in written, Wanted(r, q), NEW p \in written, q.pkttime <= p.pkttime,
         t < p.pkttime
  PROVE  slot[NextOffset(o)].pkttime <= p.pkttime
<1> DEFINE n == NextOffset(o)
<1> SUFFICES ASSUME ~(slot[n].pkttime <= p.pkttime)
             PROVE  FALSE
  OBVIOUS
<1>1. WriterTypes /\ n \in Offsets /\ slot[n].pkttime \in Int /\ slot[n].pkttime <= m
  BY WriterFacts, ReadersAssumption DEF RingInv, NextOffset, Offsets
<1>2. PICK y \in Offsets : slot[y] = p /\ ~Gone(p.pkttime)
  BY WantedLive
<1>3. p.pkttime \in Int /\ p.pkttime > 0 /\ p.pkttime < slot[n].pkttime
  BY <1>1, WantedLive
<1>4. /\ \A x \in Offsets : Rank(x) \in 0 .. MaxPackets - 1
      /\ Rank(latestoffset) = MaxPackets - 1 /\ latestoffset \in Offsets
      /\ NextOffset(latestoffset) = TargetOffset /\ TargetOffset \in Offsets
      /\ \A x \in Offsets : (Rank(x) = 0) <=> x = TargetOffset
  BY <1>1, RankFacts DEF Offsets
<1>5. Rank(y) < Rank(n)
  <2>1. ~(Rank(n) < Rank(y))
    BY <1>1, <1>2, <1>3 DEF RingInv, OrderInv, RingOrder
  <2>2. Rank(n) # Rank(y)
    BY <1>1, <1>2, <1>3, <1>4, DistInjective DEF Rank
  <2> QED
    BY <1>1, <1>4, <2>1, <2>2
<1>6. Rank(n) = Rank(o) + 1
  <2>1. n # TargetOffset
    BY <1>1, <1>4, <1>5
  <2> QED
    BY <1>4, <2>1, DistStep DEF Rank
<1>7. CASE y = o
  <2>1. slot[o].pkttime \in Int /\ slot[o].pkttime # t
    BY <1>2, <1>3, <1>7
  <2>2. Newer(o, m) /\ slot[o].pkttime <= m /\ slot[o].pkttime > 0
    BY <1>1, <1>2, <1>3, <1>7, <2>1
  <2> QED
    BY <2>1, <2>2 DEF Newer
<1>8. CASE y # o
  <2>1. Rank(y) < Rank(o)
    <3>1. Rank(y) # Rank(o)
      BY <1>4, <1>8, DistInjective DEF Rank
    <3> QED
      BY <1>4, <1>5, <1>6, <3>1
  <2>2. Rank(o) # 0 /\ Rank(o) < Rank(n)
    BY <1>4, <1>6, <2>1
  <2>3. ~Busy(o)
    BY <1>4, <2>2, WriterFacts DEF Busy, RingInv
  <2>4. ~Busy(y)
    <3>1. Busy(y) => wpc \in Commits
      BY <1>2, <1>3, WriterFacts
         DEF Busy, RingInv, SlotsHoldPackets, EndsOK, Unpublished, NSTUNSET
    <3>2. wpc \in Commits /\ Busy(y) => slot[y].pkttime = last_pkttime
      BY WriterFacts DEF Busy, RingInv, NewestCommits
    <3>3. slot[n].pkttime <= last_pkttime /\ last_pkttime \in Nat
      BY <1>1, SlotTimes, WriterFacts DEF RingInv
    <3> QED
      BY <1>1, <1>2, <1>3, <3>1, <3>2, <3>3
  <2>5. p.pkttime < slot[o].pkttime /\ slot[o].pkttime \in Int
    BY <1>2, <1>3, <2>1, <2>4, SlotTimes DEF RingInv, OrderInv, RingOrder
  <2>6. slot[o].pkttime < slot[n].pkttime
    BY <1>1, <1>3, <2>2, <2>3, <2>5 DEF RingInv, OrderInv, RingOrder
  <2> QED
    BY <1>1, <1>3, <2>5, <2>6 DEF Newer
<1> QED
  BY <1>7, <1>8

(* A slot is sampled.                                                      *)
LEMMA SampleResume ==
  ASSUME NEW r \in Readers, Resuming(r), RNSample(r)
  PROVE  ResumeOf(r)'
<1>1. /\ RingInv /\ PositionInv /\ MoreDomains /\ ReaderDomains /\ UNCHANGED wvars
      /\ loc[r] \in LocType /\ Ready(r) /\ PlaceOf(r)
  BY ReadyFacts, ReaderFacts DEF Resuming, RingInv
<1>2. /\ pc[r] = "rn_sample" /\ off[r] \in Offsets /\ ~Lapped(r) /\ pc'[r] = "rn_position"
      /\ op' = op /\ from' = from /\ off' = off
      /\ ptime'[r] = slot[off[r]].pkttime /\ loc'[r].lo = loc[r].lo
  BY <1>1, ReadyFacts DEF RNSample, Goto, ReaderDomains, MoreDomains, LocType, Offsets
<1>3. /\ slot[off[r]].pkttime \in Int /\ slot[off[r]].pkttime > 0
      /\ slot[off[r]].pkttime <= slot[loc[r].lo].pkttime /\ ~Busy(off[r])
  BY <1>1, <1>2, SampledPlace
<1>4. latestoffset >= 0 /\ loc[r].lo \in Offsets /\ slot[loc[r].lo].pkttime \in Int
  BY <1>1, <1>2, OnTheWalk, SlotTimes DEF Walking
<1> SUFFICES ASSUME Aims(r)
             PROVE  ResumeOf(r)'
  BY <1>2 DEF ResumeOf, Aims
<1>5. \A q \in written : q.pkttime \in Int
  BY <1>1, WriterFacts DEF StampsNamePackets
<1>6. PassedBy(r, slot[off[r]].pkttime)
  <2> SUFFICES ASSUME NEW q \in written, NEW p \in written, Wanted(r, q),
                      q.pkttime <= p.pkttime, p.pkttime < slot[off[r]].pkttime
               PROVE  p.streamid \notin Selected[r]
    BY DEF PassedBy
  <2>1. CASE StartsBefore(r, off[r])
    <3>1. ~Newer(off[r], slot[loc[r].lo].pkttime)
      BY <1>3, <1>4 DEF Newer
    <3>2. slot[off[r]].pkttime <= q.pkttime
      BY <2>1, <3>1 DEF StartsBefore
    <3> QED
      BY <1>3, <1>5, <3>2
  <2>2. CASE WalksOn(r)
    <3>1. /\ reader[r].pktoffset >= 0 /\ off[r] = NextOffset(reader[r].pktoffset)
          /\ Place(reader[r].pktoffset, reader[r].pkttime)
          /\ StillOrNewer(r, reader[r].pktoffset, reader[r].pkttime)
          /\ PassedBy(r, reader[r].pkttime + 1)
      BY <1>1, <2>2 DEF WalksOn, PlaceOf
    <3>2. reader[r].pktoffset \in Offsets /\ reader[r].pkttime \in Int /\ reader[r].pkttime > 0
      BY <1>1, <3>1, PlaceFacts
    <3>3. CASE p.pkttime <= reader[r].pkttime
      BY <1>5, <3>1, <3>2, <3>3 DEF PassedBy
    <3>4. CASE reader[r].pkttime < p.pkttime
      <4>1. slot[off[r]].pkttime \in 1 .. slot[loc[r].lo].pkttime
        BY <1>3, <1>4
      <4>2. slot[off[r]].pkttime <= p.pkttime
        BY <1>1, <1>3, <1>4, <3>1, <3>2, <3>4, <4>1, NoneBetween DEF StillOrNewer
      <4> QED
        BY <1>3, <1>5, <4>2
    <3> QED
      BY <1>5, <3>2, <3>3, <3>4
  <2> QED
    BY <1>2, <2>1, <2>2 DEF Resuming, ResumeOf
<1>7. PassedBy(r, ptime[r])' /\ StillOrNewer(r, off[r], ptime[r])'
  <2>1. StillOrNewer(r, off[r], slot[off[r]].pkttime)
    BY DEF StillOrNewer
  <2> QED
    BY <1>1, <1>2, <1>6, <2>1, SeenFrom
<1> QED
  BY <1>2, <1>7 DEF ResumeOf, Finds

(* The reader takes its position, or its expressions match.                *)
LEMMA PositionResume ==
  ASSUME NEW r \in Readers, Resuming(r), RNPosition(r) \/ RNMatch(r)
  PROVE  ResumeOf(r)'
<1>1. /\ ReaderDomains /\ UNCHANGED wvars
  BY ReadyFacts, ReaderFacts DEF Resuming, RingInv
<1>2. /\ pc[r] \in Reading /\ pc'[r] \in {"rn_filter", "rn_copy"}
      /\ op' = op /\ from' = from /\ loc' = loc /\ off' = off /\ ptime' = ptime
  BY <1>1 DEF RNPosition, RNMatch, Goto, ReaderDomains, Reading
<1> SUFFICES ASSUME Aims(r)
             PROVE  ResumeOf(r)'
  BY <1>2 DEF ResumeOf, Aims
<1>3. PassedBy(r, ptime[r]) /\ StillOrNewer(r, off[r], ptime[r])
  BY <1>2 DEF Resuming, ResumeOf
<1>4. PassedBy(r, ptime[r])' /\ StillOrNewer(r, off[r], ptime[r])'
  BY <1>1, <1>2, <1>3, SeenFrom
<1> QED
  BY <1>2, <1>4 DEF ResumeOf, Finds


(* The reader's expressions do not match: it does not select the packet    *)
(* passed over, if one it asked for is not later.                          *)
LEMMA SkipResume ==
  ASSUME NEW r \in Readers, Resuming(r), RNSkip(r)
  PROVE  ResumeOf(r)'
<1>1. /\ RingInv /\ PositionInv /\ ReaderDomains /\ UNCHANGED wvars /\ Ready(r) /\ PlaceOf(r)
  BY ReadyFacts, ReaderFacts DEF Resuming, RingInv
<1>2. /\ pc[r] = "rn_filter" /\ pc[r] \in Reading
      /\ op' = op /\ from' = from /\ reader' = reader
  BY DEF RNSkip, Reading
<1>3. /\ reader[r].pktoffset = off[r] /\ reader[r].pkttime = ptime[r] /\ off[r] \in Offsets
      /\ Held(off[r], ptime[r]) /\ ptime[r] \in Int /\ ptime[r] > 0 /\ latestoffset >= 0
  <2>1. Place(off[r], ptime[r]) /\ reader[r].pktoffset = off[r] /\ reader[r].pkttime = ptime[r]
    BY <1>1, <1>2 DEF PlaceOf
  <2> QED
    BY <1>1, <2>1, PlaceFacts DEF Place
<1> SUFFICES ASSUME Aims(r)
             PROVE  ResumeOf(r)'
  BY <1>2 DEF ResumeOf, Aims
<1>4. PassedBy(r, ptime[r]) /\ StillOrNewer(r, off[r], ptime[r])
  BY <1>2 DEF Resuming, ResumeOf
<1>5. PassedBy(r, ptime[r] + 1)
  <2> SUFFICES ASSUME NEW q \in written, NEW p \in written, Wanted(r, q),
                      q.pkttime <= p.pkttime, p.pkttime < ptime[r] + 1
               PROVE  p.streamid \notin Selected[r]
    BY DEF PassedBy
  <2>1. p.pkttime \in Int
    BY <1>1, <1>3, WantedLive
  <2>2. CASE p.pkttime < ptime[r]
    BY <1>4, <2>2 DEF PassedBy
  <2>3. CASE p.pkttime = ptime[r]
    <3>1. ~Gone(ptime[r])
      BY <1>1, <1>3, <2>3, WantedLive
    <3>2. ~Busy(off[r]) /\ slot[off[r]].pkttime = ptime[r]
      BY <1>3, <3>1 DEF Held
    <3>3. slot[off[r]] = p
      BY <1>1, <1>3, <2>3, <3>2, SlotTimes, WriterFacts DEF StampsNamePackets
    <3>4. ~InCopy(off[r], "streamid")
      BY <3>2 DEF InCopy, Busy
    <3> QED
      BY <3>3, <3>4 DEF RNSkip, Reads
  <2> QED
    BY <1>3, <2>1, <2>2, <2>3
<1>6. CASE NextOffset(off[r]) = NextOffset(loc[r].lo)
  BY <1>1, <1>6, ReturnsCode, CodesAreNoIds, NothingResumed DEF RNSkip
<1>7. CASE NextOffset(off[r]) # NextOffset(loc[r].lo)
  <2>1. /\ pc'[r] = "rn_sample" /\ off'[r] = NextOffset(off[r]) /\ loc' = loc
    BY <1>1, <1>7 DEF RNSkip, Goto, ReaderDomains
  <2>2. /\ PassedBy(r, reader[r].pkttime + 1)'
        /\ StillOrNewer(r, reader[r].pktoffset, reader[r].pkttime)'
    BY <1>1, <1>2, <1>3, <1>4, <1>5, <2>1, SeenFrom
  <2>3. WalksOn(r)'
    BY <1>2, <1>3, <2>1, <2>2 DEF WalksOn, NextOffset, Offsets
  <2> QED
    BY <2>1, <2>3 DEF ResumeOf, Finds, Reading
<1> QED
  BY <1>6, <1>7

(* The packet is handed out, unless it was overwritten while it was copied.*)
LEMMA ReturnResume ==
  ASSUME NEW r \in Readers, Resuming(r), RNReturn(r)
  PROVE  ResumeOf(r)'
<1>1. /\ RingInv /\ PositionInv /\ SeqlockInv /\ ReaderDomains /\ UNCHANGED wvars /\ Ready(r)
      /\ PlaceOf(r)
  BY ReadyFacts, ReaderFacts DEF Resuming, RingInv
<1>2. /\ pc[r] = "rn_copy" /\ pc[r] \in Reading /\ rtodo[r] = {} /\ op' = op /\ from' = from
  BY DEF RNReturn, Reading
<1>3. off[r] \in Offsets /\ latestoffset >= 0
  BY <1>1, <1>2 DEF PlaceOf, Place
<1> SUFFICES ASSUME Aims(r)
             PROVE  ResumeOf(r)'
  BY <1>2 DEF ResumeOf, Aims
<1>4. CASE ~Intact(r)
  BY <1>1, <1>4, ReturnsCode, CodesAreNoIds, NothingResumed DEF RNReturn
<1>5. CASE Intact(r)
  <2>1. pc'[r] = "idle" /\ rv'[r].pkt = buf[r]
    BY <1>1, <1>5 DEF RNReturn, Return, ReaderDomains
  <2>2. buf[r].pkttime = ptime[r]
    BY <1>1, <1>2, <1>3, <1>5, CheckedCopy DEF Copied, Copying, Intact
  <2>3. PassedBy(r, ptime[r])
    BY <1>2 DEF Resuming, ResumeOf
  <2>4. /\ latestoffset' = latestoffset /\ written' = written /\ slot' = slot
        /\ earliestoffset' = earliestoffset
    BY <1>1, RingSeen
  <2>5. PassedBy(r, rv[r].pkt.pkttime)'
    BY <1>2, <2>1, <2>2, <2>3, <2>4 DEF PassedBy, Wanted, Evicted
  <2> QED
    BY <1>3, <2>1, <2>4, <2>5 DEF ResumeOf, Finds, Reading
<1> QED
  BY <1>4, <1>5

(* Memory before the first slot; a slot that is taken as overwritten.      *)
LEMMA WildResume ==
  ASSUME NEW r \in Readers, Resuming(r), RNWild(r) \/ RNLapped(r)
  PROVE  ResumeOf(r)'
<1>1. ReaderDomains /\ off[r] \in Offsets \cup {-1}
  BY ReadyFacts, ReaderFacts DEF Resuming, RingInv
<1>2. CASE Goto(r, "rn_reposition")
  BY <1>1, <1>2, NothingResumed DEF Goto, ReaderDomains
<1>3. CASE /\ Return(r, RINGID_MAXIMUM, [Blank EXCEPT !.pktid = RINGID_MAXIMUM])
           /\ off[r] < 0
  <2>1. pc'[r] = "idle" /\ rv'[r].off \notin Offsets
    BY <1>1, <1>3 DEF Return, ReaderDomains, Offsets
  <2> QED
    BY <2>1 DEF ResumeOf, Finds, Reading
<1> QED
  BY <1>2, <1>3 DEF RNWild, RNLapped

(* A call that ends with nothing to read.                                  *)
LEMMA NoneResume ==
  ASSUME NEW r \in Readers, Resuming(r), RPNone(r) \/ RNEmpty(r) \/ RNCaughtUp(r)
  PROVE  ResumeOf(r)'
<1>1. PositionInv
  BY ReadyFacts DEF Resuming, RingInv
<1>2. ReturnCode(r, RINGID_NONE) \/ ReturnCode(r, RINGID_ERROR)
  BY DEF RPNone, RNEmpty, RNCaughtUp
<1> QED
  BY <1>1, <1>2, ReturnsCode, CodesAreNoIds, NothingResumed

(* RingPositionBefore().                                                   *)
LEMMA BeforeResume ==
  ASSUME NEW r \in Readers, Ready(r),
         PBDone(r) \/ \E id : CallPositionBefore(r, id)
  PROVE  ResumeOf(r)'
<1>1. ReaderDomains
  BY ReadyFacts, ReaderFacts DEF RingInv
<1>2. op'[r] = "before"
  BY <1>1 DEF PBDone, CallPositionBefore, Command, ReaderDomains
<1> QED
  BY <1>2, NothingResumed


(* A packet in a slot that is not the newest is not being replaced.        *)
LEMMA SettledSlot ==
  ASSUME RingInv, NEW x \in Offsets, slot[x].pkttime > 0, slot[x].pkttime < last_pkttime
  PROVE  ~Busy(x)
<1>1. /\ SlotsHoldPackets /\ EndsOK /\ NewestCommits /\ last_pkttime \in Nat
      /\ slot[x].pkttime \in Int
  BY WriterFacts, SlotTimes DEF RingInv
<1>2. Busy(x) => wpc \in Commits
  BY <1>1 DEF Busy, SlotsHoldPackets, EndsOK, Unpublished, NSTUNSET
<1> QED
  BY <1>1, <1>2 DEF Busy, NewestCommits

(* The packet ID is found: no packet with that ID is earlier.              *)
LEMMA FoundResume ==
  ASSUME OwnIds, IdsInOrder, NEW r \in Readers, Resuming(r), Found(r)
  PROVE  ResumeOf(r)'
<1>1. /\ RingInv /\ PositionInv /\ ReaderDomains /\ UNCHANGED wvars /\ Ready(r)
  BY ReadyFacts, ReaderFacts DEF Resuming, RingInv
<1>2. /\ pc[r] \in {"f_bisect", "f_scan"} /\ ~Exhausted(r) /\ pc[r] \in Finds
      /\ slot[Probe(r)].pktid = loc[r].req /\ op' = op /\ from' = from /\ loc' = loc
  BY DEF Found, Hit, Finds
<1> SUFFICES ASSUME Aims(r)
             PROVE  ResumeOf(r)'
  BY <1>2 DEF ResumeOf, Aims
<1>3. op[r] = "next" /\ loc[r].req = from[r].pktid
  BY <1>2 DEF Aims, Resuming, ResumeOf
<1>4. pc'[r] = "rn_sample" /\ off'[r] = Probe(r)
  BY <1>1, <1>3 DEF Found, FoundAt, Goto, ReaderDomains
<1>5. Probe(r) \in Offsets
  BY <1>1, <1>2, ProbeInRing
<1>6. /\ loc[r].lo \in Offsets /\ latestoffset >= 0 /\ ~Busy(loc[r].lo) /\ InNext(r)
  BY <1>1, <1>2, <1>3, InFind, ReadyFacts, KnownLatest
<1>7. StartsBefore(r, Probe(r))
  <2> DEFINE x == Probe(r)
  <2> SUFFICES ASSUME ~Newer(x, slot[loc[r].lo].pkttime),
                      NEW q \in written, Wanted(r, q), ~(slot[x].pkttime <= q.pkttime)
               PROVE  FALSE
    BY DEF StartsBefore
  <2>1. PICK y \in Offsets : slot[y] = q
    BY <1>1, <1>6, WantedLive, WriterFacts DEF StampsNamePackets
  <2>2. q.pkttime \in Int /\ q.pkttime > 0
    BY <1>1, <1>6, WantedLive, WriterFacts DEF StampsNamePackets
  <2>3. /\ slot[x].pkttime \in Int /\ slot[x].pkttime > q.pkttime
        /\ slot[loc[r].lo].pkttime \in Int /\ slot[x].pkttime <= slot[loc[r].lo].pkttime
        /\ slot[x].pkttime <= last_pkttime /\ last_pkttime \in Nat
    BY <1>1, <1>5, <1>6, <2>2, SlotTimes, WriterFacts DEF Newer
  <2>4. ~Busy(y)
    BY <1>1, <2>1, <2>2, <2>3, SettledSlot
  <2>5. ~Busy(x)
    <3>1. /\ slot[loc[r].lo].pkttime <= slot[latestoffset].pkttime
          /\ slot[latestoffset].pkttime \in Int
          /\ wpc \in Commits => slot[latestoffset].pkttime < last_pkttime
      BY <1>1, <1>6, EndsInOrder, SlotTimes DEF RingInv
    <3>2. Busy(x) => wpc \in Commits
      BY <1>1, <2>2, <2>3, WriterFacts DEF Busy, SlotsHoldPackets, EndsOK, Unpublished, NSTUNSET
    <3>3. wpc \in Commits => slot[x].pkttime < last_pkttime
      BY <2>3, <3>1
    <3> QED
      BY <1>1, <1>5, <2>2, <2>3, <3>2, <3>3, SettledSlot
  <2>6. /\ Rank(x) \in Int /\ Rank(y) \in Int
        /\ Rank(x) = Rank(y) => x = y
    BY <1>1, <1>5, WriterFacts, RankFacts, DistInjective DEF Rank, Offsets
  <2>7. CASE Rank(x) < Rank(y)
    BY <1>1, <1>5, <2>1, <2>2, <2>3, <2>5, <2>7 DEF RingInv, OrderInv, RingOrder
  <2>8. CASE Rank(y) < Rank(x)
    BY <1>1, <1>2, <1>3, <1>5, <2>1, <2>2, <2>4, <2>8, IdsDiffer DEF Wanted
  <2> QED
    BY <2>1, <2>2, <2>3, <2>6, <2>7, <2>8
<1>8. StartsBefore(r, off[r])'
  BY <1>1, <1>2, <1>4, <1>7, SeenFrom
<1> QED
  BY <1>4, <1>8 DEF ResumeOf, Finds, Reading


-----------------------------------------------------------------------------
(* The search in a ring that does not change.                              *)

\* Where the search stands, with what it relies on.
Frozen(r) ==
  /\ OwnIds /\ RingInv /\ IdsInOrder /\ wpc = "idle" /\ latestoffset >= 0
  /\ TypesOf(r) /\ LooksAtSlots(r) /\ Faithful(r)

(* The live slots by their distance from the earliest.                     *)
LEMMA LiveFacts ==
  ASSUME RingInv, latestoffset >= 0
  PROVE  /\ earliestoffset \in Offsets /\ latestoffset \in Offsets
         /\ Live(earliestoffset) /\ Live(latestoffset)
         /\ \A y \in Offsets :
              /\ Rank(y) \in Nat /\ Rank(y) <= Rank(latestoffset)
              /\ Dist(earliestoffset, y) \in Nat
              /\ Live(y) <=> Dist(earliestoffset, y) <= Dist(earliestoffset, latestoffset)
         /\ \A x, y \in Offsets : Rank(x) = Rank(y) => x = y
<1>1. WriterTypes /\ earliestoffset \in Offsets /\ latestoffset \in Offsets
  BY EndsInOrder, WriterFacts DEF RingInv
<1>2. /\ TargetOffset \in Offsets /\ Rank(latestoffset) = MaxPackets - 1
      /\ \A x \in Offsets : Rank(x) \in 0 .. MaxPackets - 1
  BY <1>1, RankFacts DEF Offsets
<1>3. \A x, y \in Offsets : Rank(x) = Rank(y) => x = y
  BY <1>2, DistInjective DEF Rank
<1>4. ASSUME NEW y \in Offsets
      PROVE  /\ Dist(earliestoffset, y) \in Nat
             /\ Live(y) <=> Dist(earliestoffset, y) <= Dist(earliestoffset, latestoffset)
  <2>1. Dist(earliestoffset, y) \in Nat
    BY <1>1, DistNat
  <2>2. Dist(earliestoffset, latestoffset) = Rank(latestoffset) - Rank(earliestoffset)
    BY <1>1, <1>2, DistBack DEF Rank
  <2>3. CASE Rank(earliestoffset) <= Rank(y)
    <3>1. Dist(earliestoffset, y) = Rank(y) - Rank(earliestoffset)
      BY <1>1, <1>2, <2>3, DistBack DEF Rank
    <3> QED
      BY <1>1, <1>2, <2>1, <2>2, <2>3, <3>1, ReadersAssumption DEF Live
  <2>4. CASE Rank(earliestoffset) > Rank(y)
    <3>1. Dist(earliestoffset, y) = Rank(y) - Rank(earliestoffset) + MaxPackets
      BY <1>1, <1>2, <2>4, DistBack DEF Rank
    <3> QED
      BY <1>1, <1>2, <2>1, <2>2, <2>4, <3>1, ReadersAssumption DEF Live
  <2> QED
    BY <1>1, <1>2, <2>3, <2>4, ReadersAssumption
<1> QED
  BY <1>1, <1>2, <1>3, <1>4, ReadersAssumption DEF Live

(* The ends of the ring are loaded and their IDs read.                     *)
LEMMA EndsFaithful ==
  ASSUME NEW r \in Readers, Frozen(r), UNCHANGED wvars,
         \/ FEarliest(r) \/ FLatest(r) \/ FSample(r) \/ FId(r) \/ FCheckEarliest(r)
  PROVE  Faithful(r)'
<1>1. /\ MoreDomains /\ ReaderDomains /\ loc[r] \in LocType /\ Faithful(r)
      /\ slot' = slot /\ earliestoffset' = earliestoffset /\ latestoffset' = latestoffset
  BY ReaderFacts, RingSeen DEF Frozen, RingInv, TypesOf
<1>2. CASE FEarliest(r)
  <2>1. pc'[r] = "f_latest" /\ loc'[r].e = earliestoffset
    BY <1>1, <1>2 DEF FEarliest, Goto, ReaderDomains, MoreDomains, LocType
  <2> QED
    BY <1>1, <2>1 DEF Faithful, Bounded
<1>3. CASE FLatest(r)
  <2>1. /\ pc[r] = "f_latest" /\ pc'[r] = "f_esample" /\ loc'[r].e = loc[r].e
        /\ loc'[r].l = latestoffset /\ off'[r] = loc[r].e
    BY <1>1, <1>3 DEF FLatest, FSampleNext, Goto, ReaderDomains, MoreDomains, LocType
  <2> QED
    BY <1>1, <2>1 DEF Faithful, Finds
<1>4. CASE FSample(r)
  <2>1. /\ loc' = loc /\ off' = off /\ ptime'[r] = slot[off[r]].pkttime
        /\ \/ pc[r] = "f_esample" /\ pc'[r] = "f_eid"
           \/ pc[r] = "f_lsample" /\ pc'[r] = "f_lid"
    BY <1>1, <1>4 DEF FSample, Goto, ReaderDomains
  <2> QED
    BY <1>1, <2>1 DEF Faithful, Finds, Bounded
<1>5. CASE FId(r)
  <2>1. CASE pc[r] = "f_eid"
    <3>1. /\ pc'[r] = "f_echeck" /\ loc'[r].e = loc[r].e /\ loc'[r].l = loc[r].l
          /\ loc'[r].eid = slot[off[r]].pktid /\ off' = off /\ ptime' = ptime
      BY <1>1, <1>5, <2>1 DEF FId, Goto, ReaderDomains, MoreDomains, LocType
    <3> QED
      BY <1>1, <2>1, <3>1 DEF Faithful, Finds, Bounded
  <2>2. CASE pc[r] = "f_lid"
    <3>1. /\ pc'[r] = "f_lcheck" /\ loc'[r].e = loc[r].e /\ loc'[r].l = loc[r].l
          /\ loc'[r].eid = loc[r].eid /\ loc'[r].lid = slot[off[r]].pktid
          /\ off' = off /\ ptime' = ptime
      BY <1>1, <1>5, <2>2 DEF FId, Goto, ReaderDomains, MoreDomains, LocType
    <3> QED
      BY <1>1, <2>2, <3>1 DEF Faithful, Finds, Bounded
  <2> QED
    BY <1>5, <2>1, <2>2 DEF FId
<1>6. CASE FCheckEarliest(r)
  <2>1. /\ pc[r] = "f_echeck" /\ pc'[r] = "f_lsample" /\ loc' = loc /\ off'[r] = loc[r].l
    BY <1>1, <1>6 DEF FCheckEarliest, FSampleNext, Goto, ReaderDomains
  <2> QED
    BY <1>1, <2>1 DEF Faithful, Finds, Bounded
<1> QED
  BY <1>2, <1>3, <1>4, <1>5, <1>6


(* The search for the ID begins with all the live slots.                   *)
LEMMA SearchFaithful ==
  ASSUME NEW r \in Readers, Frozen(r), UNCHANGED wvars, FCheckLatest(r)
  PROVE  Faithful(r)'
<1>1. /\ MoreDomains /\ ReaderDomains /\ loc[r] \in LocType /\ Faithful(r)
      /\ slot' = slot /\ earliestoffset' = earliestoffset /\ latestoffset' = latestoffset
      /\ \A x : (Live(x)' <=> Live(x)) /\ Rank(x)' = Rank(x)
      /\ RingInv /\ latestoffset >= 0
  BY ReaderFacts, RingSeen DEF Frozen, RingInv, TypesOf
<1>2. pc[r] = "f_lcheck"
  BY DEF FCheckLatest
<1>3. /\ loc[r].e = earliestoffset /\ loc[r].l = latestoffset
      /\ loc[r].eid = slot[loc[r].e].pktid /\ loc[r].lid = slot[loc[r].l].pktid
  BY <1>1, <1>2 DEF Faithful, Finds, Bounded
<1>4. /\ loc'[r].e = loc[r].e /\ loc'[r].l = loc[r].l /\ loc'[r].req = loc[r].req
      /\ loc'[r].eid = loc[r].eid /\ loc'[r].lid = loc[r].lid
      /\ loc'[r].low = 0 /\ loc'[r].at = loc[r].l
      /\ loc'[r].high = IF loc[r].l < loc[r].e THEN loc[r].l + MaxPackets - loc[r].e
                                               ELSE loc[r].l - loc[r].e
      /\ pc'[r] = IF loc[r].eid <= loc[r].lid THEN "f_bisect" ELSE "f_scan"
  BY <1>1 DEF FCheckLatest, Ascending, Goto, ReaderDomains, MoreDomains, LocType
<1>5. loc'[r].high = Dist(loc[r].e, loc[r].l)
  <2>1. loc[r].e \in Offsets /\ loc[r].l \in Offsets
    BY <1>1, <1>3, LiveFacts
  <2> QED
    BY <1>4, <2>1, ReadersAssumption DEF Dist, Offsets
<1>6. \A y : Sought(r, y)' <=> Sought(r, y)
  BY <1>1, <1>4 DEF Sought
<1>7. \A y \in Offsets : Sought(r, y) =>
        /\ 0 <= Dist(loc[r].e, y) /\ Dist(loc[r].e, y) <= Dist(loc[r].e, loc[r].l)
        /\ Rank(y) <= Rank(loc[r].l)
  BY <1>1, <1>3, LiveFacts DEF Sought
<1>8. Dist(loc[r].e, loc[r].l) <= Dist(loc[r].e, loc[r].l) /\ Live(loc[r].l)
  BY <1>1, <1>3, LiveFacts
<1>9. CASE loc[r].eid <= loc[r].lid
  <2>1. pc'[r] = "f_bisect"
    BY <1>4, <1>9
  <2>2. \A y \in Offsets : Sought(r, y)' =>
          loc'[r].low <= Dist(loc'[r].e, y) /\ Dist(loc'[r].e, y) <= loc'[r].high
    BY <1>4, <1>5, <1>6, <1>7
  <2>3. loc'[r].eid <= loc'[r].lid /\ loc'[r].high <= Dist(loc'[r].e, loc'[r].l)
    BY <1>4, <1>5, <1>8, <1>9
  <2> QED
    BY <1>1, <1>3, <1>4, <2>1, <2>2, <2>3 DEF Faithful, Dist
<1>10. CASE ~(loc[r].eid <= loc[r].lid)
  <2>1. pc'[r] = "f_scan"
    BY <1>4, <1>10
  <2>2. \A y \in Offsets : Sought(r, y)' => Rank(y)' <= Rank(loc[r].l)
    BY <1>1, <1>6, <1>7
  <2>3. Rank(loc[r].at)' = Rank(loc[r].l) /\ Live(loc[r].at)'
    BY <1>1, <1>4, <1>8
  <2> QED
    BY <1>1, <1>3, <1>4, <2>1, <2>2, <2>3 DEF Faithful
<1> QED
  BY <1>9, <1>10

(* The slot in the middle of a bisection, and its ID.                      *)
LEMMA ProbeFaithful ==
  ASSUME NEW r \in Readers, Frozen(r), pc[r] = "f_bisect", ~Exhausted(r)
  PROVE  /\ Middle(r) \in Nat /\ loc[r].low <= Middle(r) /\ Middle(r) <= loc[r].high
         /\ loc[r].high \in Int /\ slot[loc[r].e].pktid \in Int
         /\ slot[Probe(r)].pktid = slot[loc[r].e].pktid + Middle(r)
         /\ \A y \in Offsets : Sought(r, y) =>
              /\ Dist(loc[r].e, y) \in Nat
              /\ loc[r].req = slot[loc[r].e].pktid + Dist(loc[r].e, y)
<1>1. /\ OwnIds /\ RingInv /\ PositionInv /\ IdsInOrder /\ latestoffset >= 0 /\ Faithful(r)
      /\ loc[r] \in LocType
  BY DEF Frozen, RingInv, TypesOf
<1>2. /\ loc[r].e = earliestoffset /\ loc[r].l = latestoffset
      /\ slot[earliestoffset].pktid <= slot[latestoffset].pktid
      /\ loc[r].high <= Dist(earliestoffset, latestoffset)
  BY <1>1 DEF Faithful, Finds, Bounded
<1>3. /\ Probe(r) \in Offsets /\ Middle(r) \in Nat
      /\ loc[r].low <= Middle(r) /\ Middle(r) <= loc[r].high
  BY <1>1, ProbeInRing
<1>4. /\ earliestoffset \in Offsets /\ latestoffset \in Offsets
      /\ Dist(earliestoffset, latestoffset) \in Nat /\ loc[r].high \in Int
  BY <1>1, LiveFacts DEF LocType
<1>5. Middle(r) <= Dist(earliestoffset, latestoffset) /\ Middle(r) < MaxPackets
  <2>1. Dist(earliestoffset, latestoffset) \in Offsets
    BY <1>4, DistFacts
  <2> QED
    BY <1>2, <1>3, <1>4, <2>1, ReadersAssumption DEF Offsets
<1>6. Dist(earliestoffset, Probe(r)) = Middle(r)
  BY <1>2, <1>3, <1>4, <1>5, ReadersAssumption DEF Probe, Dist, Offsets
<1>7. slot[Probe(r)].pktid = slot[earliestoffset].pktid + Middle(r)
  <2>1. Live(Probe(r))
    BY <1>1, <1>3, <1>5, <1>6, LiveFacts
  <2> QED
    BY <1>1, <1>2, <1>3, <1>6, <2>1, IdsAscend
<1>8. \A y \in Offsets : Sought(r, y) =>
        /\ Dist(earliestoffset, y) \in Nat
        /\ loc[r].req = slot[earliestoffset].pktid + Dist(earliestoffset, y)
  BY <1>1, <1>2, LiveFacts, IdsAscend DEF Sought
<1>9. slot[earliestoffset].pktid \in Int
  BY <1>1, EndsInOrder, StampedId, ReadersAssumption
     DEF RingInv
<1> QED
  BY <1>2, <1>3, <1>4, <1>7, <1>8, <1>9

(* The slot looked at has another ID.                                      *)
LEMMA MissFaithful ==
  ASSUME NEW r \in Readers, Frozen(r), UNCHANGED wvars, FMiss(r)
  PROVE  Faithful(r)'
<1>1. /\ MoreDomains /\ ReaderDomains /\ loc[r] \in LocType /\ Faithful(r)
      /\ slot' = slot /\ earliestoffset' = earliestoffset /\ latestoffset' = latestoffset
      /\ \A x : (Live(x)' <=> Live(x)) /\ Rank(x)' = Rank(x)
      /\ RingInv /\ latestoffset >= 0
  BY ReaderFacts, RingSeen DEF Frozen, RingInv, TypesOf
<1>2. /\ pc[r] \in {"f_bisect", "f_scan"} /\ pc' = pc /\ ~Exhausted(r) /\ ~ScannedAll(r)
      /\ slot[Probe(r)].pktid # loc[r].req
  BY DEF FMiss, Hit
<1>3. loc'[r] = IF pc[r] = "f_scan" THEN [loc[r] EXCEPT !.at = PrevOffset(loc[r].at)]
                ELSE IF slot[Probe(r)].pktid < loc[r].req
                       THEN [loc[r] EXCEPT !.low = Middle(r) + 1]
                ELSE [loc[r] EXCEPT !.high = Middle(r) - 1]
  BY <1>1 DEF FMiss, MoreDomains
<1>4. /\ loc'[r].e = loc[r].e /\ loc'[r].l = loc[r].l /\ loc'[r].req = loc[r].req
      /\ loc'[r].eid = loc[r].eid /\ loc'[r].lid = loc[r].lid
  BY <1>1, <1>3 DEF LocType
<1>5. /\ loc[r].e = earliestoffset /\ loc[r].l = latestoffset
      /\ loc[r].eid = slot[loc[r].e].pktid /\ loc[r].lid = slot[loc[r].l].pktid
  BY <1>1, <1>2 DEF Faithful, Finds, Bounded
<1>6. \A y : Sought(r, y)' <=> Sought(r, y)
  BY <1>1, <1>4 DEF Sought
<1>7. CASE pc[r] = "f_bisect"
  <2>1. /\ Middle(r) \in Nat /\ Middle(r) <= loc[r].high /\ loc[r].high \in Int
        /\ slot[loc[r].e].pktid \in Int
        /\ slot[Probe(r)].pktid = slot[loc[r].e].pktid + Middle(r)
        /\ \A y \in Offsets : Sought(r, y) =>
             /\ Dist(loc[r].e, y) \in Nat
             /\ loc[r].req = slot[loc[r].e].pktid + Dist(loc[r].e, y)
    BY <1>2, <1>7, ProbeFaithful
  <2>2. /\ loc[r].eid <= loc[r].lid /\ loc[r].high <= Dist(loc[r].e, loc[r].l)
        /\ \A y \in Offsets : Sought(r, y) =>
             loc[r].low <= Dist(loc[r].e, y) /\ Dist(loc[r].e, y) <= loc[r].high
    BY <1>1, <1>7 DEF Faithful
  <2>3. Dist(loc[r].e, loc[r].l) \in Nat
    BY <1>1, <1>5, LiveFacts
  <2>4. /\ loc'[r].high <= Dist(loc[r].e, loc[r].l)
        /\ \A y \in Offsets : Sought(r, y) =>
             loc'[r].low <= Dist(loc[r].e, y) /\ Dist(loc[r].e, y) <= loc'[r].high
    <3>1. CASE slot[Probe(r)].pktid < loc[r].req
      <4>1. loc'[r].low = Middle(r) + 1 /\ loc'[r].high = loc[r].high
        BY <1>1, <1>3, <1>7, <3>1 DEF LocType
      <4> QED
        BY <2>1, <2>2, <3>1, <4>1
    <3>2. CASE ~(slot[Probe(r)].pktid < loc[r].req)
      <4>1. loc'[r].low = loc[r].low /\ loc'[r].high = Middle(r) - 1
        BY <1>1, <1>3, <1>7, <3>2 DEF LocType
      <4>2. Middle(r) - 1 <= Dist(loc[r].e, loc[r].l)
        BY <2>1, <2>2, <2>3
      <4>3. ASSUME NEW y \in Offsets, Sought(r, y)
            PROVE  Dist(loc[r].e, y) <= Middle(r) - 1
        BY <1>2, <2>1, <3>2, <4>3
      <4> QED
        BY <2>2, <4>1, <4>2, <4>3
    <3> QED
      BY <3>1, <3>2
  <2> QED
    BY <1>1, <1>2, <1>4, <1>5, <1>6, <1>7, <2>2, <2>4 DEF Faithful, Dist
<1>8. CASE pc[r] = "f_scan"
  <2>1. /\ loc[r].at \in Offsets /\ Live(loc[r].at) /\ Probe(r) = loc[r].at
        /\ \A y \in Offsets : Sought(r, y) => Rank(y) <= Rank(loc[r].at)
    BY <1>1, <1>8 DEF Faithful, Probe, LocType
  <2>2. loc[r].at # loc[r].e
    BY <1>2, <1>8 DEF ScannedAll, Hit
  <2>3. loc'[r].at = PrevOffset(loc[r].at)
    BY <1>1, <1>3, <1>8 DEF LocType
  <2>4. /\ PrevOffset(loc[r].at) \in Offsets /\ NextOffset(PrevOffset(loc[r].at)) = loc[r].at
    BY <2>1, ReadersAssumption DEF PrevOffset, NextOffset, Offsets
  <2>5. /\ Rank(loc[r].e) < Rank(loc[r].at) /\ Rank(loc[r].at) \in Nat /\ Rank(loc[r].e) \in Nat
    BY <1>1, <1>5, <2>1, <2>2, LiveFacts DEF Live
  <2>6. Rank(loc[r].at) = Rank(PrevOffset(loc[r].at)) + 1
    <3>1. TargetOffset \in Offsets /\ Rank(loc[r].at) # 0
      BY <1>1, <2>5, WriterFacts, RankFacts DEF RingInv
    <3>2. loc[r].at # TargetOffset
      BY <1>1, <2>1, <3>1, WriterFacts, RankFacts DEF RingInv
    <3> QED
      BY <2>4, <3>1, <3>2, DistStep DEF Rank
  <2>7. Rank(PrevOffset(loc[r].at)) \in Nat
    BY <1>1, <2>4, LiveFacts
  <2>8. Live(PrevOffset(loc[r].at))
    BY <1>5, <2>4, <2>5, <2>6, <2>7 DEF Live
  <2>9. ASSUME NEW y \in Offsets, Sought(r, y)
        PROVE  Rank(y) <= Rank(PrevOffset(loc[r].at))
    <3>1. y # loc[r].at
      BY <1>2, <2>1, <2>9 DEF Sought
    <3>2. Rank(y) # Rank(loc[r].at) /\ Rank(y) \in Nat
      BY <1>1, <2>1, <3>1, LiveFacts
    <3> QED
      BY <2>1, <2>5, <2>6, <2>7, <2>9, <3>2
  <2>10. Live(loc[r].at)' /\ Rank(loc[r].at)' = Rank(PrevOffset(loc[r].at))
    BY <1>1, <2>3, <2>8
  <2>11. \A y \in Offsets : Sought(r, y)' => Rank(y)' <= Rank(loc[r].at)'
    BY <1>1, <1>6, <2>9, <2>10
  <2> QED
    BY <1>1, <1>2, <1>4, <1>5, <1>8, <2>10, <2>11 DEF Faithful
<1> QED
  BY <1>2, <1>7, <1>8

(* When the search fails the packet is not there.                          *)
LEMMA FailsFaithful ==
  ASSUME NEW r \in Readers, Frozen(r), FindFails(r), NEW y \in Offsets, Sought(r, y)
  PROVE  FALSE
<1>1. /\ OwnIds /\ RingInv /\ PositionInv /\ IdsInOrder /\ latestoffset >= 0 /\ Faithful(r)
      /\ loc[r] \in LocType
  BY DEF Frozen, RingInv, TypesOf
<1>2. /\ earliestoffset \in Offsets /\ latestoffset \in Offsets
      /\ slot[earliestoffset].pkttime \in Int /\ slot[earliestoffset].pkttime > 0
      /\ slot[latestoffset].pkttime \in Int /\ slot[latestoffset].pkttime > 0
  BY <1>1, EndsInOrder, SlotTimes, LatestStamped DEF RingInv
<1>3. CASE pc[r] = "f_latest" /\ (loc[r].e < 0 \/ latestoffset < 0)
  BY <1>1, <1>2, <1>3 DEF Faithful, Finds, Offsets
<1>4. CASE FCheckFails(r)
  <2>1. /\ pc[r] \in {"f_echeck", "f_lcheck"} /\ ptime[r] = slot[off[r]].pkttime
        /\ off[r] = earliestoffset \/ off[r] = latestoffset
    BY <1>1, <1>4 DEF FCheckFails, Faithful, Finds, Bounded
  <2> QED
    BY <1>2, <1>4, <2>1 DEF FCheckFails, Intact, NSTUNSET
<1>5. CASE OutOfRange(r)
  <2>1. /\ loc[r].eid = slot[earliestoffset].pktid /\ loc[r].lid = slot[latestoffset].pktid
        /\ loc[r].eid <= loc[r].lid
        /\ loc[r].req < loc[r].eid \/ loc[r].req > loc[r].lid
    BY <1>1, <1>5 DEF OutOfRange, Ascending, Faithful, Finds, Bounded
  <2>2. /\ Live(y) /\ Live(latestoffset) /\ Dist(earliestoffset, y) \in Nat
        /\ Dist(earliestoffset, latestoffset) \in Nat
        /\ Dist(earliestoffset, y) <= Dist(earliestoffset, latestoffset)
    BY <1>1, <1>2, LiveFacts DEF Sought
  <2>3. /\ loc[r].req = loc[r].eid + Dist(earliestoffset, y)
        /\ loc[r].lid = loc[r].eid + Dist(earliestoffset, latestoffset)
    BY <1>1, <1>2, <2>1, <2>2, IdsAscend DEF Sought
  <2>4. loc[r].eid \in Int
    BY <1>1, <1>2, <2>1, StampedId, ReadersAssumption
  <2> QED
    BY <2>1, <2>2, <2>3, <2>4
<1>6. CASE Exhausted(r)
  <2>1. /\ loc[r].low <= Dist(loc[r].e, y) /\ Dist(loc[r].e, y) <= loc[r].high
        /\ loc[r].low > loc[r].high /\ loc[r].e = earliestoffset
    BY <1>1, <1>6 DEF Exhausted, Faithful, Finds
  <2>2. Dist(loc[r].e, y) \in Nat /\ loc[r].low \in Int /\ loc[r].high \in Int
    BY <1>1, <2>1, LiveFacts DEF LocType
  <2> QED
    BY <2>1, <2>2
<1>7. CASE ScannedAll(r)
  <2>1. /\ loc[r].e = earliestoffset /\ loc[r].at = loc[r].e
        /\ slot[loc[r].at].pktid # loc[r].req /\ Rank(y) <= Rank(loc[r].at)
    BY <1>1, <1>7 DEF ScannedAll, Hit, Probe, Exhausted, Faithful, Finds
  <2>2. Rank(y) = Rank(earliestoffset)
    BY <1>1, <1>2, <2>1, LiveFacts DEF Sought, Live
  <2> QED
    BY <1>1, <1>2, <2>1, <2>2, LiveFacts DEF Sought
<1> QED
  BY <1>3, <1>4, <1>5, <1>6, <1>7 DEF FindFails


(* The search goes on.                                                     *)
LEMMA FindResume ==
  ASSUME OwnIds, IdsInOrder, NEW r \in Readers, Resuming(r),
         \/ FEarliest(r) \/ FLatest(r) \/ FSample(r) \/ FId(r)
         \/ FCheckEarliest(r) \/ FCheckLatest(r) \/ FMiss(r)
  PROVE  ResumeOf(r)'
<1>1. /\ RingInv /\ PositionInv /\ MoreDomains /\ ReaderDomains /\ UNCHANGED wvars
      /\ loc[r] \in LocType /\ Ready(r) /\ TypesOf(r) /\ LooksAtSlots(r)
  BY ReadyFacts, ReaderFacts DEF Resuming, RingInv
<1>2. /\ pc[r] \in Finds /\ pc'[r] \in Finds
      /\ op' = op /\ reader' = reader /\ from' = from
  <2>1. CASE FEarliest(r) \/ FLatest(r) \/ FCheckEarliest(r)
    BY <1>1, <2>1
       DEF FEarliest, FLatest, FCheckEarliest, FSampleNext, Goto, ReaderDomains, Finds
  <2>2. CASE FSample(r) \/ FId(r) \/ FCheckLatest(r) \/ FMiss(r)
    BY <1>1, <2>2 DEF FSample, FId, FCheckLatest, FMiss, Goto, ReaderDomains, Finds
  <2> QED
    BY <2>1, <2>2
<1>3. /\ loc'[r].lo = loc[r].lo /\ loc'[r].began = loc[r].began /\ loc'[r].eo = loc[r].eo
      /\ loc'[r].req = loc[r].req
  <2>1. CASE FEarliest(r) \/ FLatest(r) \/ FCheckEarliest(r) \/ FSample(r)
    BY <1>1, <2>1 DEF FEarliest, FLatest, FCheckEarliest, FSampleNext, FSample, MoreDomains,
                      LocType
  <2>2. CASE FId(r) \/ FCheckLatest(r)
    BY <1>1, <2>2 DEF FId, FCheckLatest, MoreDomains, LocType
  <2>3. CASE FMiss(r)
    <3>1. loc'[r] = IF pc[r] = "f_scan" THEN [loc[r] EXCEPT !.at = PrevOffset(loc[r].at)]
                    ELSE IF slot[Probe(r)].pktid < loc[r].req
                           THEN [loc[r] EXCEPT !.low = Middle(r) + 1]
                    ELSE [loc[r] EXCEPT !.high = Middle(r) - 1]
      BY <1>1, <2>3 DEF FMiss, MoreDomains
    <3> QED
      BY <1>1, <3>1 DEF LocType
  <2> QED
    BY <2>1, <2>2, <2>3
<1> SUFFICES ASSUME Aims(r)
             PROVE  ResumeOf(r)'
  BY <1>2 DEF ResumeOf, Aims
<1>4. reader[r] = from[r] /\ FallbackSafe(r) /\ loc[r].req = from[r].pktid
  BY <1>2 DEF Resuming, ResumeOf
<1>5. latestoffset >= 0
  BY <1>1, <1>2, InFind, ReadyFacts DEF Aims, Frame
<1>6. Faithful(r) /\ wpc = "idle" => Faithful(r)'
  <2> SUFFICES ASSUME Faithful(r), wpc = "idle"
               PROVE  Faithful(r)'
    OBVIOUS
  <2>1. Frozen(r)
    BY <1>1, <1>5 DEF Frozen
  <2> QED
    BY <1>1, <2>1, EndsFaithful, SearchFaithful, MissFaithful
<1>7. FallbackSafe(r)'
  BY <1>1, <1>3, <1>4, <1>6, RingSeen DEF FallbackSafe
<1>8. pc'[r] \notin {"rn_latest", "rn_sample", "idle"} /\ pc'[r] \notin Reading
  BY <1>2 DEF Finds, Reading
<1> QED
  BY <1>2, <1>3, <1>4, <1>7, <1>8 DEF ResumeOf

(* The packet ID is not found: the reader goes back to the earliest slot   *)
(* loaded, and misses nothing by it.                                       *)
LEMMA NotFoundResume ==
  ASSUME OwnIds, IdsInOrder, NEW r \in Readers, Resuming(r), RNNotFound(r)
  PROVE  ResumeOf(r)'
<1>1. /\ RingInv /\ PositionInv /\ ReaderDomains /\ UNCHANGED wvars
      /\ loc[r] \in LocType /\ Ready(r) /\ TypesOf(r) /\ LooksAtSlots(r)
  BY ReadyFacts, ReaderFacts DEF Resuming, RingInv
<1>2. FindFails(r) /\ pc[r] \in Finds /\ op' = op /\ from' = from /\ op[r] = "next"
  BY FailsInFind DEF RNNotFound
<1> SUFFICES ASSUME Aims(r)
             PROVE  ResumeOf(r)'
  BY <1>2 DEF ResumeOf, Aims
<1>3. FallbackSafe(r) /\ loc[r].req = from[r].pktid
  BY <1>2 DEF Resuming, ResumeOf
<1>4. latestoffset >= 0
  BY <1>1, <1>2, InFind, ReadyFacts DEF Frame
<1>5. CASE ReturnCode(r, RINGID_NONE)
  BY <1>1, <1>5, ReturnsCode, CodesAreNoIds, NothingResumed
<1>6. CASE /\ off' = [off EXCEPT ![r] = loc[r].eo]
           /\ Goto(r, "rn_sample")
           /\ UNCHANGED <<reader, rv, loc, ptime, buf, rtodo>>
  <2>1. pc'[r] = "rn_sample" /\ off'[r] = loc[r].eo /\ loc' = loc
    BY <1>1, <1>6 DEF Goto, ReaderDomains
  <2>2. loc[r].eo \in Offsets => StartsBefore(r, loc[r].eo)
    <3> SUFFICES ASSUME loc[r].eo \in Offsets
                 PROVE  StartsBefore(r, loc[r].eo)
      OBVIOUS
    <3>1. CASE Newer(loc[r].eo, slot[loc[r].lo].pkttime)
      BY <3>1 DEF StartsBefore
    <3>2. CASE Early(loc[r].eo)
      BY <1>1, <1>4, <3>2, EarliestStarts
    <3>3. CASE wpc = "idle" /\ Faithful(r)
      <4>1. Frozen(r)
        BY <1>1, <1>4, <3>3 DEF Frozen
      <4>2. ASSUME NEW q \in written, Wanted(r, q)
            PROVE  FALSE
        <5>1. /\ slot[earliestoffset].pkttime <= q.pkttime /\ q.pkttime \in Int /\ q.pkttime > 0
          BY <1>1, <1>4, <4>2, WantedLive, WriterFacts DEF StampsNamePackets
        <5>2. PICK y \in Offsets : slot[y] = q
          BY <1>1, <1>4, <4>2, <5>1, WantedLive
        <5>3. /\ earliestoffset \in Offsets /\ slot[earliestoffset].pkttime \in Int
              /\ Rank(y) \in Nat /\ Rank(earliestoffset) \in Nat
          BY <1>1, <1>4, LiveFacts, SlotTimes
        <5>4. ~(Rank(y) < Rank(earliestoffset))
          BY <1>1, <3>3, <5>1, <5>2, <5>3 DEF RingInv, OrderInv, RingOrder, Busy
        <5>5. Sought(r, y)
          BY <1>3, <4>2, <5>2, <5>3, <5>4 DEF Sought, Live, Wanted
        <5> QED
          BY <1>2, <4>1, <5>5, FailsFaithful
      <4> QED
        BY <4>2 DEF StartsBefore
    <3> QED
      BY <1>3, <3>1, <3>2, <3>3 DEF FallbackSafe
  <2>3. off'[r] \in Offsets => StartsBefore(r, off[r])'
    BY <1>1, <1>2, <2>1, <2>2, SeenFrom
  <2> QED
    BY <2>1, <2>3 DEF ResumeOf, Finds, Reading
<1> QED
  BY <1>5, <1>6 DEF RNNotFound, WaitAtLatest

(* A step inside a call is one of a reader that is in a call, and leaves   *)
(* the count of the writes the call began with.                            *)
LEMMA BeganStays ==
  ASSUME NEW r \in Readers, Ready(r), ReadStep(r)
  PROVE  pc[r] # "idle" /\ (pc'[r] # "idle" => loc'[r].began = loc[r].began)
<1>1. /\ MoreDomains /\ ReaderDomains /\ loc[r] \in LocType
      /\ TypesOf(r) /\ op[r] \notin {"position", "read"}
  BY ReadyFacts, ReaderFacts DEF RingInv, Frame
<1>2. ASSUME NEW id, NEW pkt, Return(r, id, pkt)
      PROVE  pc'[r] = "idle"
  BY <1>1, <1>2 DEF Return, Goto, ReaderDomains
<1>3. \A id : ReturnCode(r, id) => pc'[r] = "idle"
  BY <1>2 DEF ReturnCode
<1>4. CASE \E f \in Whole : CopyField(r, f)
  BY <1>4 DEF CopyField
<1>5. CASE \/ RPSample(r) \/ RNLapped(r) \/ RNPosition(r) \/ RNMatch(r) \/ Found(r)
  BY <1>5 DEF RPSample, RNLapped, RNPosition, RNMatch, Found, Hit
<1>6. CASE \/ FEarliest(r) \/ FLatest(r) \/ FCheckEarliest(r) \/ FSample(r)
  BY <1>1, <1>6 DEF FEarliest, FLatest, FCheckEarliest, FSampleNext, FSample, MoreDomains,
                    LocType
<1>7. CASE FId(r) \/ FCheckLatest(r) \/ RNLatest(r) \/ RNSample(r)
  BY <1>1, <1>7 DEF FId, FCheckLatest, RNLatest, RNSample, MoreDomains, LocType
<1>8. CASE FMiss(r)
  <2>1. loc'[r] = IF pc[r] = "f_scan" THEN [loc[r] EXCEPT !.at = PrevOffset(loc[r].at)]
                  ELSE IF slot[Probe(r)].pktid < loc[r].req
                         THEN [loc[r] EXCEPT !.low = Middle(r) + 1]
                  ELSE [loc[r] EXCEPT !.high = Middle(r) - 1]
    BY <1>1, <1>8 DEF FMiss, MoreDomains
  <2> QED
    BY <1>1, <1>8, <2>1 DEF FMiss, LocType
<1>9. CASE RPNone(r) \/ RNEmpty(r) \/ RNCaughtUp(r)
  BY <1>3, <1>9 DEF RPNone, RNEmpty, RNCaughtUp
<1>10. CASE RNBegin(r)
  <2>1. pc[r] # "idle"
    BY <1>10 DEF RNBegin, RPDone
  <2>2. \/ loc' = [loc EXCEPT ![r].latestid = buf[r].pktid, ![r].latesttime = buf[r].pkttime]
        \/ loc' = [loc EXCEPT ![r].latestid = buf[r].pktid, ![r].latesttime = buf[r].pkttime,
                              ![r].req = reader[r].pktid]
        \/ pc'[r] = "idle"
    BY <1>3, <1>10 DEF RNBegin, WaitAtLatest
  <2> QED
    BY <1>1, <2>1, <2>2 DEF MoreDomains, LocType
<1>11. CASE RNNotFound(r)
  <2>1. pc[r] \in Finds
    BY <1>11, FailsInFind DEF RNNotFound
  <2> QED
    BY <1>3, <1>11, <2>1 DEF RNNotFound, WaitAtLatest, Finds
<1>12. CASE RNReposition(r) \/ RNWild(r) \/ RNSkip(r) \/ RNReturn(r)
  <2>1. CASE RNReposition(r)
    BY <1>1, <1>3, <2>1 DEF RNReposition, MoreDomains, LocType
  <2>2. CASE RNWild(r)
    BY <1>2, <2>2 DEF RNWild, locals
  <2>3. CASE RNSkip(r) \/ RNReturn(r)
    BY <1>2, <1>3, <2>3 DEF RNSkip, RNReturn
  <2> QED
    BY <1>12, <2>1, <2>2, <2>3
<1>13. CASE PBDone(r)
  <2>1. pc'[r] = "idle"
    BY <1>3, <1>13 DEF PBDone
  <2>2. FindFails(r) => pc[r] \in Finds
    BY FailsInFind
  <2> QED
    BY <1>13, <2>1, <2>2 DEF PBDone, RPDone, Hit, Finds
<1>14. ~(PSResolved(r) \/ PSTime(r) \/ PSCheck(r) \/ RDReturn(r) \/ NotFound(r))
  BY <1>1 DEF PSResolved, PSTime, PSCheck, RDReturn, NotFound, TypesOf
<1> QED
  BY <1>4, <1>5, <1>6, <1>7, <1>8, <1>9, <1>10, <1>11, <1>12, <1>13, <1>14 DEF ReadStep

(* Every step of a reader.                                                 *)
LEMMA StepResume ==
  ASSUME RelativeOnly, OwnIds, IdsInOrder, NEW r \in Readers, Ready(r),
         pc[r] # "idle" => ResumeOf(r), DOMAIN from = Readers,
         ReadStep(r) \/ CallReadNext(r) \/ ClientCommand(r)
  PROVE  ResumeOf(r)'
<1>1. CASE CallReadNext(r)
  BY <1>1, CallResume
<1>2. CASE ClientCommand(r)
  <2>1. \A id, time : ~CallPosition(r, id, time) /\ ~CallRead(r, id)
    BY DEF CallPosition, CallRead, Command, RelativeOnly
  <2>2. \E id : CallPositionBefore(r, id)
    BY <1>2, <2>1 DEF ClientCommand
  <2> QED
    BY <2>2, BeforeResume
<1>3. CASE ReadStep(r)
  <2>1. /\ TypesOf(r) /\ op[r] \notin {"position", "read"} /\ Resuming(r)
    BY <1>3, ReadyFacts, BeganStays DEF Resuming, Frame
  <2>2. CASE \E f \in Whole : CopyField(r, f)
    BY <2>1, <2>2, StaysResuming DEF CopyField
  <2>3. CASE \/ FEarliest(r) \/ FLatest(r) \/ FSample(r) \/ FId(r)
             \/ FCheckEarliest(r) \/ FCheckLatest(r) \/ FMiss(r)
    BY <2>1, <2>3, FindResume
  <2>4. CASE RPSample(r) \/ RPNone(r) \/ RNEmpty(r) \/ RNCaughtUp(r) \/ RNLatest(r) \/ RNBegin(r)
    BY <2>1, <2>4, BeginResume, NoneResume, LatestResume
  <2>5. CASE \/ Found(r) \/ RNNotFound(r) \/ RNSample(r) \/ RNLapped(r) \/ RNReposition(r)
             \/ RNWild(r)
    BY <2>1, <2>5, FoundResume, NotFoundResume, SampleResume, WildResume, RepositionResume
  <2>6. CASE RNPosition(r) \/ RNMatch(r) \/ RNSkip(r) \/ RNReturn(r) \/ PBDone(r)
    BY <2>1, <2>6, PositionResume, SkipResume, ReturnResume, BeforeResume
  <2>7. ~(PSResolved(r) \/ PSTime(r) \/ PSCheck(r) \/ RDReturn(r) \/ NotFound(r))
    BY <2>1 DEF PSResolved, PSTime, PSCheck, RDReturn, NotFound, TypesOf
  <2> QED
    BY <1>3, <2>2, <2>3, <2>4, <2>5, <2>6, <2>7 DEF ReadStep
<1> QED
  BY <1>1, <1>2, <1>3

(* The invariant that says, for a reader that resumes at a packet ID, how  *)
(* far the search and the walk have come and that neither has passed the   *)
(* packet asked for: in every call during which at most one write has      *)
(* begun, the ring numbering its packets.                                  *)
THEOREM ResumeInvariant ==
  ASSUME SlowWriter, RelativeOnly, OwnIds
  PROVE  Spec => []ResumeInv
<1>1. Init => ResumeInv
  BY DEF Init, ResumeInv, InTime
<1>2. /\ ResumeInv /\ DeliveryInv /\ PositionInv /\ PositionInv' /\ OrderInv /\ OrderInv'
      /\ IdsInOrder /\ [Next]_vars
      => ResumeInv'
  <2> SUFFICES ASSUME ResumeInv, DeliveryInv, PositionInv, PositionInv', OrderInv, OrderInv',
                      IdsInOrder, [Next]_vars
               PROVE  ResumeInv'
    OBVIOUS
  <2>1. RingInv /\ RingInv' /\ DOMAIN from = Readers
    BY DEF RingInv, DeliveryInv
  <2>2. \A r \in Readers : (InTime(r) => ResumeOf(r)) /\ DeliveryOf(r) /\ TypesOf(r)
    BY ReaderFacts DEF DeliveryInv, ResumeInv
  <2>3. CASE Write \/ Writing
    <3>1. WriterStep /\ UNCHANGED rvars
      BY <2>3, WriterSteps
    <3>2. WriterMoves
      BY <2>1, <3>1 DEF WriterMoves, rvars, locals
    <3>3. last_pkttime \in Nat /\ (last_pkttime' = last_pkttime \/ last_pkttime' = last_pkttime + 1)
      BY <2>1, <3>1, WriterFacts
         DEF RingInv, WriterStep, Begins, Fills, Publishes, SetsEarliest, Commit
    <3>4. ASSUME NEW r \in Readers, InTime(r)'
          PROVE  ResumeOf(r)'
      <4>1. pc' = pc /\ loc' = loc /\ last_pkttime' - loc[r].began <= 1 /\ loc[r].began \in Nat
        BY <2>2, <3>2, <3>4 DEF WriterMoves, InTime, TypesOf, LocType
      <4>2. InTime(r)
        BY <3>3, <3>4, <4>1 DEF InTime
      <4> QED
        BY <2>2, <3>2, <4>1, <4>2, WriterResume
    <3> QED
      BY <3>4 DEF ResumeInv
  <2>4. ASSUME UNCHANGED wvars
        PROVE  last_pkttime' = last_pkttime /\ \A r \in Readers : Ready(r)
    BY <2>1, <2>2, <2>4 DEF Ready, wvars
  <2>5. ASSUME NEW q \in Readers, UNCHANGED wvars, InTime(q)', pc'[q] = pc[q], op'[q] = op[q],
               reader'[q] = reader[q], loc'[q] = loc[q], off'[q] = off[q], ptime'[q] = ptime[q],
               rv'[q] = rv[q], from'[q] = from[q]
        PROVE  ResumeOf(q)'
    BY <2>2, <2>4, <2>5, StaysResuming DEF Resuming, InTime
  <2>6. ASSUME NEW r \in Readers, ReadStep(r) \/ CallReadNext(r) \/ ClientCommand(r)
        PROVE  ResumeInv'
    <3>1. UNCHANGED wvars
      BY <2>6, ReaderLeavesRing
    <3>2. InTime(r)' => ResumeOf(r)'
      <4>1. CASE ReadStep(r)
        <5> SUFFICES ASSUME InTime(r)'
                     PROVE  ResumeOf(r)'
          OBVIOUS
        <5>1. InTime(r)
          BY <2>4, <3>1, <4>1, BeganStays DEF InTime
        <5> QED
          BY <2>1, <2>2, <2>4, <3>1, <4>1, <5>1, StepResume
      <4>2. CASE CallReadNext(r) \/ ClientCommand(r)
        <5>1. pc[r] = "idle"
          BY <4>2 DEF CallReadNext, ClientCommand, CallPosition, CallPositionBefore, CallRead,
                      Command
        <5> QED
          BY <2>1, <2>4, <3>1, <4>2, <5>1, StepResume
      <4> QED
        BY <2>6, <4>1, <4>2
    <3>3. ASSUME NEW q \in Readers, q # r, InTime(q)'
          PROVE  ResumeOf(q)'
      BY <2>1, <2>5, <2>6, <3>1, <3>3, OthersStay
    <3> QED
      BY <3>2, <3>3 DEF ResumeInv
  <2>7. CASE UNCHANGED vars
    <3>1. UNCHANGED wvars /\ UNCHANGED <<pc, op, reader, loc, off, ptime, rv, from>>
      BY <2>7 DEF vars, rvars, locals
    <3> QED
      BY <2>5, <3>1 DEF ResumeInv
  <2> QED
    BY <2>3, <2>6, <2>7 DEF Next
<1> QED
  BY <1>1, <1>2, PositionInvariant, OrderInvariant, DeliveryInvariant, NumbersInvariant, PTL
     DEF Spec

(* A client that resumes at a packet ID loses nothing: as long as the      *)
(* packet is in the ring and at most one write began during the call,      *)
(* RingReadNext() after RingPositionBefore() passes over no packet from    *)
(* that one on that the client selects.                                    *)
THEOREM ResumeSkipsNothing ==
  ASSUME SlowWriter, RelativeOnly, OwnIds
  PROVE  Spec => BeforeSkipsNothing
<1> DEFINE Step == \A r \in Readers, q \in written :
                     pc[r] # "idle" /\ last_pkttime - loc[r].began <= 1 /\ ReadFromBefore(r, q)' =>
                       SkippedNone(r, q)'
<1>1. /\ ResumeInv /\ DeliveryInv /\ PositionInv /\ PositionInv' /\ OrderInv /\ IdsInOrder
      /\ ValidIds' /\ [Next]_vars
      => [Step]_vars
  <2> SUFFICES ASSUME ResumeInv, DeliveryInv, PositionInv, PositionInv', OrderInv, IdsInOrder,
                      ValidIds', Next, NEW r \in Readers, NEW q \in written, InTime(r),
                      ReadFromBefore(r, q)', NEW p \in After(q.pkttime - 1)',
                      p.pkttime < rv'[r].pkt.pkttime
               PROVE  p.streamid \notin Selected[r]
    BY DEF SkippedNone, InTime
  <2>1. RingInv /\ DOMAIN from = Readers /\ DeliveryOf(r) /\ TypesOf(r) /\ ResumeOf(r)
    BY ReaderFacts DEF RingInv, DeliveryInv, ResumeInv
  <2>2. pc[r] # "idle" /\ pc'[r] = "idle"
    BY DEF InTime, ReadFromBefore, Returned
  <2>3. ReadStep(r)
    <3>1. ~(Write \/ Writing)
      BY <2>2, WriterSteps DEF rvars
    <3>2. ASSUME NEW x \in Readers, ReadStep(x) \/ CallReadNext(x) \/ ClientCommand(x)
          PROVE  x = r
      BY <2>1, <2>2, <3>2, ReaderLeavesRing, OthersStay
    <3>3. ~(CallReadNext(r) \/ ClientCommand(r))
      BY <2>2 DEF CallReadNext, ClientCommand, CallPosition, CallPositionBefore, CallRead, Command
    <3> QED
      BY <3>1, <3>2, <3>3 DEF Next
  <2>4. UNCHANGED wvars
    BY <2>3, ReaderLeavesRing
  <2>5. ResumeOf(r)'
    BY <2>1, <2>3, <2>4, StepResume DEF Ready
  <2>6. p \in written' /\ p.pkttime \in Int /\ q.pkttime \in Int /\ q.pkttime <= p.pkttime
    BY <2>4, WriterFacts DEF After, StampsNamePackets, wvars
  <2>7. Aims(r)' /\ Wanted(r, q)'
    BY <2>4 DEF ReadFromBefore, Returned, Aims, Wanted, ValidIds, wvars
  <2>8. PassedBy(r, rv[r].pkt.pkttime)'
    BY <2>2, <2>5, <2>7 DEF ResumeOf, ReadFromBefore
  <2>9. \A a, b \in written' :
          Wanted(r, a)' /\ a.pkttime <= b.pkttime /\ b.pkttime < rv'[r].pkt.pkttime =>
            b.streamid \notin Selected[r]
    BY <2>8 DEF PassedBy
  <2>10. q \in written'
    BY <2>4 DEF wvars
  <2> QED
    BY <2>6, <2>7, <2>9, <2>10
<1>2. Spec => [][Step]_vars
  BY <1>1, ResumeInvariant, DeliveryInvariant, PositionInvariant, OrderInvariant,
     NumbersInvariant, IdsInvariant, PTL DEF Spec
<1> QED
  BY <1>2 DEF BeforeSkipsNothing

=============================================================================
