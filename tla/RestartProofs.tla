----------------------------- MODULE RestartProofs -----------------------------
(***************************************************************************)
(* A server that starts on files of an orderly shutdown works on a ring    *)
(* whose index, links, count and stamps are right, and that holds the      *)
(* packets saved; a buffer with other parameters is loaded packet by       *)
(* packet.  For any number of slots, streams and restarts.                 *)
(***************************************************************************)
EXTENDS RingRestart, RingProofs

\* The ring's part of the types: as of module Ring, with the blank stream of
\* slots never written.
RingTypes ==
  /\ slot \in [Offsets -> Packet]
  /\ earliestoffset \in Offsets \cup {-1} /\ latestoffset \in Offsets \cup {-1}
  /\ streamidx \in [DOMAIN streamidx -> RingStream]
  /\ DOMAIN streamidx \subseteq Streams \cup {NoStream}
  /\ streamcount \in Nat /\ last_pkttime \in 0 .. MaxTime

\* The rest of the types.
ServerTypes ==
  /\ server \in {"down", "moved", "cleared", "opening", "loading", "up",
                 "closing_index", "closing_ring"}
  /\ config \in Configs
  /\ IsFile(ringfile) /\ IsFile(backup)
  /\ streamfile \in [DOMAIN streamfile -> RingStream]
  /\ DOMAIN streamfile \subseteq Streams \cup {NoStream}
  /\ convert \in BOOLEAN
  /\ loadoffset \in -1 .. BackupSlots - 1
  /\ load \in [kept : Seq(Nat), skips : Nat]
  /\ marks \in MarksType

-----------------------------------------------------------------------------
(* Soundness in ring order, of a buffer sl whose earliest packet is at e   *)
(* and whose packets are in the slots S.                                   *)

First(e, o, T) == o \in T /\ \A p \in T : RankFrom(e, o) <= RankFrom(e, p)
Last(e, o, T)  == o \in T /\ \A p \in T : RankFrom(e, p) <= RankFrom(e, o)

OfStream(sl, S, s) == {o \in S : sl[o].streamid = s}

\* The entries of idx are those of the streams in S.
IndexSound(sl, e, S, idx) ==
  /\ DOMAIN idx = {sl[o].streamid : o \in S}
  /\ \A s \in DOMAIN idx :
       /\ First(e, idx[s].earliestoffset, OfStream(sl, S, s))
       /\ Last(e, idx[s].latestoffset, OfStream(sl, S, s))
       /\ idx[s].earliestid = sl[idx[s].earliestoffset].pktid
       /\ idx[s].latestid = sl[idx[s].latestoffset].pktid

\* The packets of S in o's stream that follow o.
After(sl, e, S, o) ==
  {p \in OfStream(sl, S, sl[o].streamid) : RankFrom(e, o) < RankFrom(e, p)}

LinksSound(sl, e, S) ==
  \A o \in S : IF After(sl, e, S, o) = {}
                THEN sl[o].nextinstream = -1
                ELSE First(e, sl[o].nextinstream, After(sl, e, S, o))

Increase(sl, e, S) ==
  \A o, p \in S : RankFrom(e, o) < RankFrom(e, p) => sl[o].pkttime < sl[p].pkttime

\* What the marks m of a buffer with packets from e to l vouch for.
Good(m, sl, e, l, idx) ==
  /\ "torn" \notin m => IndexSound(sl, e, Between(e, l), idx) /\ LinksSound(sl, e, Between(e, l))
  /\ m = {} => Increase(sl, e, Between(e, l))

RingGood ==
  server # "down" => Good(marks.ring, slot, earliestoffset, latestoffset, streamidx)

\* Unless they are being replaced, the files are what the last orderly
\* RingShutdown() wrote.
FilesGood ==
  LET hd == ringfile.header
  IN  server \notin {"closing_index", "closing_ring"} /\ hd.version = RING_VERSION
        /\ hd.params = Mine =>
        /\ Good(marks.files, ringfile.slot, hd.earliestoffset, hd.latestoffset, streamfile)
        /\ "torn" \notin marks.files =>
             PacketsOfBuffer(MaxPackets, ringfile.slot, hd.earliestoffset, hd.latestoffset) = saved

\* RingShutdown() wrote the index, now it writes the buffer.
IndexSaved == server = "closing_ring" /\ "torn" \notin marks.ring => streamfile = streamidx

\* LoadBufferV3() is in its loop: the packets before loadoffset were visited,
\* and the ring holds the newest of those it copied.
Visiting ==
  LET e == backup.header.earliestoffset
      l == backup.header.latestoffset
  IN  /\ e \in 0 .. BackupSlots - 1 /\ l \in 0 .. BackupSlots - 1
      /\ LoadPlace - 1 <= PlacesOf(BackupSlots, e, l)
      /\ \A i \in 1 .. Len(load.kept) : load.kept[i] < LoadPlace
      /\ VisitedInOrder
      /\ RingPackets = NewestLoaded

\* It starts on an empty ring.
Loading ==
  /\ server = "opening" => earliestoffset = -1 /\ latestoffset = -1
  /\ server = "loading" /\ loadoffset >= 0 => Visiting

\* The buffer file is out of the way.
Cleared == server \in {"moved", "cleared"} => ringfile = NoFile

(* The inductive invariant: the ring read from files is sound because the  *)
(* files are, and they are because the ring they were written from was.    *)
RInv ==
  /\ RingTypes
  /\ ServerTypes
  /\ EndsAgree /\ HeaderEnds(ringfile.header) /\ HeaderEnds(backup.header)
  /\ CountAgrees
  /\ RingGood
  /\ FilesGood
  /\ IndexSaved
  /\ Loading
  /\ Cleared

-----------------------------------------------------------------------------
(* The order of the slots.                                                 *)

(* Counted from slot e, the slots have different places, e the first.      *)
LEMMA RankOrder ==
  ASSUME NEW e \in Offsets
  PROVE  /\ \A i \in Offsets : RankFrom(e, i) \in Offsets
         /\ RankFrom(e, e) = 0
         /\ \A i \in Offsets : i # e => 0 < RankFrom(e, i)
         /\ \A i \in Offsets : RankFrom(e, i) <= RankFrom(e, e) => i = e
         /\ \A i, j \in Offsets : RankFrom(e, i) = RankFrom(e, j) => i = j
BY RingAssumption DEF RankFrom, Offsets

(* Counted from the slot after e, every other slot is one place nearer.    *)
LEMMA ShiftRank ==
  ASSUME NEW e \in Offsets, NEW i \in Offsets, i # e
  PROVE  RankFrom(NextOffset(e), i) = RankFrom(e, i) - 1
BY RingAssumption DEF RankFrom, Offsets, NextOffset

(* The first and last of some slots stay so when counted from the slot     *)
(* after e.                                                                *)
LEMMA ShiftEnds ==
  ASSUME NEW e \in Offsets, NEW T \in SUBSET (Offsets \ {e}), NEW o
  PROVE  /\ First(e, o, T) <=> First(NextOffset(e), o, T)
         /\ Last(e, o, T) <=> Last(NextOffset(e), o, T)
<1>1. \A i \in T : RankFrom(e, i) \in Int /\ RankFrom(NextOffset(e), i) = RankFrom(e, i) - 1
  BY ShiftRank, RankOrder DEF Offsets
<1> QED
  BY <1>1 DEF First, Last

(* Without the first packet the links of the others are right.             *)
LEMMA ShiftLinks ==
  ASSUME NEW sl, NEW e \in Offsets, NEW S \in SUBSET Offsets, LinksSound(sl, e, S)
  PROVE  LinksSound(sl, NextOffset(e), S \ {e})
<1> DEFINE K == S \ {e}
<1>1. ASSUME NEW o \in K
      PROVE  After(sl, NextOffset(e), K, o) = After(sl, e, S, o)
  <2>1. \A p \in K : RankFrom(e, o) < RankFrom(e, p)
                       <=> RankFrom(NextOffset(e), o) < RankFrom(NextOffset(e), p)
    <3>1. \A i \in K : RankFrom(e, i) \in Int
                        /\ RankFrom(NextOffset(e), i) = RankFrom(e, i) - 1
      BY ShiftRank, RankOrder DEF Offsets
    <3> QED
      BY <3>1
  <2>2. ~(RankFrom(e, o) < RankFrom(e, e))
    BY RankOrder DEF Offsets
  <2> QED
    BY <2>1, <2>2 DEF After, OfStream
<1>2. ASSUME NEW o \in K
      PROVE  IF After(sl, NextOffset(e), K, o) = {}
               THEN sl[o].nextinstream = -1
               ELSE First(NextOffset(e), sl[o].nextinstream, After(sl, NextOffset(e), K, o))
  <2>1. IF After(sl, e, S, o) = {}
          THEN sl[o].nextinstream = -1
          ELSE First(e, sl[o].nextinstream, After(sl, e, S, o))
    BY DEF LinksSound
  <2>2. After(sl, NextOffset(e), K, o) \in SUBSET (Offsets \ {e})
    BY DEF After, OfStream
  <2>3. First(e, sl[o].nextinstream, After(sl, NextOffset(e), K, o))
          <=> First(NextOffset(e), sl[o].nextinstream, After(sl, NextOffset(e), K, o))
    BY <2>2, ShiftEnds
  <2> QED
    BY <1>1, <2>1, <2>3
<1> QED
  BY <1>2 DEF LinksSound

-----------------------------------------------------------------------------
(* Making room in the ring, be it torn or sound.                           *)

(* The index keeps its types and the count its size.                       *)
LEMMA TrimmedTyped ==
  ASSUME RingTypes, CountAgrees, ~Orphaned
  PROVE  /\ TrimmedIndex \in [DOMAIN TrimmedIndex -> RingStream]
         /\ DOMAIN TrimmedIndex \subseteq Streams \cup {NoStream}
         /\ IsFiniteSet(DOMAIN TrimmedIndex)
         /\ TrimmedCount = Cardinality(DOMAIN TrimmedIndex)
<1>0. IsFiniteSet(Streams \cup {NoStream})
  BY FS_AddElement, RingAssumption
<1>1. /\ streamidx \in [DOMAIN streamidx -> RingStream]
      /\ DOMAIN streamidx \subseteq Streams \cup {NoStream}
      /\ IsFiniteSet(DOMAIN streamidx)
      /\ streamcount = Cardinality(DOMAIN streamidx)
  BY <1>0, FS_Subset DEF RingTypes, CountAgrees
<1>2. CASE ~Full
  BY <1>1, <1>2 DEF TrimmedIndex, TrimmedCount
<1>3. CASE Full
  <2> DEFINE sid == slot[earliestoffset].streamid
             nis == slot[earliestoffset].nextinstream
  <2>1. sid \in DOMAIN streamidx
    BY <1>3 DEF Orphaned
  <2>2. CASE OnlyPacket
    <3>1. TrimmedIndex = [s \in DOMAIN streamidx \ {sid} |-> streamidx[s]]
      BY <1>3, <2>2 DEF TrimmedIndex, IndexAfterRemoval
    <3>2. TrimmedCount = streamcount - 1
      BY <1>3, <2>2 DEF TrimmedCount
    <3> HIDE DEF sid
    <3>3. /\ IsFiniteSet(DOMAIN streamidx \ {sid})
          /\ Cardinality(DOMAIN streamidx \ {sid}) = streamcount - 1
      BY <1>1, <2>1, FS_RemoveElement
    <3>4. TrimmedIndex \in [DOMAIN streamidx \ {sid} -> RingStream]
      BY <1>1, <3>1
    <3> QED
      BY <1>1, <3>1, <3>2, <3>3, <3>4
  <2>3. CASE ~OnlyPacket
    <3>1. TrimmedCount = streamcount
      BY <2>3 DEF TrimmedCount
    <3>2. CASE nis < 0
      <4>1. TrimmedIndex = streamidx
        <5>1. ~(nis >= 0)
          BY <1>3, <3>2 DEF RingTypes, Full, Packet, Offsets
        <5> QED
          BY <1>3, <2>3, <5>1 DEF TrimmedIndex, IndexAfterRemoval
      <4> QED
        BY <1>1, <3>1, <4>1
    <3>3. CASE nis >= 0
      <4>1. TrimmedIndex = [streamidx EXCEPT ![sid].earliestptime  = slot[nis].pkttime,
                                             ![sid].earliestid     = slot[nis].pktid,
                                             ![sid].earliestoffset = nis]
        BY <1>3, <2>3, <3>3 DEF TrimmedIndex, IndexAfterRemoval
      <4>2. nis \in Offsets
        BY <1>3, <3>3 DEF RingTypes, Full, Packet, Offsets
      <4>3. slot[nis] \in Packet
        BY <4>2 DEF RingTypes
      <4> HIDE DEF sid, nis
      <4>4. streamidx[sid] \in RingStream
        BY <1>1, <2>1
      <4>5. [streamidx[sid] EXCEPT !.earliestptime  = slot[nis].pkttime,
                                   !.earliestid     = slot[nis].pktid,
                                   !.earliestoffset = nis] \in RingStream
        BY <4>2, <4>3, <4>4 DEF RingStream, Packet
      <4>6. TrimmedIndex \in [DOMAIN streamidx -> RingStream]
        BY <1>1, <2>1, <4>1, <4>5
      <4> QED
        BY <1>1, <3>1, <4>6
    <3>4. nis < 0 \/ nis >= 0
      BY <1>3 DEF RingTypes, Full, Packet, Offsets
    <3> QED
      BY <3>2, <3>3, <3>4
  <2> QED
    BY <2>2, <2>3
<1> QED
  BY <1>2, <1>3

\* The ring is sound in ring order.
Sound == IndexSound(slot, earliestoffset, Live, streamidx) /\ LinksSound(slot, earliestoffset, Live)

(* The ring without the packet evicted is sound.                           *)
LEMMA TrimmedSound ==
  ASSUME RingTypes, EndsAgree, Sound, latestoffset >= 0
  PROVE  /\ ~Orphaned
         /\ IndexSound(slot, TrimmedEarliest, Kept, TrimmedIndex)
         /\ LinksSound(slot, TrimmedEarliest, Kept)
<1>1. earliestoffset \in Offsets /\ latestoffset \in Offsets
  BY DEF RingTypes, EndsAgree, Offsets
<1>2. Live \subseteq Offsets /\ earliestoffset \in Live
  BY <1>1, BetweenMember DEF Live, Offsets
<1>3. CASE ~Full
  BY <1>3 DEF Orphaned, TrimmedEarliest, TrimmedIndex, Kept, Sound
<1>4. CASE Full
  <2> DEFINE e   == earliestoffset
             f   == NextOffset(e)
             sid == slot[e].streamid
             st  == streamidx[sid]
             nis == slot[e].nextinstream
             T   == OfStream(slot, Live, sid)
  <2>1. TrimmedEarliest = f /\ Kept = Live \ {e}
    BY <1>4 DEF TrimmedEarliest, Kept
  <2>2. LinksSound(slot, TrimmedEarliest, Kept)
    BY <1>1, <1>2, <2>1, ShiftLinks DEF Sound
  <2>3. IndexSound(slot, e, Live, streamidx)
    BY DEF Sound
  <2>4. sid \in DOMAIN streamidx /\ e \in T
    BY <1>2, <2>3 DEF IndexSound, OfStream
  <2>5. ~Orphaned
    BY <2>4 DEF Orphaned
  <2>6. /\ First(e, st.earliestoffset, T) /\ Last(e, st.latestoffset, T)
        /\ st.earliestid = slot[st.earliestoffset].pktid
        /\ st.latestid = slot[st.latestoffset].pktid
    BY <2>3, <2>4 DEF IndexSound
  <2>7. T \subseteq Offsets /\ T \subseteq Live
    BY <1>2 DEF OfStream
  <2>8. OfStream(slot, Kept, sid) = T \ {e}
    BY <2>1 DEF OfStream
  <2>9. \A s : s # sid => OfStream(slot, Kept, s) = OfStream(slot, Live, s)
    BY <2>1 DEF OfStream
  <2>10. \A s : OfStream(slot, Kept, s) \in SUBSET (Offsets \ {e})
    BY <1>2, <2>1 DEF OfStream
  <2>11. st.earliestoffset = e
    <3>1. st.earliestoffset \in Offsets /\ RankFrom(e, st.earliestoffset) <= RankFrom(e, e)
      BY <2>4, <2>6, <2>7 DEF First
    <3> QED
      BY <1>1, <3>1, RankOrder
  <2>12. OnlyPacket <=> st.latestoffset = e
    BY <2>11 DEF OnlyPacket
  <2>13. \A s \in DOMAIN streamidx : s # sid =>
           /\ First(f, streamidx[s].earliestoffset, OfStream(slot, Kept, s))
           /\ Last(f, streamidx[s].latestoffset, OfStream(slot, Kept, s))
           /\ streamidx[s].earliestid = slot[streamidx[s].earliestoffset].pktid
           /\ streamidx[s].latestid = slot[streamidx[s].latestoffset].pktid
    BY <1>1, <2>3, <2>9, <2>10, ShiftEnds DEF IndexSound
  <2>14. DOMAIN streamidx \ {sid} = {slot[o].streamid : o \in Live \ T}
    BY <2>3 DEF IndexSound, OfStream
  <2>15. CASE OnlyPacket
    <3>1. TrimmedIndex = [s \in DOMAIN streamidx \ {sid} |-> streamidx[s]]
      BY <1>4, <2>15 DEF TrimmedIndex, IndexAfterRemoval
    <3>2. T = {e}
      <4>1. \A p \in T : RankFrom(e, p) <= RankFrom(e, e)
        BY <2>6, <2>12, <2>15 DEF Last
      <4> QED
        BY <1>1, <2>4, <2>7, <4>1, RankOrder
    <3> HIDE DEF sid, e, f, T
    <3>3. DOMAIN TrimmedIndex = {slot[o].streamid : o \in Kept}
      BY <2>1, <2>14, <3>1, <3>2
    <3>4. \A s \in DOMAIN TrimmedIndex :
            s # sid /\ s \in DOMAIN streamidx /\ TrimmedIndex[s] = streamidx[s]
      BY <3>1
    <3>5. IndexSound(slot, f, Kept, TrimmedIndex)
      BY <2>13, <3>3, <3>4 DEF IndexSound
    <3> QED
      BY <2>1, <2>2, <2>5, <3>5
  <2>16. CASE ~OnlyPacket
    <3>1. After(slot, e, Live, e) = T \ {e}
      BY <1>1, <2>7, RankOrder DEF After, OfStream
    <3>2. st.latestoffset \in T \ {e}
      BY <2>6, <2>12, <2>16 DEF Last
    <3>3. First(e, nis, T \ {e})
      BY <1>2, <3>1, <3>2 DEF Sound, LinksSound
    <3>4. nis \in Offsets
      BY <2>7, <3>3 DEF First
    <3>5. TrimmedIndex = [streamidx EXCEPT ![sid].earliestptime  = slot[nis].pkttime,
                                           ![sid].earliestid     = slot[nis].pktid,
                                           ![sid].earliestoffset = nis]
      BY <1>4, <2>16, <3>4 DEF TrimmedIndex, IndexAfterRemoval, Offsets
    <3>6. Last(e, st.latestoffset, T \ {e})
      BY <2>6, <3>2 DEF Last
    <3>7. First(f, nis, T \ {e}) /\ Last(f, st.latestoffset, T \ {e})
      BY <1>1, <2>7, <3>3, <3>6, ShiftEnds
    <3>8. DOMAIN streamidx = {slot[o].streamid : o \in Kept}
      <4>1. \E o \in Kept : slot[o].streamid = sid
        BY <2>1, <2>7, <3>2 DEF OfStream
      <4> QED
        BY <2>1, <2>3, <4>1 DEF IndexSound
    <3>9. streamidx \in [DOMAIN streamidx -> RingStream]
      BY DEF RingTypes
    <3> HIDE DEF sid, e, f, T, nis
    <3>10. /\ DOMAIN TrimmedIndex = DOMAIN streamidx
           /\ \A s \in DOMAIN streamidx : s # sid => TrimmedIndex[s] = streamidx[s]
           /\ TrimmedIndex[sid] = [streamidx[sid] EXCEPT !.earliestptime  = slot[nis].pkttime,
                                                         !.earliestid     = slot[nis].pktid,
                                                         !.earliestoffset = nis]
      BY <2>4, <3>5, <3>9
    <3>11. streamidx[sid] \in RingStream
      BY <2>4, <3>9
    <3>12. /\ TrimmedIndex[sid].earliestoffset = nis
           /\ TrimmedIndex[sid].earliestid = slot[nis].pktid
           /\ TrimmedIndex[sid].latestoffset = streamidx[sid].latestoffset
           /\ TrimmedIndex[sid].latestid = streamidx[sid].latestid
      BY <3>10, <3>11 DEF RingStream
    <3>13. IndexSound(slot, f, Kept, TrimmedIndex)
      <4>1. ASSUME NEW s \in DOMAIN TrimmedIndex
            PROVE  /\ First(f, TrimmedIndex[s].earliestoffset, OfStream(slot, Kept, s))
                   /\ Last(f, TrimmedIndex[s].latestoffset, OfStream(slot, Kept, s))
                   /\ TrimmedIndex[s].earliestid = slot[TrimmedIndex[s].earliestoffset].pktid
                   /\ TrimmedIndex[s].latestid = slot[TrimmedIndex[s].latestoffset].pktid
        <5>1. CASE s = sid
          BY <2>6, <2>8, <3>7, <3>12, <5>1
        <5>2. CASE s # sid
          BY <2>13, <3>10, <5>2
        <5> QED
          BY <5>1, <5>2
      <4> QED
        BY <3>8, <3>10, <4>1 DEF IndexSound
    <3> QED
      BY <2>1, <2>2, <2>5, <3>13
  <2> QED
    BY <2>15, <2>16
<1> QED
  BY <1>3, <1>4

-----------------------------------------------------------------------------
(* RingWrite(), of a stream and with an ID that may come from a backup.    *)

\* The slot of the earliest packet after a write.
NewEarliest == IF earliestoffset < 0 THEN TargetOffset ELSE TrimmedEarliest

(* The written slot follows the kept ones in ring order.                   *)
LEMMA AddedRange ==
  ASSUME RingTypes, EndsAgree
  PROVE  /\ TargetOffset \in Offsets /\ NewEarliest \in Offsets
         /\ Kept \subseteq Live /\ Kept \subseteq Offsets /\ TargetOffset \notin Kept
         /\ Between(NewEarliest, TargetOffset) = Kept \cup {TargetOffset}
         /\ \A i \in Kept : RankFrom(NewEarliest, i) < RankFrom(NewEarliest, TargetOffset)
         /\ latestoffset < 0 => Kept = {} /\ Live = {}
         /\ latestoffset >= 0 => NewEarliest = TrimmedEarliest /\ latestoffset \in Live
<1>1. Kept \subseteq Live
  BY DEF Kept
<1>2. CASE latestoffset < 0
  <2>1. earliestoffset < 0 /\ ~(latestoffset >= 0)
    BY <1>2 DEF EndsAgree, RingTypes, Offsets
  <2>2. TargetOffset = 0 /\ NewEarliest = 0 /\ 0 \in Offsets
    BY <2>1, RingAssumption DEF TargetOffset, NewEarliest, Offsets
  <2>3. Live = {}
    BY <1>2 DEF Live, Between
  <2>4. Between(0, 0) = {0}
    BY DEF Between
  <2> QED
    BY <1>1, <2>1, <2>2, <2>3, <2>4
<1>3. CASE latestoffset >= 0
  <2>1. /\ earliestoffset \in Offsets /\ latestoffset \in Offsets
        /\ TrimmedEarliest \in Offsets
        /\ Kept = Between(TrimmedEarliest, latestoffset)
        /\ NextOffset(latestoffset) # TrimmedEarliest
    BY <1>3, KeptRange DEF RingTypes
  <2>2. TargetOffset = NextOffset(latestoffset) /\ TargetOffset \in Offsets
    BY <1>3, <2>1, NextOffsetType DEF TargetOffset
  <2>3. NewEarliest = TrimmedEarliest
    BY <2>1 DEF NewEarliest, Offsets
  <2>4. Kept \subseteq Offsets /\ latestoffset \in Live
    BY <2>1, BetweenMember DEF Live, Offsets
  <2>5. ~(latestoffset < 0)
    BY <2>1 DEF Offsets
  <2> QED
    BY <1>1, <2>1, <2>2, <2>3, <2>4, <2>5, AddNext
<1> QED
  BY <1>2, <1>3 DEF RingTypes, Offsets

\* The ID of the packet and the stream's packet before it.
WrittenId(reqid) == IF reqid = RINGID_NONE THEN NextPktId ELSE reqid
Previous(sid) == IF sid \in DOMAIN TrimmedIndex THEN TrimmedIndex[sid].latestoffset ELSE -1

(* What a write stores.                                                    *)
LEMMA WriteStores ==
  ASSUME RingTypes, EndsAgree, NEW sid \in Streams \cup {NoStream}, NEW now \in Instants,
         NEW reqid \in PktIds \cup {RINGID_NONE}, RingWrite(sid, now, reqid)
  PROVE  /\ ~Orphaned
         /\ Stamp(now) \in 0 .. MaxTime /\ WrittenId(reqid) \in PktIds
         /\ slot' \in [Offsets -> Packet]
         /\ slot'[TargetOffset] = [pktid |-> WrittenId(reqid), pkttime |-> Stamp(now),
                                   streamid |-> sid, nextinstream |-> -1]
         /\ \A i \in Kept : /\ slot'[i].pktid = slot[i].pktid
                            /\ slot'[i].pkttime = slot[i].pkttime
                            /\ slot'[i].streamid = slot[i].streamid
                            /\ i = Previous(sid) => slot'[i].nextinstream = TargetOffset
                            /\ i # Previous(sid) => slot'[i].nextinstream = slot[i].nextinstream
         /\ streamidx' = [s \in DOMAIN TrimmedIndex \cup {sid} |->
                            IF s = sid THEN EntryAfterWrite(TrimmedIndex, sid, WrittenId(reqid),
                                                            Stamp(now), TargetOffset)
                                       ELSE TrimmedIndex[s]]
         /\ streamcount' = IF sid \in DOMAIN TrimmedIndex THEN TrimmedCount ELSE TrimmedCount + 1
         /\ earliestoffset' = NewEarliest /\ latestoffset' = TargetOffset
         /\ last_pkttime' = Stamp(now)
<1> DEFINE o   == TargetOffset
           id  == WrittenId(reqid)
           pkt == [pktid |-> id, pkttime |-> Stamp(now), streamid |-> sid, nextinstream |-> -1]
<1>1. o \in Offsets /\ Kept \subseteq Offsets /\ o \notin Kept
  BY AddedRange
<1>2. Stamp(now) \in 0 .. MaxTime
  BY RingAssumption DEF RingWrite, Stamp, RingTypes
<1>3. slot \in [Offsets -> Packet] /\ latestoffset \in Offsets \cup {-1}
  BY DEF RingTypes
<1>4. id \in PktIds
  <2>1. NextPktId \in PktIds
    BY <1>3, RingAssumption DEF NextPktId, PktIds, Packet, Offsets
  <2> QED
    BY <2>1 DEF WrittenId
<1>5. pkt \in Packet
  BY <1>2, <1>4 DEF Packet
<1>6. slot' = SlotsAfterWrite(pkt, o, Previous(sid))
  BY DEF RingWrite, WrittenId, Previous
<1> HIDE DEF o, id, pkt
<1>7. slot' = [i \in Offsets |-> IF i = o THEN pkt
                                ELSE IF i = Previous(sid) THEN [slot[i] EXCEPT !.nextinstream = o]
                                ELSE slot[i]]
  BY <1>6 DEF SlotsAfterWrite
<1>8. \A i \in Offsets : [slot[i] EXCEPT !.nextinstream = o] \in Packet
  BY <1>1, <1>3 DEF Packet
<1>9. slot' \in [Offsets -> Packet]
  BY <1>3, <1>5, <1>7, <1>8
<1>10. slot'[o] = pkt
  BY <1>1, <1>7
<1>11. ASSUME NEW i \in Kept
       PROVE  /\ slot'[i].pktid = slot[i].pktid
              /\ slot'[i].pkttime = slot[i].pkttime
              /\ slot'[i].streamid = slot[i].streamid
              /\ i = Previous(sid) => slot'[i].nextinstream = o
              /\ i # Previous(sid) => slot'[i].nextinstream = slot[i].nextinstream
  <2>1. i \in Offsets /\ i # o /\ slot[i] \in Packet
    BY <1>1, <1>3
  <2>2. CASE i = Previous(sid)
    BY <1>7, <2>1, <2>2 DEF Packet
  <2>3. CASE i # Previous(sid)
    BY <1>7, <2>1, <2>3
  <2> QED
    BY <2>2, <2>3
<1>12. /\ ~Orphaned
       /\ streamidx' = [s \in DOMAIN TrimmedIndex \cup {sid} |->
                          IF s = sid THEN EntryAfterWrite(TrimmedIndex, sid, id, Stamp(now), o)
                                     ELSE TrimmedIndex[s]]
       /\ streamcount' = IF sid \in DOMAIN TrimmedIndex THEN TrimmedCount ELSE TrimmedCount + 1
       /\ earliestoffset' = NewEarliest /\ latestoffset' = o
       /\ last_pkttime' = Stamp(now)
  BY DEF RingWrite, NewEarliest, WrittenId, o, id
<1> QED
  BY <1>2, <1>4, <1>9, <1>10, <1>11, <1>12 DEF o, id, pkt

(* A write keeps the types, the count and the ends, also in a torn ring.   *)
LEMMA WriteTyped ==
  ASSUME RingTypes, EndsAgree, CountAgrees, NEW sid \in Streams \cup {NoStream},
         NEW now \in Instants, NEW reqid \in PktIds \cup {RINGID_NONE},
         RingWrite(sid, now, reqid)
  PROVE  RingTypes' /\ EndsAgree' /\ CountAgrees'
<1> DEFINE idx   == TrimmedIndex
           entry == EntryAfterWrite(idx, sid, WrittenId(reqid), Stamp(now), TargetOffset)
<1>1. /\ ~Orphaned
      /\ Stamp(now) \in 0 .. MaxTime /\ WrittenId(reqid) \in PktIds
      /\ slot' \in [Offsets -> Packet]
      /\ streamidx' = [s \in DOMAIN idx \cup {sid} |-> IF s = sid THEN entry ELSE idx[s]]
      /\ streamcount' = IF sid \in DOMAIN idx THEN TrimmedCount ELSE TrimmedCount + 1
      /\ earliestoffset' = NewEarliest /\ latestoffset' = TargetOffset
      /\ last_pkttime' = Stamp(now)
  BY WriteStores
<1>2. /\ idx \in [DOMAIN idx -> RingStream]
      /\ DOMAIN idx \subseteq Streams \cup {NoStream}
      /\ IsFiniteSet(DOMAIN idx)
      /\ TrimmedCount = Cardinality(DOMAIN idx)
  BY <1>1, TrimmedTyped
<1>3. TargetOffset \in Offsets /\ NewEarliest \in Offsets
  BY AddedRange
<1>4. entry \in RingStream
  <2>1. CASE sid \in DOMAIN idx
    <3>1. idx[sid] \in RingStream
      BY <1>2, <2>1
    <3> QED
      BY <1>1, <1>3, <2>1, <3>1 DEF EntryAfterWrite, RingStream
  <2>2. CASE sid \notin DOMAIN idx
    BY <1>1, <1>3, <2>2 DEF EntryAfterWrite, RingStream
  <2> QED
    BY <2>1, <2>2
<1> HIDE DEF idx, entry
<1>5. DOMAIN streamidx' = DOMAIN idx \cup {sid} /\ streamidx' \in [DOMAIN streamidx' -> RingStream]
  BY <1>1, <1>2, <1>4
<1>6. CountAgrees'
  <2>1. CASE sid \in DOMAIN idx
    <3>1. DOMAIN idx \cup {sid} = DOMAIN idx
      BY <2>1
    <3> QED
      BY <1>1, <1>2, <1>5, <2>1, <3>1 DEF CountAgrees
  <2>2. CASE sid \notin DOMAIN idx
    <3>1. Cardinality(DOMAIN idx \cup {sid}) = Cardinality(DOMAIN idx) + 1
      BY <1>2, <2>2, FS_AddElement
    <3> QED
      BY <1>1, <1>2, <1>5, <2>2, <3>1 DEF CountAgrees
  <2> QED
    BY <2>1, <2>2
<1>7. streamcount' \in Nat
  BY <1>1, <1>2, FS_CardinalityType
<1>8. EndsAgree'
  BY <1>1, <1>3 DEF EndsAgree, Offsets
<1> QED
  BY <1>1, <1>2, <1>3, <1>5, <1>6, <1>7, <1>8 DEF RingTypes


\* Buffer sl2 and index idx2 are sl and idx with packet id of stream sid
\* appended at slot o, linked from the stream's latest packet prev.
Appended(sl, sl2, idx, idx2, K, o, sid, id, prev) ==
  /\ sid \in DOMAIN idx => prev = idx[sid].latestoffset
  /\ sid \notin DOMAIN idx => prev = -1
  /\ sl2[o].streamid = sid /\ sl2[o].pktid = id /\ sl2[o].nextinstream = -1
  /\ \A i \in K : /\ sl2[i].pktid = sl[i].pktid /\ sl2[i].streamid = sl[i].streamid
                  /\ i = prev => sl2[i].nextinstream = o
                  /\ i # prev => sl2[i].nextinstream = sl[i].nextinstream
  /\ DOMAIN idx2 = DOMAIN idx \cup {sid}
  /\ \A s \in DOMAIN idx : s # sid => idx2[s] = idx[s]
  /\ idx2[sid].latestoffset = o /\ idx2[sid].latestid = id
  /\ sid \in DOMAIN idx => /\ idx2[sid].earliestoffset = idx[sid].earliestoffset
                           /\ idx2[sid].earliestid = idx[sid].earliestid
  /\ sid \notin DOMAIN idx => idx2[sid].earliestoffset = o /\ idx2[sid].earliestid = id

(* A buffer stays sound when a packet is appended after those it has.      *)
LEMMA AppendSound ==
  ASSUME NEW sl, NEW sl2, NEW idx, NEW idx2, NEW sid, NEW id, NEW prev,
         NEW e \in Offsets, NEW K \in SUBSET Offsets, NEW o \in Offsets, o \notin K,
         \A i \in K : RankFrom(e, i) < RankFrom(e, o),
         IndexSound(sl, e, K, idx), LinksSound(sl, e, K),
         Appended(sl, sl2, idx, idx2, K, o, sid, id, prev)
  PROVE  IndexSound(sl2, e, K \cup {o}, idx2) /\ LinksSound(sl2, e, K \cup {o})
<1> USE DEF Appended
<1> DEFINE S == K \cup {o}
           R(i) == RankFrom(e, i)
<1>1. \A i \in Offsets : R(i) \in Int
  BY RankOrder DEF Offsets
<1>2. \A i, j \in Offsets : R(i) = R(j) => i = j
  BY RankOrder
<1>3. R(o) <= R(o) /\ \A i \in K : R(i) <= R(o)
  BY <1>1
<1>4. \A s : s # sid => OfStream(sl2, S, s) = OfStream(sl, K, s)
  BY DEF OfStream
<1>5. OfStream(sl2, S, sid) = OfStream(sl, K, sid) \cup {o}
  BY DEF OfStream
<1>6. \A s : OfStream(sl, K, s) \subseteq K
  BY DEF OfStream
<1>7. sid \in DOMAIN idx <=> OfStream(sl, K, sid) # {}
  BY DEF IndexSound, OfStream
<1>8. IndexSound(sl2, e, S, idx2)
  <2>1. DOMAIN idx2 = {sl2[i].streamid : i \in S}
    BY DEF IndexSound
  <2>2. ASSUME NEW s \in DOMAIN idx2
        PROVE  /\ First(e, idx2[s].earliestoffset, OfStream(sl2, S, s))
               /\ Last(e, idx2[s].latestoffset, OfStream(sl2, S, s))
               /\ idx2[s].earliestid = sl2[idx2[s].earliestoffset].pktid
               /\ idx2[s].latestid = sl2[idx2[s].latestoffset].pktid
    <3>1. CASE s # sid
      <4>1. s \in DOMAIN idx /\ idx2[s] = idx[s]
        BY <3>1
      <4>2. /\ First(e, idx[s].earliestoffset, OfStream(sl, K, s))
            /\ Last(e, idx[s].latestoffset, OfStream(sl, K, s))
            /\ idx[s].earliestid = sl[idx[s].earliestoffset].pktid
            /\ idx[s].latestid = sl[idx[s].latestoffset].pktid
        BY <4>1 DEF IndexSound
      <4>3. idx[s].earliestoffset \in K /\ idx[s].latestoffset \in K
        BY <1>6, <4>2 DEF First, Last
      <4> QED
        BY <1>4, <3>1, <4>1, <4>2, <4>3
    <3>2. CASE s = sid
      <4>1. Last(e, o, OfStream(sl2, S, sid))
        BY <1>5, <1>6, <1>3 DEF Last
      <4>2. CASE sid \in DOMAIN idx
        <5>1. /\ First(e, idx[sid].earliestoffset, OfStream(sl, K, sid))
              /\ idx[sid].earliestid = sl[idx[sid].earliestoffset].pktid
          BY <4>2 DEF IndexSound
        <5>2. idx[sid].earliestoffset \in K
          BY <1>6, <5>1 DEF First
        <5>3. R(idx[sid].earliestoffset) <= R(o)
          BY <1>1, <5>2
        <5>4. First(e, idx[sid].earliestoffset, OfStream(sl2, S, sid))
          BY <1>5, <5>1, <5>3 DEF First
        <5> QED
          BY <3>2, <4>1, <4>2, <5>1, <5>2, <5>4
      <4>3. CASE sid \notin DOMAIN idx
        <5>1. OfStream(sl2, S, sid) = {o}
          BY <1>5, <1>7, <4>3
        <5>2. First(e, o, OfStream(sl2, S, sid))
          BY <1>3, <5>1 DEF First
        <5> QED
          BY <3>2, <4>1, <4>3, <5>2
      <4> QED
        BY <4>2, <4>3
    <3> QED
      BY <3>1, <3>2
  <2> QED
    BY <2>1, <2>2 DEF IndexSound
<1>9. ASSUME NEW x \in S
      PROVE  IF After(sl2, e, S, x) = {}
               THEN sl2[x].nextinstream = -1
               ELSE First(e, sl2[x].nextinstream, After(sl2, e, S, x))
  <2>1. CASE x = o
    <3>1. \A p \in S : ~(R(o) < R(p))
      BY <1>1
    <3>2. After(sl2, e, S, o) = {}
      BY <3>1 DEF After, OfStream
    <3> QED
      BY <2>1, <3>2
  <2>2. CASE x \in K
    <3>1. IF After(sl, e, K, x) = {}
            THEN sl[x].nextinstream = -1
            ELSE First(e, sl[x].nextinstream, After(sl, e, K, x))
      BY <2>2 DEF LinksSound
    <3>2. After(sl, e, K, x) \subseteq K
      BY DEF After, OfStream
    <3>3. sid \in DOMAIN idx => Last(e, prev, OfStream(sl, K, sid))
      BY DEF IndexSound
    <3>4. CASE sl[x].streamid # sid
      <4>1. After(sl2, e, S, x) = After(sl, e, K, x)
        BY <1>4, <2>2, <3>4 DEF After
      <4>2. x # prev
        <5>1. x # -1
          BY <2>2 DEF Offsets
        <5> QED
          BY <3>3, <3>4, <5>1 DEF Last, OfStream
      <4> QED
        BY <2>2, <3>1, <4>1, <4>2
    <3>5. CASE sl[x].streamid = sid
      <4>1. x \in OfStream(sl, K, sid)
        BY <2>2, <3>5 DEF OfStream
      <4>2. Last(e, prev, OfStream(sl, K, sid)) /\ prev \in K
        BY <1>6, <1>7, <3>3, <4>1 DEF Last
      <4>3. After(sl2, e, S, x) = After(sl, e, K, x) \cup {o}
        BY <1>5, <2>2, <3>5 DEF After
      <4>4. CASE x = prev
        <5>1. After(sl, e, K, x) = {}
          BY <1>1, <1>6, <3>5, <4>2, <4>4 DEF After, Last
        <5>2. First(e, o, {o})
          BY <1>3 DEF First
        <5> QED
          BY <2>2, <4>3, <4>4, <5>1, <5>2
      <4>5. CASE x # prev
        <5>1. R(x) < R(prev)
          BY <1>1, <1>2, <2>2, <4>1, <4>2, <4>5 DEF Last
        <5>2. prev \in After(sl, e, K, x)
          BY <3>5, <4>2, <5>1 DEF After, Last
        <5>3. First(e, sl[x].nextinstream, After(sl, e, K, x))
          BY <3>1, <5>2
        <5>4. R(sl[x].nextinstream) <= R(o)
          BY <1>1, <3>2, <5>3 DEF First
        <5>5. First(e, sl[x].nextinstream, After(sl2, e, S, x))
          BY <4>3, <5>3, <5>4 DEF First
        <5> QED
          BY <2>2, <4>3, <4>5, <5>5
      <4> QED
        BY <4>4, <4>5
    <3> QED
      BY <3>4, <3>5
  <2> QED
    BY <2>1, <2>2
<1> QED
  BY <1>8, <1>9 DEF LinksSound


(* A write keeps a sound ring sound.                                       *)
LEMMA WriteSound ==
  ASSUME RingTypes, EndsAgree, Sound, NEW sid \in Streams \cup {NoStream},
         NEW now \in Instants, NEW reqid \in PktIds \cup {RINGID_NONE},
         RingWrite(sid, now, reqid)
  PROVE  Sound'
<1> DEFINE o   == TargetOffset
           e   == NewEarliest
           idx == TrimmedIndex
<1>1. /\ o \in Offsets /\ e \in Offsets /\ Kept \in SUBSET Offsets /\ o \notin Kept
      /\ Between(e, o) = Kept \cup {o}
      /\ \A i \in Kept : RankFrom(e, i) < RankFrom(e, o)
      /\ latestoffset < 0 => Kept = {} /\ Live = {}
      /\ latestoffset >= 0 => e = TrimmedEarliest
  BY AddedRange
<1>2. IndexSound(slot, e, Kept, idx) /\ LinksSound(slot, e, Kept)
  <2>1. CASE latestoffset >= 0
    BY <1>1, <2>1, TrimmedSound
  <2>2. CASE latestoffset < 0
    <3>1. ~Full
      BY <2>2 DEF Full, RingTypes, Offsets
    <3>2. idx = streamidx /\ Kept = {} /\ Live = {}
      BY <1>1, <2>2, <3>1 DEF TrimmedIndex
    <3>3. DOMAIN streamidx = {}
      BY <3>2 DEF Sound, IndexSound
    <3> QED
      BY <3>2, <3>3 DEF IndexSound, LinksSound
  <2> QED
    BY <2>1, <2>2 DEF RingTypes, Offsets
<1>3. /\ slot'[o] = [pktid |-> WrittenId(reqid), pkttime |-> Stamp(now),
                     streamid |-> sid, nextinstream |-> -1]
      /\ \A i \in Kept : /\ slot'[i].pktid = slot[i].pktid
                         /\ slot'[i].streamid = slot[i].streamid
                         /\ i = Previous(sid) => slot'[i].nextinstream = o
                         /\ i # Previous(sid) => slot'[i].nextinstream = slot[i].nextinstream
      /\ streamidx' = [s \in DOMAIN idx \cup {sid} |->
                         IF s = sid THEN EntryAfterWrite(idx, sid, WrittenId(reqid), Stamp(now), o)
                                    ELSE idx[s]]
      /\ earliestoffset' = e /\ latestoffset' = o
  BY WriteStores
<1>4. /\ sid \in DOMAIN idx => Previous(sid) = idx[sid].latestoffset
      /\ sid \notin DOMAIN idx => Previous(sid) = -1
  BY DEF Previous
<1> HIDE DEF o, e, idx
<1>5. /\ DOMAIN streamidx' = DOMAIN idx \cup {sid}
      /\ \A s \in DOMAIN idx : s # sid => streamidx'[s] = idx[s]
      /\ streamidx'[sid] = EntryAfterWrite(idx, sid, WrittenId(reqid), Stamp(now), o)
  BY <1>3
<1>6. /\ streamidx'[sid].latestoffset = o /\ streamidx'[sid].latestid = WrittenId(reqid)
      /\ sid \in DOMAIN idx => /\ streamidx'[sid].earliestoffset = idx[sid].earliestoffset
                               /\ streamidx'[sid].earliestid = idx[sid].earliestid
      /\ sid \notin DOMAIN idx => /\ streamidx'[sid].earliestoffset = o
                                  /\ streamidx'[sid].earliestid = WrittenId(reqid)
  BY <1>5 DEF EntryAfterWrite
<1>7. slot'[o].streamid = sid /\ slot'[o].pktid = WrittenId(reqid) /\ slot'[o].nextinstream = -1
  BY <1>3
<1>8. IndexSound(slot', e, Kept \cup {o}, streamidx') /\ LinksSound(slot', e, Kept \cup {o})
  <2>1. Appended(slot, slot', idx, streamidx', Kept, o, sid, WrittenId(reqid), Previous(sid))
    BY <1>3, <1>4, <1>5, <1>6, <1>7 DEF Appended
  <2> QED
    BY <1>1, <1>2, <2>1, AppendSound
<1>9. Live' = Kept \cup {o}
  BY <1>1, <1>3 DEF Live
<1> QED
  BY <1>3, <1>8, <1>9 DEF Sound

(* A write keeps the stamps growing, unless the clock is behind the latest *)
(* packet and no packet was stamped since the ring was read.               *)
LEMMA WriteIncreases ==
  ASSUME RingTypes, EndsAgree, NEW sid \in Streams \cup {NoStream},
         NEW now \in Instants, NEW reqid \in PktIds \cup {RINGID_NONE},
         RingWrite(sid, now, reqid), ~ClockBehind(now), TimesIncrease
  PROVE  TimesIncrease'
<1> DEFINE o == TargetOffset
           e == NewEarliest
<1>1. /\ o \in Offsets /\ e \in Offsets /\ Kept \in SUBSET Offsets /\ o \notin Kept
      /\ Kept \subseteq Live
      /\ Between(e, o) = Kept \cup {o}
      /\ \A i \in Kept : RankFrom(e, i) < RankFrom(e, o)
      /\ latestoffset < 0 => Kept = {} /\ Live = {}
      /\ latestoffset >= 0 => e = TrimmedEarliest /\ latestoffset \in Live
  BY AddedRange
<1>2. /\ slot'[o] = [pktid |-> WrittenId(reqid), pkttime |-> Stamp(now),
                     streamid |-> sid, nextinstream |-> -1]
      /\ \A i \in Kept : slot'[i].pkttime = slot[i].pkttime
      /\ earliestoffset' = e /\ latestoffset' = o
  BY WriteStores
<1> HIDE DEF o, e
<1>3. \A i, j \in Kept : RankFrom(e, i) < RankFrom(e, j) => slot[i].pkttime < slot[j].pkttime
  <2>1. CASE latestoffset < 0
    BY <1>1, <2>1
  <2>2. CASE latestoffset >= 0
    <3>1. \A i, j \in Kept : RankFrom(TrimmedEarliest, i) < RankFrom(TrimmedEarliest, j)
                               => Rank(i) < Rank(j)
      BY <2>2, KeptRange DEF RingTypes
    <3> QED
      BY <1>1, <2>2, <3>1 DEF TimesIncrease
  <2> QED
    BY <2>1, <2>2 DEF RingTypes, Offsets
<1>4. \A i \in Kept : slot[i].pkttime < Stamp(now)
  <2>1. CASE latestoffset < 0
    BY <1>1, <2>1
  <2>2. CASE latestoffset >= 0
    <3>1. earliestoffset \in Offsets /\ latestoffset \in Offsets
      BY <2>2 DEF RingTypes, EndsAgree, Offsets
    <3>2. \A i \in Live : i = latestoffset \/ Rank(i) < Rank(latestoffset)
      BY <3>1, BetweenMember, RingAssumption DEF Live, Rank, RankFrom, Offsets
    <3>3. \A i \in Live : i \in Offsets
      BY <3>1, BetweenMember DEF Live
    <3>4. \A i \in Live : slot[i].pkttime \in Int
      BY <3>3 DEF RingTypes, Packet
    <3>5. slot[latestoffset].pkttime < Stamp(now)
      BY <1>1, <2>2, <3>4, RingAssumption DEF ClockBehind, Stamp, RingTypes
    <3>6. \A i \in Live : i = latestoffset \/ slot[i].pkttime < slot[latestoffset].pkttime
      BY <1>1, <2>2, <3>2 DEF TimesIncrease
    <3>7. Stamp(now) \in Int
      BY RingAssumption DEF Stamp, RingTypes
    <3> QED
      BY <1>1, <2>2, <3>4, <3>5, <3>6, <3>7
  <2> QED
    BY <2>1, <2>2 DEF RingTypes, Offsets
<1>5. Live' = Kept \cup {o}
  BY <1>1, <1>2 DEF Live
<1>6. \A i \in Kept \cup {o} : RankFrom(e, i) \in Int
  <2>1. \A i \in Offsets : RankFrom(e, i) \in Int
    BY <1>1, RankOrder DEF Offsets
  <2> QED
    BY <1>1, <2>1
<1>7. ASSUME NEW i \in Kept \cup {o}, NEW j \in Kept \cup {o}, RankFrom(e, i) < RankFrom(e, j)
      PROVE  slot'[i].pkttime < slot'[j].pkttime
  <2>1. CASE i \in Kept /\ j \in Kept
    BY <1>2, <1>3, <1>7, <2>1
  <2>2. CASE i \in Kept /\ j = o
    BY <1>2, <1>4, <2>2
  <2>3. CASE i = o
    BY <1>1, <1>6, <1>7, <2>3
  <2> QED
    BY <2>1, <2>2, <2>3
<1> QED
  BY <1>2, <1>5, <1>7 DEF TimesIncrease, Rank, RankFrom

(* A write that fails half way keeps all this: it only evicts.             *)
LEMMA ErrorKeeps ==
  ASSUME RingTypes, EndsAgree, CountAgrees, NEW sid, NEW now \in Instants,
         RingWriteError(sid, now)
  PROVE  /\ RingTypes' /\ EndsAgree' /\ CountAgrees'
         /\ Sound => Sound'
         /\ TimesIncrease => TimesIncrease'
<1>1. /\ slot' = slot /\ latestoffset' = latestoffset
      /\ earliestoffset' = TrimmedEarliest
      /\ last_pkttime' = Stamp(now) /\ Stamp(now) <= MaxTime
      /\ Orphaned => streamidx' = streamidx /\ streamcount' = streamcount
      /\ ~Orphaned => streamidx' = TrimmedIndex /\ streamcount' = TrimmedCount
  BY DEF RingWriteError
<1>2. Stamp(now) \in 0 .. MaxTime
  BY <1>1, RingAssumption DEF Stamp, RingTypes
<1>3. /\ streamidx' \in [DOMAIN streamidx' -> RingStream]
      /\ DOMAIN streamidx' \subseteq Streams \cup {NoStream}
      /\ streamcount' = Cardinality(DOMAIN streamidx') /\ streamcount' \in Nat
  <2>1. CASE Orphaned
    BY <1>1, <2>1 DEF RingTypes, CountAgrees
  <2>2. CASE ~Orphaned
    BY <1>1, <2>2, TrimmedTyped, FS_CardinalityType
  <2> QED
    BY <2>1, <2>2
<1>4. CASE latestoffset < 0
  <2>1. ~Full /\ ~Orphaned
    BY <1>4 DEF Full, Orphaned, RingTypes, Offsets
  <2>2. earliestoffset' = earliestoffset /\ streamidx' = streamidx
    BY <1>1, <2>1 DEF TrimmedEarliest, TrimmedIndex
  <2> QED
    BY <1>1, <1>2, <1>3, <2>2
       DEF RingTypes, EndsAgree, CountAgrees, Sound, TimesIncrease, Live, Rank
<1>5. CASE latestoffset >= 0
  <2>1. /\ TrimmedEarliest \in Offsets /\ latestoffset \in Offsets
        /\ Kept = Between(TrimmedEarliest, latestoffset)
        /\ \A i, j \in Kept : RankFrom(TrimmedEarliest, i) < RankFrom(TrimmedEarliest, j)
                                => Rank(i) < Rank(j)
    BY <1>5, KeptRange DEF RingTypes
  <2>2. RingTypes' /\ EndsAgree' /\ CountAgrees'
    BY <1>1, <1>2, <1>3, <2>1 DEF RingTypes, EndsAgree, CountAgrees, Offsets
  <2>3. Live' = Kept /\ Kept \subseteq Live
    BY <1>1, <2>1 DEF Live, Kept
  <2>4. Sound => Sound'
    BY <1>1, <1>5, <2>3, TrimmedSound DEF Sound
  <2>5. TimesIncrease => TimesIncrease'
    BY <1>1, <2>1, <2>3 DEF TimesIncrease, Rank, RankFrom
  <2> QED
    BY <2>2, <2>4, <2>5
<1> QED
  BY <1>4, <1>5 DEF RingTypes, Offsets

-----------------------------------------------------------------------------
(* The ring as its files describe it, and the files.                       *)

(* What marks vouch for, said of the ring in memory.                       *)
LEMMA GoodRing ==
  ASSUME NEW m
  PROVE  Good(m, slot, earliestoffset, latestoffset, streamidx)
           <=> ("torn" \notin m => Sound) /\ (m = {} => TimesIncrease)
BY DEF Good, Sound, Increase, TimesIncrease, Live, Rank

(* A ring without packets and with an empty index is good.                 *)
LEMMA EmptyGood ==
  ASSUME NEW m, NEW sl
  PROVE  Good(m, sl, -1, -1, EmptyIndex)
<1>1. Between(-1, -1) = {}
  BY DEF Between
<1>2. DOMAIN EmptyIndex = {}
  BY DEF EmptyIndex
<1> QED
  BY <1>1, <1>2 DEF Good, IndexSound, LinksSound, Increase

(* The parameters of the server, the slots of a new buffer, and a missing  *)
(* file.                                                                   *)
LEMMA NewTyped ==
  /\ Mine \in Params /\ Slots(Mine) = MaxPackets /\ 0 .. MaxPackets - 1 = Offsets
  /\ Mine.ringsize \in Nat
  /\ EmptySlot \in Packet /\ EmptySlots \in [Offsets -> Packet]
  /\ NoHeader \in HeaderType /\ HeaderEnds(NoHeader)
  /\ IsFile(NoFile)
<1>1. EmptySlot \in Packet
  BY RingAssumption DEF EmptySlot, Packet, PktIds, Offsets
<1>2. EmptySlots \in [Offsets -> Packet]
  BY <1>1 DEF EmptySlots
<1>3. /\ Mine \in Params /\ Slots(Mine) = MaxPackets /\ 0 .. MaxPackets - 1 = Offsets
      /\ Mine.ringsize \in Nat
  BY RestartAssumption DEF Params, Offsets
<1>4. NoHeader \in HeaderType /\ HeaderEnds(NoHeader)
  BY <1>3 DEF NoHeader, HeaderType, Versions, RING_VERSION, HeaderEnds
<1>5. /\ NoFile.length = 0 /\ NoFile.header = NoHeader /\ NoFile.slot = EmptySlots
      /\ NoFile = [length |-> NoFile.length, header |-> NoFile.header, slot |-> NoFile.slot]
  BY DEF NoFile
<1>6. /\ NoFile.header.params = Mine
      /\ NoFile.header.earliestoffset = -1 /\ NoFile.header.latestoffset = -1
  BY <1>5 DEF NoHeader
<1>7. -1 \in -1 .. MaxPackets - 1 /\ 0 \in Nat
  BY RingAssumption
<1>8. IsFile(NoFile)
  <2>1. /\ NoFile.length \in Nat /\ NoFile.header \in HeaderType
        /\ NoFile.header.earliestoffset \in -1 .. Slots(NoFile.header.params) - 1
        /\ NoFile.header.latestoffset \in -1 .. Slots(NoFile.header.params) - 1
    BY <1>3, <1>4, <1>5, <1>6, <1>7
  <2>2. NoFile.slot \in [0 .. Slots(NoFile.header.params) - 1 -> Packet]
    BY <1>2, <1>3, <1>5, <1>6
  <2> QED
    BY <1>5, <2>1, <2>2 DEF IsFile
<1> QED
  BY <1>1, <1>2, <1>3, <1>4, <1>8

(* A loop over a backup has visited nothing yet.                           *)
LEMMA LoadTyped ==
  /\ NoLoad \in [kept : Seq(Nat), skips : Nat]
  /\ NoLoad.kept = <<>> /\ NoLoad.skips = 0
BY DEF NoLoad

(* A file with this server's parameters.                                   *)
LEMMA MineTyped ==
  ASSUME NEW n \in Nat, NEW hd \in HeaderType, hd.params = Mine,
         hd.earliestoffset \in Offsets \cup {-1}, hd.latestoffset \in Offsets \cup {-1},
         NEW sl \in [Offsets -> Packet]
  PROVE  IsFile([length |-> n, header |-> hd, slot |-> sl])
<1> DEFINE f == [length |-> n, header |-> hd, slot |-> sl]
<1>1. /\ f.length = n /\ f.header = hd /\ f.slot = sl
      /\ f = [length |-> f.length, header |-> f.header, slot |-> f.slot]
  OBVIOUS
<1> HIDE DEF f
<1>2. Slots(f.header.params) = MaxPackets /\ 0 .. MaxPackets - 1 = Offsets
  BY <1>1, NewTyped
<1>3. \A o \in Offsets \cup {-1} : o \in -1 .. MaxPackets - 1
  BY RingAssumption DEF Offsets
<1>4. IsFile(f)
  BY <1>1, <1>2, <1>3 DEF IsFile
<1> QED
  BY <1>4 DEF f

(* A file under the same header, of another length.                        *)
LEMMA ResizedTyped ==
  ASSUME NEW f, IsFile(f), NEW n \in Nat
  PROVE  LET g == [length |-> n, header |-> f.header, slot |-> f.slot]
         IN  IsFile(g) /\ g.header = f.header /\ g.slot = f.slot
<1> DEFINE g == [length |-> n, header |-> f.header, slot |-> f.slot]
<1>1. /\ g.length = n /\ g.header = f.header /\ g.slot = f.slot
      /\ g = [length |-> g.length, header |-> g.header, slot |-> g.slot]
  OBVIOUS
<1> HIDE DEF g
<1>2. IsFile(g)
  BY <1>1 DEF IsFile
<1> QED
  BY <1>1, <1>2 DEF g

(* A ring that starts without packets.                                     *)
LEMMA FreshTyped ==
  ASSUME NEW sl \in [Offsets -> Packet], FreshRing(sl)
  PROVE  /\ RingTypes' /\ EndsAgree' /\ CountAgrees'
         /\ \A m : Good(m, slot', earliestoffset', latestoffset', streamidx')
<1>1. /\ slot' = sl /\ earliestoffset' = -1 /\ latestoffset' = -1
      /\ streamidx' = EmptyIndex /\ streamcount' = 0 /\ last_pkttime' = 0
  BY DEF FreshRing
<1>2. DOMAIN EmptyIndex = {} /\ EmptyIndex \in [{} -> RingStream]
  BY DEF EmptyIndex
<1>3. Cardinality({}) = 0
  BY FS_EmptySet
<1>4. RingTypes'
  BY <1>1, <1>2, RingAssumption DEF RingTypes
<1>5. EndsAgree' /\ CountAgrees'
  BY <1>1, <1>2, <1>3 DEF EndsAgree, CountAgrees
<1> QED
  BY <1>1, <1>4, <1>5, EmptyGood

(* Nothing about the ring changes with what is outside it.                 *)
LEMMA RingKept ==
  ASSUME RingTypes, EndsAgree, CountAgrees, UNCHANGED vars
  PROVE  /\ RingTypes' /\ EndsAgree' /\ CountAgrees'
         /\ Sound <=> Sound'
         /\ TimesIncrease <=> TimesIncrease'
BY DEF vars, RingTypes, EndsAgree, CountAgrees, Sound, TimesIncrease, Live, Rank

(* The files and the backup stay as they are.                              *)
LEMMA FilesKept ==
  ASSUME ServerTypes, HeaderEnds(ringfile.header), HeaderEnds(backup.header), FilesGood,
         server \notin {"closing_index", "closing_ring"}, UNCHANGED <<diskvars, saved>>,
         marks'.files = marks.files
  PROVE  HeaderEnds(ringfile.header)' /\ HeaderEnds(backup.header)' /\ FilesGood'
BY DEF diskvars, HeaderEnds, FilesGood

(* The fields of the marks.                                                *)
LEMMA MarksTyped ==
  ASSUME NEW m \in MarksType, NEW r \in SUBSET {"torn", "clockback"}
  PROVE  /\ m.files \in SUBSET {"torn", "clockback"} /\ m.ring \in SUBSET {"torn", "clockback"}
         /\ [m EXCEPT !.ring = r] \in MarksType
         /\ [m EXCEPT !.ring = r].files = m.files /\ [m EXCEPT !.ring = r].ring = r
BY DEF MarksType

(* What marks vouch for, said of the ring after a step.                    *)
LEMMA GoodNext ==
  ASSUME "torn" \notin marks'.ring => Sound', marks'.ring = {} => TimesIncrease'
  PROVE  RingGood'
BY DEF RingGood, Good, Sound, Increase, TimesIncrease, Live, Rank

(* What marks vouch for, said of the ring before it.                       *)
LEMMA GoodNow ==
  ASSUME RInv, server # "down"
  PROVE  /\ "torn" \notin marks.ring => Sound
         /\ marks.ring = {} => TimesIncrease
BY GoodRing DEF RInv, RingGood

-----------------------------------------------------------------------------
(* Each action preserves the invariant.                                    *)

(* RingInitialize() accepts the files: the ring is as good as they are.    *)
LEMMA RecoverPreserves ==
  ASSUME RInv, NEW c \in Configs, StartServer(c), Outcome(c) = "recovered"
  PROVE  RInv'
<1> DEFINE hd  == ringfile.header
           idx == IF hd.earliestoffset >= 0 THEN streamfile ELSE EmptyIndex
<1>1. /\ server = "down" /\ server' = "up" /\ config' = c
      /\ UNCHANGED <<diskvars, saved, loadvars>>
      /\ slot' = ringfile.slot
      /\ earliestoffset' = hd.earliestoffset /\ latestoffset' = hd.latestoffset
      /\ streamidx' = idx /\ streamcount' = Cardinality(DOMAIN idx)
      /\ last_pkttime' = 0
      /\ marks' = [files |-> marks.files, ring |-> marks.files]
  BY DEF StartServer, Start, RecoverRing, diskvars
<1>2. hd.version = RING_VERSION /\ hd.params = Mine
  BY DEF Outcome
<1>3. IsFile(ringfile)
  BY DEF RInv, ServerTypes
<1>4. /\ hd.earliestoffset \in Offsets \cup {-1} /\ hd.latestoffset \in Offsets \cup {-1}
      /\ ringfile.slot \in [Offsets -> Packet]
      /\ hd.earliestoffset < 0 <=> hd.latestoffset < 0
  <2>1. /\ hd.earliestoffset \in -1 .. MaxPackets - 1 /\ hd.latestoffset \in -1 .. MaxPackets - 1
        /\ ringfile.slot \in [Offsets -> Packet]
    BY <1>2, <1>3, NewTyped DEF IsFile
  <2> QED
    BY <2>1, RingAssumption DEF Offsets, RInv, HeaderEnds
<1>5. marks.files \in SUBSET {"torn", "clockback"} /\ marks' \in MarksType
  BY <1>1 DEF RInv, ServerTypes, MarksType
<1>6. /\ idx \in [DOMAIN idx -> RingStream]
      /\ DOMAIN idx \subseteq Streams \cup {NoStream}
  BY DEF RInv, ServerTypes, EmptyIndex
<1>7. IsFiniteSet(DOMAIN idx)
  <2>1. IsFiniteSet(Streams \cup {NoStream})
    BY FS_AddElement, RingAssumption
  <2> QED
    BY <1>6, <2>1, FS_Subset
<1>8. Good(marks.files, ringfile.slot, hd.earliestoffset, hd.latestoffset, idx)
  <2>1. CASE hd.earliestoffset >= 0
    BY <1>1, <1>2, <2>1 DEF RInv, FilesGood
  <2>2. CASE ~(hd.earliestoffset >= 0)
    <3>1. hd.earliestoffset = -1 /\ hd.latestoffset = -1
      BY <1>4, <2>2 DEF Offsets
    <3> QED
      BY <2>2, <3>1, EmptyGood
  <2> QED
    BY <2>1, <2>2
<1> HIDE DEF idx
<1>9. RingTypes'
  BY <1>1, <1>4, <1>6, <1>7, FS_CardinalityType, RingAssumption DEF RingTypes
<1>10. EndsAgree' /\ CountAgrees'
  BY <1>1, <1>4 DEF EndsAgree, CountAgrees
<1>11. ServerTypes'
  BY <1>1, <1>5 DEF RInv, ServerTypes, diskvars, loadvars, BackupSlots
<1>12. RingGood'
  BY <1>1, <1>8 DEF RingGood
<1>13. HeaderEnds(ringfile.header)' /\ HeaderEnds(backup.header)' /\ FilesGood'
  BY <1>1, FilesKept DEF RInv
<1>14. IndexSaved' /\ Loading'
  BY <1>1 DEF IndexSaved, Loading
<1>15. Cleared'
  BY <1>1 DEF Cleared
<1> QED
  BY <1>9, <1>10, <1>11, <1>12, <1>13, <1>14, <1>15 DEF RInv

(* RingInitialize() makes an empty ring, and at most resizes the file.     *)
LEMMA ResetTyped ==
  ASSUME RInv, NEW c \in Configs, ResetRing(c)
  PROVE  /\ RingTypes' /\ EndsAgree' /\ CountAgrees'
         /\ earliestoffset' = -1 /\ latestoffset' = -1
         /\ \A m : Good(m, slot', earliestoffset', latestoffset', streamidx')
         /\ IsFile(ringfile')
         /\ ringfile'.header = ringfile.header /\ ringfile'.slot = ringfile.slot
         /\ c.volatilering => UNCHANGED ringfile
<1>1. /\ RingTypes' /\ EndsAgree' /\ CountAgrees'
      /\ \A m : Good(m, slot', earliestoffset', latestoffset', streamidx')
  BY NewTyped, FreshTyped DEF ResetRing
<1>2. earliestoffset' = -1 /\ latestoffset' = -1
  BY DEF ResetRing, FreshRing
<1>3. IsFile(ringfile)
  BY DEF RInv, ServerTypes
<1>4. CASE c.volatilering
  BY <1>1, <1>2, <1>3, <1>4 DEF ResetRing
<1>5. CASE ~c.volatilering
  <2>1. ringfile' = [length |-> Mine.ringsize, header |-> ringfile.header, slot |-> ringfile.slot]
    BY <1>5 DEF ResetRing
  <2> QED
    BY <1>1, <1>2, <1>3, <1>5, <2>1, NewTyped, ResizedTyped
<1> QED
  BY <1>4, <1>5

(* RingInitialize() resets the ring: it starts empty, and the files vouch  *)
(* for nothing unless a volatile ring leaves them alone.                   *)
LEMMA ResetPreserves ==
  ASSUME RInv, NEW c \in Configs, StartServer(c), Outcome(c) = "reset"
  PROVE  RInv'
<1>1. /\ server = "down" /\ server' = "up" /\ config' = c
      /\ UNCHANGED <<streamfile, backup, saved, loadvars>>
      /\ ResetRing(c)
      /\ marks' = [files |-> IF c.volatilering THEN marks.files
                             ELSE IF ringfile.header.version = 0 THEN {} ELSE {"torn"},
                   ring  |-> {}]
  BY DEF StartServer, Start
<1>2. /\ marks'.ring = {}
      /\ c.volatilering => marks'.files = marks.files
      /\ ~c.volatilering => marks'.files = {"torn"} \/ ringfile.header.version = 0
  BY <1>1
<1>3. marks' \in MarksType
  BY <1>1 DEF RInv, ServerTypes, MarksType
<1>4. /\ RingTypes' /\ EndsAgree' /\ CountAgrees'
      /\ Good(marks'.ring, slot', earliestoffset', latestoffset', streamidx')
      /\ IsFile(ringfile') /\ ringfile'.header = ringfile.header
      /\ c.volatilering => UNCHANGED ringfile
  BY <1>1, ResetTyped
<1>5. ServerTypes'
  BY <1>1, <1>3, <1>4 DEF RInv, ServerTypes, loadvars, BackupSlots
<1>6. HeaderEnds(ringfile.header)' /\ HeaderEnds(backup.header)'
  BY <1>1, <1>4 DEF RInv, HeaderEnds
<1>7. FilesGood'
  <2>1. CASE c.volatilering
    BY <1>1, <1>2, <1>4, <2>1, FilesKept DEF RInv, diskvars
  <2>2. CASE ~c.volatilering
    BY <1>2, <1>4, <2>2 DEF FilesGood, Good, RING_VERSION
  <2> QED
    BY <2>1, <2>2
<1>8. RingGood'
  BY <1>4 DEF RingGood
<1>9. IndexSaved' /\ Loading' /\ Cleared'
  BY <1>1 DEF IndexSaved, Loading, Cleared
<1> QED
  BY <1>4, <1>5, <1>6, <1>7, <1>8, <1>9 DEF RInv

(* main() recovers by itself: the buffer file is put aside or removed.     *)
LEMMA RecoveringPreserves ==
  ASSUME RInv, NEW c \in Configs, StartRecovering(c)
  PROVE  RInv'
<1>1. /\ config' = c /\ server' = "moved" /\ ringfile' = NoFile
      /\ FreshRing(EmptySlots) /\ marks' = [files |-> {}, ring |-> {}]
      /\ UNCHANGED <<streamfile, saved>> /\ load' = NoLoad
      /\ convert' \in BOOLEAN /\ (backup' = backup \/ backup' = ringfile)
      /\ loadoffset' = -1
  BY DEF StartRecovering, Start
<1>2. /\ RingTypes' /\ EndsAgree' /\ CountAgrees' /\ RingGood'
  BY <1>1, NewTyped, FreshTyped DEF RingGood
<1>3. marks' \in MarksType
  BY <1>1 DEF MarksType
<1>4. IsFile(ringfile') /\ ringfile'.header = NoHeader
  BY <1>1, NewTyped DEF NoFile
<1>5. IsFile(backup') /\ HeaderEnds(backup'.header)
  BY <1>1 DEF RInv, ServerTypes
<1>6. -1 \in -1 .. Slots(backup'.header.params) - 1
  <2>1. backup'.header.params \in Params
    BY <1>5 DEF IsFile, HeaderType
  <2> QED
    BY <2>1, RestartAssumption
<1>7. ServerTypes'
  BY <1>1, <1>3, <1>4, <1>5, <1>6, LoadTyped DEF RInv, ServerTypes, BackupSlots
<1>8. HeaderEnds(ringfile.header)' /\ HeaderEnds(backup.header)' /\ FilesGood'
  BY <1>4, <1>5, NewTyped DEF FilesGood, NoHeader, RING_VERSION, HeaderEnds
<1>9. IndexSaved' /\ Loading' /\ Cleared'
  BY <1>1 DEF IndexSaved, Loading, Cleared
<1> QED
  BY <1>2, <1>7, <1>8, <1>9 DEF RInv

(* The index file follows it.                                              *)
LEMMA MoveIndexPreserves ==
  ASSUME RInv, MoveIndex
  PROVE  RInv'
<1>1. /\ server = "moved" /\ server' = "cleared" /\ streamfile' = EmptyIndex
      /\ UNCHANGED <<vars, config, ringfile, backup, loadvars, saved, starts, marks>>
  BY DEF MoveIndex
<1>2. RingTypes' /\ EndsAgree' /\ CountAgrees' /\ RingGood'
  BY <1>1, RingKept, GoodNow, GoodNext DEF RInv
<1>3. ServerTypes'
  BY <1>1 DEF RInv, ServerTypes, EmptyIndex, loadvars, BackupSlots
<1>4. ringfile' = NoFile
  BY <1>1 DEF RInv, Cleared
<1>5. FilesGood'
  BY <1>4 DEF FilesGood, NoFile, NoHeader, RING_VERSION
<1>6. HeaderEnds(ringfile.header)' /\ HeaderEnds(backup.header)'
  BY <1>1 DEF RInv, HeaderEnds
<1>7. IndexSaved' /\ Loading' /\ Cleared'
  BY <1>1, <1>4 DEF IndexSaved, Loading, Cleared
<1> QED
  BY <1>2, <1>3, <1>5, <1>6, <1>7 DEF RInv

(* RingInitialize() makes a new buffer file and an empty ring.             *)
LEMMA ReinitializePreserves ==
  ASSUME RInv, Reinitialize
  PROVE  RInv'
<1>1. /\ server = "cleared" /\ server' \in {"opening", "up"} /\ ResetRing(config)
      /\ UNCHANGED <<config, streamfile, backup, loadvars, saved, starts, marks>>
  BY DEF Reinitialize
<1>2. /\ RingTypes' /\ EndsAgree' /\ CountAgrees'
      /\ earliestoffset' = -1 /\ latestoffset' = -1
      /\ Good(marks'.ring, slot', earliestoffset', latestoffset', streamidx')
      /\ IsFile(ringfile') /\ ringfile'.header = ringfile.header
  BY <1>1, ResetTyped DEF RInv, ServerTypes
<1>3. ServerTypes'
  BY <1>1, <1>2 DEF RInv, ServerTypes, loadvars, BackupSlots
<1>4. ringfile'.header = NoHeader
  BY <1>1, <1>2 DEF RInv, Cleared, NoFile
<1>5. FilesGood' /\ HeaderEnds(ringfile.header)' /\ HeaderEnds(backup.header)'
  BY <1>1, <1>4, NewTyped DEF RInv, FilesGood, NoHeader, RING_VERSION, HeaderEnds
<1>6. RingGood' /\ IndexSaved' /\ Loading' /\ Cleared'
  BY <1>1, <1>2 DEF RingGood, IndexSaved, Loading, Cleared
<1> QED
  BY <1>2, <1>3, <1>5, <1>6 DEF RInv

(* Another server leaves files that vouch for nothing.                     *)
LEMMA OtherPreserves ==
  ASSUME RInv, OtherServer
  PROVE  RInv'
<1>1. /\ server = "down" /\ ringfile' \in OtherFiles
      /\ streamfile' = streamfile \/ streamfile' = EmptyIndex
      /\ marks' = [files |-> {"torn"}, ring |-> {}]
      /\ UNCHANGED <<vars, server, config, backup, loadvars>>
  BY DEF OtherServer
<1>2. RingTypes' /\ EndsAgree' /\ CountAgrees'
  BY <1>1, RingKept DEF RInv
<1>3. IsFile(ringfile') /\ HeaderEnds(ringfile'.header) /\ marks' \in MarksType
  BY <1>1, RestartAssumption DEF MarksType
<1>4. ServerTypes'
  BY <1>1, <1>3 DEF RInv, ServerTypes, EmptyIndex, loadvars, BackupSlots
<1>5. HeaderEnds(ringfile.header)' /\ HeaderEnds(backup.header)' /\ FilesGood'
  BY <1>1, <1>3 DEF RInv, HeaderEnds, FilesGood, Good
<1>6. RingGood' /\ IndexSaved' /\ Loading' /\ Cleared'
  BY <1>1 DEF RingGood, IndexSaved, Loading, Cleared
<1> QED
  BY <1>2, <1>4, <1>5, <1>6 DEF RInv

(* What a write may do to the marks of the ring.                           *)
LEMMA MarkTyped ==
  ASSUME RInv, NEW now, MarkClock(now)
  PROVE  /\ marks' \in MarksType /\ marks'.files = marks.files
         /\ "torn" \notin marks'.ring => "torn" \notin marks.ring
         /\ marks'.ring = {} => marks.ring = {} /\ ~ClockBehind(now)
<1>1. marks \in MarksType
  BY DEF RInv, ServerTypes
<1>2. CASE ClockBehind(now)
  <2>1. marks' = [marks EXCEPT !.ring = marks.ring \cup {"clockback"}]
    BY <1>2 DEF MarkClock
  <2>2. marks.ring \cup {"clockback"} \in SUBSET {"torn", "clockback"}
    BY <1>1 DEF MarksType
  <2> QED
    BY <1>1, <2>1, <2>2, MarksTyped
<1>3. CASE ~ClockBehind(now)
  BY <1>1, <1>3 DEF MarkClock
<1> QED
  BY <1>2, <1>3

(* A packet written in service or from a backup leaves the ring as good as *)
(* its marks say.                                                          *)
LEMMA WriteGood ==
  ASSUME RInv, server # "down", NEW sid \in Streams \cup {NoStream}, NEW now \in Instants,
         NEW reqid \in PktIds \cup {RINGID_NONE}, RingWrite(sid, now, reqid), MarkClock(now)
  PROVE  RingTypes' /\ EndsAgree' /\ CountAgrees' /\ RingGood'
<1>1. RingTypes /\ EndsAgree /\ CountAgrees
  BY DEF RInv
<1>2. RingTypes' /\ EndsAgree' /\ CountAgrees'
  BY <1>1, WriteTyped
<1>3. Sound => Sound'
  BY <1>1, WriteSound
<1>4. TimesIncrease /\ ~ClockBehind(now) => TimesIncrease'
  BY <1>1, WriteIncreases
<1> QED
  BY <1>2, <1>3, <1>4, MarkTyped, GoodNow, GoodNext

(* So does one that fails half way.                                        *)
LEMMA ErrorGood ==
  ASSUME RInv, server # "down", NEW sid, NEW now \in Instants,
         RingWriteError(sid, now), MarkClock(now) \/ UNCHANGED marks
  PROVE  RingTypes' /\ EndsAgree' /\ CountAgrees' /\ RingGood'
<1>1. /\ RingTypes' /\ EndsAgree' /\ CountAgrees'
      /\ Sound => Sound'
      /\ TimesIncrease => TimesIncrease'
  BY ErrorKeeps DEF RInv
<1>2. /\ "torn" \notin marks'.ring => "torn" \notin marks.ring
      /\ marks'.ring = {} => marks.ring = {}
  BY MarkTyped
<1> QED
  BY <1>1, <1>2, GoodNow, GoodNext

(* A packet written in service.                                            *)
LEMMA ServerWritePreserves ==
  ASSUME RInv, NEW sid \in Streams, NEW now \in Instants, ServerWrite(sid, now)
  PROVE  RInv'
<1>1. /\ server = "up" /\ MarkClock(now)
      /\ RingWrite(sid, now, RINGID_NONE) \/ RingWriteError(sid, now)
      /\ UNCHANGED <<server, config, diskvars, loadvars, saved, starts>>
  BY DEF ServerWrite
<1>2. RingTypes' /\ EndsAgree' /\ CountAgrees' /\ RingGood'
  BY <1>1, WriteGood, ErrorGood
<1>3. marks' \in MarksType /\ marks'.files = marks.files
  BY <1>1, MarkTyped
<1>4. ServerTypes'
  BY <1>1, <1>3 DEF RInv, ServerTypes, diskvars, loadvars, BackupSlots
<1>5. HeaderEnds(ringfile.header)' /\ HeaderEnds(backup.header)' /\ FilesGood'
  BY <1>1, <1>3, FilesKept DEF RInv
<1>6. IndexSaved' /\ Loading' /\ Cleared'
  BY <1>1 DEF IndexSaved, Loading, Cleared
<1> QED
  BY <1>2, <1>4, <1>5, <1>6 DEF RInv

-----------------------------------------------------------------------------
(* The packets of a buffer, and loading those of a backup.                 *)

(* In a buffer of n slots a place belongs to one slot, and the slot after  *)
(* one that is not the last comes at the next place.                       *)
LEMMA PlaceOfSlot ==
  ASSUME NEW n \in Nat, NEW e \in 0 .. n - 1, NEW o \in 0 .. n - 1
  PROVE  /\ PlacesOf(n, e, o) \in 0 .. n - 1
         /\ SlotAfterOf(n, e, PlacesOf(n, e, o)) = o
         /\ \A p \in 0 .. n - 1 : PlacesOf(n, e, p) = PlacesOf(n, e, o) => p = o
         /\ PlacesOf(n, e, e) = 0
         /\ \A i \in 0 .. n - 1 : SlotAfterOf(n, e, i) \in 0 .. n - 1
         /\ LET next == IF o + 1 > n - 1 THEN 0 ELSE o + 1
            IN  next \in 0 .. n - 1 /\ (next # e => PlacesOf(n, e, next) = PlacesOf(n, e, o) + 1)
         /\ (IF o + 1 > n - 1 THEN 0 ELSE o + 1) = e => PlacesOf(n, e, o) = n - 1
BY DEF PlacesOf, SlotAfterOf

\* What a resuming client knows of a packet.
Named(p) == [pktid |-> p.pktid, streamid |-> p.streamid]
NamedPacket == [pktid : PktIds, streamid : Streams \cup {NoStream}]

(* The packets of a buffer that is not empty, as a sequence.               *)
LEMMA PacketsTyped ==
  ASSUME NEW n \in Nat, NEW sl \in [0 .. n - 1 -> Packet],
         NEW e \in 0 .. n - 1, NEW l \in 0 .. n - 1
  PROVE  LET q == PacketsOfBuffer(n, sl, e, l)
             k == PlacesOf(n, e, l) + 1
         IN  /\ k \in 1 .. n
             /\ q \in Seq(NamedPacket) /\ Len(q) = k
             /\ q = [i \in 1 .. k |-> Named(sl[SlotAfterOf(n, e, i - 1)])]
             /\ \A i \in 1 .. k : q[i] = Named(sl[SlotAfterOf(n, e, i - 1)])
<1> DEFINE k == PlacesOf(n, e, l) + 1
           q == PacketsOfBuffer(n, sl, e, l)
<1>1. k \in 1 .. n
  BY DEF PlacesOf
<1>2. ~(l < 0)
  OBVIOUS
<1>3. q = [i \in 1 .. k |-> Named(sl[SlotAfterOf(n, e, i - 1)])]
  BY <1>2 DEF PacketsOfBuffer, Named
<1> HIDE DEF k, q
<1>4. \A i \in 1 .. k : SlotAfterOf(n, e, i - 1) \in 0 .. n - 1
  BY <1>1, PlaceOfSlot
<1>5. \A i \in 1 .. k : Named(sl[SlotAfterOf(n, e, i - 1)]) \in NamedPacket
  BY <1>4 DEF Named, NamedPacket, Packet
<1>6. q \in [1 .. k -> NamedPacket]
  BY <1>3, <1>5
<1>7. q \in Seq(NamedPacket) /\ Len(q) = k
  BY <1>1, <1>6, FunctionIsSeq
<1>8. \A i \in 1 .. k : q[i] = Named(sl[SlotAfterOf(n, e, i - 1)])
  BY <1>3
<1> QED
  BY <1>1, <1>3, <1>7, <1>8 DEF k, q

\* The number of packets in a buffer like the ring's, and in the ring.
CountOf(e, l) == IF l < 0 THEN 0 ELSE RankFrom(e, l) + 1
Held == CountOf(earliestoffset, latestoffset)

(* Those of a buffer like the ring's.                                      *)
LEMMA BufferTyped ==
  ASSUME NEW sl \in [Offsets -> Packet], NEW e \in Offsets \cup {-1}, NEW l \in Offsets \cup {-1},
         e < 0 <=> l < 0
  PROVE  LET q == PacketsOfBuffer(MaxPackets, sl, e, l)
             k == CountOf(e, l)
         IN  /\ k \in 0 .. MaxPackets /\ DOMAIN q = 1 .. k /\ q = [i \in 1 .. k |-> q[i]]
             /\ l >= 0 => \A i \in 1 .. k : q[i] = Named(sl[SlotAfterOf(MaxPackets, e, i - 1)])
<1> DEFINE q == PacketsOfBuffer(MaxPackets, sl, e, l)
           k == CountOf(e, l)
<1>1. CASE l < 0
  <2>1. q = <<>> /\ k = 0
    BY <1>1 DEF PacketsOfBuffer, CountOf
  <2> HIDE DEF q, k
  <2>2. k \in 0 .. MaxPackets /\ DOMAIN q = 1 .. k /\ q = [i \in 1 .. k |-> q[i]] /\ ~(l >= 0)
    BY <1>1, <2>1, RingAssumption DEF Offsets
  <2> QED
    BY <2>2 DEF q, k
<1>2. CASE ~(l < 0)
  <2>1. /\ e \in 0 .. MaxPackets - 1 /\ l \in 0 .. MaxPackets - 1
        /\ sl \in [0 .. MaxPackets - 1 -> Packet] /\ MaxPackets \in Nat
    BY <1>2, RingAssumption DEF Offsets
  <2>2. PlacesOf(MaxPackets, e, l) + 1 = k
    BY <1>2 DEF PlacesOf, CountOf, RankFrom
  <2>3. /\ k \in 1 .. MaxPackets
        /\ q = [i \in 1 .. k |-> Named(sl[SlotAfterOf(MaxPackets, e, i - 1)])]
    BY <2>1, <2>2, PacketsTyped
  <2> HIDE DEF q, k
  <2>4. /\ k \in 0 .. MaxPackets /\ DOMAIN q = 1 .. k /\ q = [i \in 1 .. k |-> q[i]]
        /\ \A i \in 1 .. k : q[i] = Named(sl[SlotAfterOf(MaxPackets, e, i - 1)])
    BY <2>3, RingAssumption
  <2> QED
    BY <2>4 DEF q, k
<1> QED
  BY <1>1, <1>2

(* A packet written goes behind the packets in the ring; of a full ring    *)
(* the earliest goes.                                                      *)
LEMMA WriteIsNewest ==
  ASSUME RingTypes, EndsAgree, CountAgrees, NEW sid \in Streams \cup {NoStream},
         NEW now \in Instants, NEW id \in PktIds, RingWrite(sid, now, id)
  PROVE  /\ Held' = IF Held < MaxPackets THEN Held + 1 ELSE MaxPackets
         /\ RingPackets'[Held'] = [pktid |-> id, streamid |-> sid]
         /\ \A i \in 1 .. Held' - 1 : RingPackets'[i] = RingPackets[i + (Held + 1 - Held')]
<1> DEFINE N == MaxPackets
           t == TargetOffset
           e == NewEarliest
<1>1. id \in PktIds \cup {RINGID_NONE} /\ WrittenId(id) = id
  BY DEF WrittenId, RINGID_NONE, PktIds
<1>2. /\ slot'[t].pktid = id /\ slot'[t].streamid = sid
      /\ \A i \in Kept : slot'[i].pktid = slot[i].pktid /\ slot'[i].streamid = slot[i].streamid
      /\ earliestoffset' = e /\ latestoffset' = t
  <2>1. /\ slot'[t] = [pktid |-> WrittenId(id), pkttime |-> Stamp(now),
                       streamid |-> sid, nextinstream |-> -1]
        /\ \A i \in Kept : slot'[i].pktid = slot[i].pktid /\ slot'[i].streamid = slot[i].streamid
        /\ earliestoffset' = e /\ latestoffset' = t
    BY <1>1, WriteStores
  <2> HIDE DEF t, e
  <2> QED
    BY <1>1, <2>1
<1>3. RingTypes' /\ EndsAgree'
  BY <1>1, WriteTyped
<1>4. /\ t \in Offsets /\ e \in Offsets
      /\ latestoffset < 0 => Kept = {}
      /\ latestoffset >= 0 => e = TrimmedEarliest
  BY AddedRange
<1>5. Held' = RankFrom(e, t) + 1
  BY <1>2, <1>4 DEF Held, CountOf, Offsets
<1>6. \A i \in 1 .. Held' : RingPackets'[i] = Named(slot'[SlotAfterOf(N, e, i - 1)])
  <2>1. slot' \in [Offsets -> Packet] /\ t >= 0 /\ (e < 0 <=> t < 0)
    BY <1>3, <1>4 DEF RingTypes, Offsets
  <2>2. RingPackets' = PacketsOfBuffer(N, slot', e, t) /\ Held' = CountOf(e, t)
    BY <1>2 DEF RingPackets, Held
  <2> HIDE DEF e, t
  <2> QED
    BY <1>4, <2>1, <2>2, BufferTyped
<1>7. CASE latestoffset < 0
  <2>1. t = 0 /\ e = 0 /\ Held = 0
    BY <1>7 DEF RingTypes, EndsAgree, TargetOffset, NewEarliest, Offsets, Held, CountOf
  <2>2. Held' = 1 /\ SlotAfterOf(N, e, 1 - 1) = t
    BY <1>5, <2>1, RingAssumption DEF RankFrom, SlotAfterOf
  <2> QED
    BY <1>2, <1>6, <2>1, <2>2, RingAssumption DEF Named
<1>8. CASE ~(latestoffset < 0)
  <2>1. /\ earliestoffset \in Offsets /\ latestoffset \in Offsets
        /\ e = TrimmedEarliest /\ t = NextOffset(latestoffset)
        /\ Held = RankFrom(earliestoffset, latestoffset) + 1
    BY <1>4, <1>8 DEF RingTypes, EndsAgree, Offsets, TargetOffset, Held, CountOf
  <2>2. Full <=> t = earliestoffset
    BY <1>8, <2>1, RingAssumption DEF Full, NextOffset, Offsets
  <2>3. /\ Held' = IF Held < N THEN Held + 1 ELSE N
        /\ Held = N <=> t = earliestoffset
        /\ SlotAfterOf(N, e, Held' - 1) = t
    <3>1. CASE t = earliestoffset
      <4>1. e = NextOffset(earliestoffset)
        BY <2>1, <2>2, <3>1 DEF TrimmedEarliest
      <4> HIDE DEF e, t
      <4> QED
        BY <1>4, <1>5, <2>1, <3>1, <4>1, RingAssumption DEF RankFrom, NextOffset, SlotAfterOf, Offsets
    <3>2. CASE t # earliestoffset
      <4>1. e = earliestoffset
        BY <2>1, <2>2, <3>2 DEF TrimmedEarliest
      <4> HIDE DEF e, t
      <4> QED
        BY <1>4, <1>5, <2>1, <3>2, <4>1, RingAssumption DEF RankFrom, NextOffset, SlotAfterOf, Offsets
    <3> QED
      BY <3>1, <3>2
  <2>4. ASSUME NEW i \in 1 .. Held' - 1
        PROVE  RingPackets'[i] = RingPackets[i + (Held + 1 - Held')]
    <3> DEFINE j == i + (Held + 1 - Held')
               o == SlotAfterOf(N, e, i - 1)
    <3>1. Held \in 1 .. N /\ RankFrom(earliestoffset, latestoffset) = Held - 1
      BY <2>1, RingAssumption DEF RankFrom, Offsets
    <3>2. j \in 1 .. Held /\ i \in 1 .. Held'
      BY <2>3, <3>1, RingAssumption
    <3>3. o = SlotAfterOf(N, earliestoffset, j - 1) /\ o # t /\ o \in Offsets
      <4>1. CASE t = earliestoffset
        <5>1. e = NextOffset(earliestoffset) /\ Held = N /\ Held' = N
          BY <2>1, <2>2, <2>3, <4>1, RingAssumption DEF TrimmedEarliest
        <5>2. j = i + 1
          BY <3>1, <5>1
        <5> HIDE DEF e, t, j
        <5> QED
          BY <2>1, <4>1, <5>1, <5>2, RingAssumption DEF NextOffset, SlotAfterOf, Offsets
      <4>2. CASE t # earliestoffset
        <5>1. e = earliestoffset /\ Held < N /\ Held' = Held + 1
          BY <2>1, <2>2, <2>3, <3>1, <4>2, RingAssumption DEF TrimmedEarliest
        <5>2. j = i
          BY <3>1, <5>1
        <5> HIDE DEF e, t, j
        <5> QED
          BY <2>1, <3>1, <4>2, <5>1, <5>2, RingAssumption DEF NextOffset, SlotAfterOf, RankFrom, Offsets
      <4> QED
        BY <4>1, <4>2
    <3>4. o \in Kept
      <4>1. o \in Live
        <5> HIDE DEF o, j
        <5>1. j - 1 \in 0 .. RankFrom(earliestoffset, latestoffset)
          BY <2>1, <3>1, <3>2
        <5> QED
          BY <1>8, <2>1, <3>3, <5>1, RingAssumption
             DEF Live, Between, SlotAfterOf, RankFrom, Offsets
      <4>2. Full => o # earliestoffset
        BY <2>2, <3>3
      <4> QED
        BY <4>1, <4>2 DEF Kept
    <3>5. RingPackets[j] = Named(slot[SlotAfterOf(N, earliestoffset, j - 1)])
      <4>1. /\ slot \in [Offsets -> Packet] /\ latestoffset >= 0
            /\ (earliestoffset < 0 <=> latestoffset < 0)
        BY <2>1 DEF RingTypes, Offsets
      <4>2. RingPackets = PacketsOfBuffer(N, slot, earliestoffset, latestoffset)
        BY DEF RingPackets
      <4> HIDE DEF j
      <4> QED
        BY <2>1, <3>2, <4>1, <4>2, BufferTyped DEF Held
    <3>6. RingPackets'[i] = Named(slot'[o])
      BY <1>6, <3>2
    <3> HIDE DEF o, j
    <3>7. Named(slot'[o]) = Named(slot[o])
      BY <1>2, <3>4 DEF Named
    <3> QED
      BY <3>3, <3>5, <3>6, <3>7 DEF j
  <2>5. RingPackets'[Held'] = [pktid |-> id, streamid |-> sid]
    <3>1. Held' \in 1 .. Held'
      <4>1. RankFrom(e, t) \in Offsets
        BY <1>4, RankOrder
      <4> QED
        BY <1>5, <4>1 DEF Offsets
    <3> QED
      BY <1>2, <1>6, <2>3, <3>1 DEF Named
  <2> QED
    BY <2>3, <2>4, <2>5
<1> QED
  BY <1>7, <1>8

(* The loop goes on at the next place, or ends at the latest packet.       *)
LEMMA LoadGoesOn ==
  ASSUME RInv, server = "loading", loadoffset >= 0, loadoffset' = LoadNext, backup' = backup
  PROVE  LET e == backup.header.earliestoffset
             l == backup.header.latestoffset
             n == BackupSlots
         IN  /\ n \in Nat /\ e \in 0 .. n - 1 /\ l \in 0 .. n - 1 /\ loadoffset \in 0 .. n - 1
             /\ backup.slot \in [0 .. n - 1 -> Packet]
             /\ LoadPlace \in 1 .. PlacesOf(n, e, l) + 1
             /\ \/ loadoffset' = -1 /\ LoadPlace = PlacesOf(n, e, l) + 1
                \/ /\ loadoffset' \in 0 .. n - 1 /\ LoadPlace' = LoadPlace + 1
                   /\ LoadPlace' - 1 <= PlacesOf(n, e, l)
<1> DEFINE e == backup.header.earliestoffset
           l == backup.header.latestoffset
           n == BackupSlots
<1>1. /\ n \in Nat /\ backup.slot \in [0 .. n - 1 -> Packet]
  <2>1. IsFile(backup)
    BY DEF RInv, ServerTypes
  <2>2. backup.header.params \in Params
    BY <2>1 DEF IsFile, HeaderType
  <2> QED
    BY <2>1, <2>2, RestartAssumption DEF IsFile, BackupSlots
<1>2. /\ e \in 0 .. n - 1 /\ l \in 0 .. n - 1 /\ LoadPlace - 1 <= PlacesOf(n, e, l)
      /\ loadoffset \in 0 .. n - 1
  BY DEF RInv, Loading, Visiting, ServerTypes
<1>3. LoadPlace = PlacesOf(n, e, loadoffset) + 1
  BY DEF LoadPlace
<1>4. LoadPlace' = PlacesOf(n, e, loadoffset') + 1
  BY DEF LoadPlace, BackupSlots
<1>5. loadoffset' = IF loadoffset = l THEN -1
                    ELSE IF loadoffset + 1 > n - 1 THEN 0 ELSE loadoffset + 1
  BY DEF LoadNext
<1> HIDE DEF e, l, n
<1>6. /\ PlacesOf(n, e, loadoffset) \in 0 .. n - 1 /\ PlacesOf(n, e, l) \in 0 .. n - 1
      /\ loadoffset # l => PlacesOf(n, e, loadoffset) # PlacesOf(n, e, l)
  BY <1>1, <1>2 DEF PlacesOf
<1>7. CASE loadoffset = l
  BY <1>1, <1>2, <1>3, <1>5, <1>6, <1>7 DEF e, l, n
<1>8. CASE loadoffset # l
  <2> DEFINE next == IF loadoffset + 1 > n - 1 THEN 0 ELSE loadoffset + 1
  <2>1. PlacesOf(n, e, loadoffset) < PlacesOf(n, e, l) /\ PlacesOf(n, e, loadoffset) # n - 1
    BY <1>2, <1>3, <1>6, <1>8
  <2>2. /\ next \in 0 .. n - 1
        /\ next # e => PlacesOf(n, e, next) = PlacesOf(n, e, loadoffset) + 1
        /\ next = e => PlacesOf(n, e, loadoffset) = n - 1
    BY <1>1, <1>2 DEF PlacesOf
  <2>3. loadoffset' = next
    BY <1>5, <1>8
  <2> HIDE DEF next
  <2>4. loadoffset' \in 0 .. n - 1 /\ LoadPlace' = LoadPlace + 1
    BY <1>3, <1>4, <2>1, <2>2, <2>3
  <2> QED
    BY <1>1, <1>2, <1>3, <1>6, <2>1, <2>4 DEF e, l, n
<1> QED
  BY <1>7, <1>8

\* The places before p: those of k, in order, and c others.
PlacesBefore(p, k, c) ==
  /\ p \in Nat /\ k \in Seq(Nat) /\ c \in Nat
  /\ Len(k) + c = p - 1
  /\ \A i \in 1 .. Len(k) : k[i] < p
  /\ \A i, j \in 1 .. Len(k) : i < j => k[i] < k[j]

(* With p they are those before p + 1, be it one of k or another.          *)
LEMMA PlaceAdded ==
  ASSUME NEW k, NEW c, NEW p, PlacesBefore(p, k, c)
  PROVE  PlacesBefore(p + 1, Append(k, p), c) /\ PlacesBefore(p + 1, k, c + 1)
<1> DEFINE m == Len(k)
           q == Append(k, p)
<1>1. /\ p \in Nat /\ k \in Seq(Nat) /\ c \in Nat /\ m + c = p - 1
      /\ \A i \in 1 .. m : k[i] < p
      /\ \A i, j \in 1 .. m : i < j => k[i] < k[j]
  BY DEF PlacesBefore
<1>2. m \in Nat /\ \A i \in 1 .. m : k[i] \in Nat
  BY <1>1
<1>3. /\ q \in Seq(Nat) /\ Len(q) = m + 1
      /\ \A i \in 1 .. m : q[i] = k[i]
      /\ q[m + 1] = p
  BY <1>1
<1> HIDE DEF m, q
<1>4. m + 1 + c = p + 1 - 1 /\ m + (c + 1) = p + 1 - 1
  BY <1>1, <1>2
<1>5. \A i \in 1 .. m : k[i] < p + 1
  BY <1>1, <1>2
<1>6. \A i \in 1 .. m + 1 : i = m + 1 \/ i \in 1 .. m
  BY <1>2
<1>7. \A i \in 1 .. m + 1 : q[i] < p + 1
  BY <1>1, <1>3, <1>5, <1>6
<1>8. ASSUME NEW i \in 1 .. m + 1, NEW j \in 1 .. m + 1, i < j
      PROVE  q[i] < q[j]
  <2>1. i \in 1 .. m
    BY <1>2, <1>8
  <2>2. CASE j = m + 1
    BY <1>1, <1>3, <2>1, <2>2
  <2>3. CASE j \in 1 .. m
    BY <1>1, <1>3, <1>8, <2>1, <2>3
  <2> QED
    BY <1>6, <2>2, <2>3
<1>9. PlacesBefore(p + 1, q, c)
  BY <1>1, <1>3, <1>4, <1>7, <1>8 DEF PlacesBefore
<1>10. PlacesBefore(p + 1, k, c + 1)
  BY <1>1, <1>4, <1>5 DEF PlacesBefore, m
<1> QED
  BY <1>9, <1>10 DEF q

(* The place just visited is counted.                                      *)
LEMMA LoadVisits ==
  ASSUME RInv, server = "loading", loadoffset >= 0, loadoffset' = LoadNext, backup' = backup,
         \/ load' = [load EXCEPT !.kept = Append(load.kept, LoadPlace)]
         \/ load' = [load EXCEPT !.skips = load.skips + 1]
  PROVE  /\ VisitedInOrder'
         /\ load' \in [kept : Seq(Nat), skips : Nat]
         /\ loadoffset' \in -1 .. BackupSlots - 1
         /\ loadoffset' >= 0 =>
              /\ LoadPlace' - 1 <= PlacesOf(BackupSlots, backup.header.earliestoffset,
                                            backup.header.latestoffset)
              /\ \A i \in 1 .. Len(load'.kept) : load'.kept[i] < LoadPlace'
<1> DEFINE e == backup.header.earliestoffset
           l == backup.header.latestoffset
           n == BackupSlots
<1>1. /\ n \in Nat /\ e \in 0 .. n - 1 /\ l \in 0 .. n - 1 /\ loadoffset \in 0 .. n - 1
      /\ backup.slot \in [0 .. n - 1 -> Packet]
      /\ LoadPlace \in 1 .. PlacesOf(n, e, l) + 1
      /\ \/ loadoffset' = -1 /\ LoadPlace = PlacesOf(n, e, l) + 1
         \/ /\ loadoffset' \in 0 .. n - 1 /\ LoadPlace' = LoadPlace + 1
            /\ LoadPlace' - 1 <= PlacesOf(n, e, l)
  BY LoadGoesOn
<1>2. load \in [kept : Seq(Nat), skips : Nat]
  BY DEF RInv, ServerTypes
<1>3. PlacesBefore(LoadPlace, load.kept, load.skips)
  <2>1. Visiting /\ ~(loadoffset < 0)
    BY <1>1 DEF RInv, Loading
  <2>2. LoadPlace \in Nat
    BY <1>1 DEF PlacesOf
  <2>3. load.kept \in Seq(Nat) /\ load.skips \in Nat
    BY <1>2
  <2> QED
    BY <2>1, <2>2, <2>3 DEF Visiting, VisitedInOrder, PlacesBefore
<1>4. LoadPlace \in Nat /\ PlacesOf(n, e, l) \in Nat
  <2>1. LoadPlace \in Nat
    BY <1>3 DEF PlacesBefore
  <2>2. PlacesOf(n, e, l) \in Nat
    <3>1. n \in Nat /\ e \in 0 .. n - 1 /\ l \in 0 .. n - 1
      BY <1>1
    <3> HIDE DEF n, e, l
    <3> QED
      BY <3>1 DEF PlacesOf
  <2> QED
    BY <2>1, <2>2
<1>5. Len(BackupPackets) = PlacesOf(n, e, l) + 1 /\ BackupPackets' = BackupPackets
  <2>1. Len(BackupPackets) = PlacesOf(n, e, l) + 1
    <3>1. BackupPackets = PacketsOfBuffer(n, backup.slot, e, l)
      BY DEF BackupPackets
    <3>2. /\ n \in Nat /\ e \in 0 .. n - 1 /\ l \in 0 .. n - 1
          /\ backup.slot \in [0 .. n - 1 -> Packet]
      BY <1>1
    <3> HIDE DEF n, e, l
    <3>3. Len(PacketsOfBuffer(n, backup.slot, e, l)) = PlacesOf(n, e, l) + 1
      BY <3>2, PacketsTyped
    <3> QED
      BY <3>1, <3>3
  <2> QED
    BY <2>1 DEF BackupPackets, BackupSlots
<1> HIDE DEF e, l, n
<1>6. PlacesBefore(LoadPlace + 1, load'.kept, load'.skips) /\ load' \in [kept : Seq(Nat), skips : Nat]
  <2>1. /\ PlacesBefore(LoadPlace + 1, Append(load.kept, LoadPlace), load.skips)
        /\ PlacesBefore(LoadPlace + 1, load.kept, load.skips + 1)
    BY <1>3, PlaceAdded
  <2>2. /\ load' = [kept |-> load'.kept, skips |-> load'.skips]
        /\ \/ load'.kept = Append(load.kept, LoadPlace) /\ load'.skips = load.skips
           \/ load'.kept = load.kept /\ load'.skips = load.skips + 1
    BY <1>2
  <2>3. PlacesBefore(LoadPlace + 1, load'.kept, load'.skips)
    BY <2>1, <2>2
  <2>4. load'.kept \in Seq(Nat) /\ load'.skips \in Nat
    BY <2>3 DEF PlacesBefore
  <2> QED
    BY <2>2, <2>3, <2>4
<1>7. /\ Len(load'.kept) + load'.skips = LoadPlace
      /\ \A i, j \in 1 .. Len(load'.kept) : i < j => load'.kept[i] < load'.kept[j]
      /\ \A i \in 1 .. Len(load'.kept) : load'.kept[i] < LoadPlace + 1
  BY <1>4, <1>6 DEF PlacesBefore
<1>8. CASE loadoffset' = -1
  <2>1. VisitedInOrder'
    BY <1>1, <1>5, <1>7, <1>8 DEF VisitedInOrder
  <2> QED
    BY <1>1, <1>6, <1>8, <2>1 DEF n
<1>9. CASE loadoffset' # -1
  <2>1. /\ loadoffset' \in 0 .. n - 1 /\ LoadPlace' = LoadPlace + 1
        /\ LoadPlace' - 1 <= PlacesOf(n, e, l)
    BY <1>1, <1>9
  <2>2. ~(loadoffset' < 0) /\ LoadPlace' - 1 = LoadPlace
    BY <1>4, <2>1
  <2>3. VisitedInOrder'
    BY <1>7, <2>2 DEF VisitedInOrder
  <2> QED
    BY <1>6, <1>7, <2>1, <2>3 DEF n, e, l
<1> QED
  BY <1>8, <1>9

(* A packet loaded is the newest in the ring.                              *)
LEMMA LoadKeeps ==
  ASSUME RInv, NEW now \in Instants, LoadPacket(now)
  PROVE  RingPackets' = NewestLoaded'
<1> DEFINE e == backup.header.earliestoffset
           l == backup.header.latestoffset
           n == BackupSlots
           m == Len(load.kept)
           r == Smaller(m, MaxPackets)
           R == Smaller(m + 1, MaxPackets)
           B == BackupPackets
<1>1. /\ server = "loading" /\ loadoffset >= 0 /\ loadoffset' = LoadNext /\ backup' = backup
      /\ RingWrite(LoadSlot.streamid, now, LoadSlot.pktid)
      /\ load' = [load EXCEPT !.kept = Append(load.kept, LoadPlace)]
  BY DEF LoadPacket, diskvars
<1>2. /\ n \in Nat /\ e \in 0 .. n - 1 /\ l \in 0 .. n - 1 /\ loadoffset \in 0 .. n - 1
      /\ backup.slot \in [0 .. n - 1 -> Packet]
      /\ LoadPlace \in 1 .. PlacesOf(n, e, l) + 1
  BY <1>1, LoadGoesOn
<1>3. RingPackets = NewestLoaded /\ RingTypes /\ EndsAgree /\ CountAgrees
  BY <1>1 DEF RInv, Loading, Visiting
<1>4. load \in [kept : Seq(Nat), skips : Nat] /\ m \in Nat
  BY DEF RInv, ServerTypes
<1>5. /\ load'.kept = Append(load.kept, LoadPlace) /\ Len(load'.kept) = m + 1
      /\ \A i \in 1 .. m : load'.kept[i] = load.kept[i]
      /\ load'.kept[m + 1] = LoadPlace
  <2>1. LoadPlace \in Nat
    BY <1>2, PlaceOfSlot
  <2> QED
    BY <1>1, <1>4, <2>1
<1>6. B' = B /\ B[LoadPlace] = Named(LoadSlot)
  <2>1. B[LoadPlace] = Named(backup.slot[SlotAfterOf(n, e, LoadPlace - 1)])
    BY <1>2, PacketsTyped DEF BackupPackets
  <2>2. LoadPlace - 1 = PlacesOf(n, e, loadoffset)
    <3>1. PlacesOf(n, e, loadoffset) \in Int
      BY <1>2 DEF PlacesOf
    <3> QED
      BY <3>1 DEF LoadPlace
  <2>3. SlotAfterOf(n, e, LoadPlace - 1) = loadoffset
    <3>1. SlotAfterOf(n, e, PlacesOf(n, e, loadoffset)) = loadoffset
      BY <1>2 DEF PlacesOf, SlotAfterOf
    <3> QED
      BY <2>2, <3>1
  <2>4. B' = B
    BY <1>1 DEF BackupPackets, BackupSlots
  <2> QED
    BY <2>1, <2>3, <2>4 DEF LoadSlot
<1>7. LoadSlot \in Packet /\ LoadSlot.streamid \in Streams \cup {NoStream} /\ LoadSlot.pktid \in PktIds
  BY <1>2 DEF LoadSlot, Packet
<1>8. /\ Held' = IF Held < MaxPackets THEN Held + 1 ELSE MaxPackets
      /\ RingPackets'[Held'] = Named(LoadSlot)
      /\ \A i \in 1 .. Held' - 1 : RingPackets'[i] = RingPackets[i + (Held + 1 - Held')]
  BY <1>1, <1>3, <1>7, WriteIsNewest DEF Named
<1>9. /\ Held \in 0 .. MaxPackets /\ DOMAIN RingPackets = 1 .. Held
  <2>1. /\ slot \in [Offsets -> Packet] /\ earliestoffset \in Offsets \cup {-1}
        /\ latestoffset \in Offsets \cup {-1} /\ (earliestoffset < 0 <=> latestoffset < 0)
    BY <1>3 DEF RingTypes, EndsAgree
  <2> QED
    BY <2>1, BufferTyped DEF RingPackets, Held
<1>10. RingPackets' = [i \in 1 .. Held' |-> RingPackets'[i]]
  <2>1. RingTypes' /\ EndsAgree'
    BY <1>1, <1>3, <1>7, WriteTyped
  <2>2. /\ slot' \in [Offsets -> Packet] /\ earliestoffset' \in Offsets \cup {-1}
        /\ latestoffset' \in Offsets \cup {-1} /\ (earliestoffset' < 0 <=> latestoffset' < 0)
    BY <2>1 DEF RingTypes, EndsAgree
  <2> QED
    BY <2>2, BufferTyped DEF RingPackets, Held
<1>11. /\ NewestLoaded = [i \in 1 .. r |-> B[load.kept[m - r + i]]]
       /\ NewestLoaded' = [i \in 1 .. R |-> B[load'.kept[(m + 1) - R + i]]]
  <2> DEFINE New(x, b, k) == [i \in 1 .. Smaller(x, MaxPackets) |->
                                b[k[x - Smaller(x, MaxPackets) + i]]]
  <2>1. /\ NewestLoaded = New(m, B, load.kept)
        /\ NewestLoaded' = New(Len(load'.kept), B', load'.kept)
    BY DEF NewestLoaded
  <2>2. Len(load'.kept) = m + 1 /\ B' = B
    BY <1>5, <1>6
  <2>3. NewestLoaded' = New(m + 1, B, load'.kept)
    <3> HIDE DEF New, m, B
    <3> QED
      BY <2>1, <2>2
  <2>4. /\ New(m, B, load.kept) = [i \in 1 .. r |-> B[load.kept[m - r + i]]]
        /\ New(m + 1, B, load'.kept) = [i \in 1 .. R |-> B[load'.kept[(m + 1) - R + i]]]
    <3> HIDE DEF m, B
    <3> QED
      OBVIOUS
  <2> HIDE DEF New, m, B, r, R
  <2> QED
    BY <2>1, <2>3, <2>4
<1>12. r \in 0 .. MaxPackets /\ r <= m /\ R = IF r < MaxPackets THEN r + 1 ELSE MaxPackets
  BY <1>4, RingAssumption DEF Smaller
<1> HIDE DEF r, R, m, B, n, e, l
<1>13. Held = r
  <2>1. 1 .. Held = 1 .. r
    BY <1>3, <1>9, <1>11
  <2> QED
    BY <1>9, <1>12, <2>1, RingAssumption
<1>14. Held' = R /\ R \in 1 .. MaxPackets /\ R <= m + 1
  BY <1>4, <1>8, <1>12, <1>13, RingAssumption
<1>15. ASSUME NEW i \in 1 .. R
       PROVE  RingPackets'[i] = B[load'.kept[(m + 1) - R + i]]
  <2>1. CASE i = R
    <3>1. (m + 1) - R + i = m + 1
      BY <1>4, <1>14, <2>1
    <3> QED
      BY <1>5, <1>6, <1>8, <1>14, <2>1, <3>1
  <2>2. CASE i # R
    <3>1. /\ i \in 1 .. Held' - 1 /\ i + (Held + 1 - Held') \in 1 .. r
          /\ m - r + (i + (Held + 1 - Held')) = (m + 1) - R + i
          /\ (m + 1) - R + i \in 1 .. m
      BY <1>4, <1>12, <1>13, <1>14, <2>2, RingAssumption
    <3>2. RingPackets[i + (Held + 1 - Held')] = B[load.kept[(m + 1) - R + i]]
      BY <1>3, <1>11, <3>1
    <3> QED
      BY <1>5, <1>8, <3>1, <3>2
  <2> QED
    BY <2>1, <2>2
<1> QED
  BY <1>10, <1>11, <1>14, <1>15

(* LoadBufferV3() begins, at the earliest packet and with an empty ring.   *)
LEMMA LoadOpenPreserves ==
  ASSUME RInv, LoadOpen
  PROVE  RInv'
<1> DEFINE e == backup.header.earliestoffset
           l == backup.header.latestoffset
           n == BackupSlots
<1>1. /\ server = "opening" /\ server' = "loading" /\ loadoffset' = e /\ load' = NoLoad
      /\ UNCHANGED <<vars, config, diskvars, convert, saved, starts, marks>>
  BY DEF LoadOpen
<1>2. RingTypes' /\ EndsAgree' /\ CountAgrees' /\ RingGood'
  BY <1>1, RingKept, GoodNow, GoodNext DEF RInv
<1>3. /\ e \in -1 .. n - 1 /\ l \in -1 .. n - 1 /\ (e < 0 <=> l < 0) /\ n \in Nat
  <2>1. IsFile(backup) /\ HeaderEnds(backup.header)
    BY DEF RInv, ServerTypes
  <2>2. backup.header.params \in Params
    BY <2>1 DEF IsFile, HeaderType
  <2> QED
    BY <2>1, <2>2, RestartAssumption DEF IsFile, HeaderEnds, BackupSlots
<1>4. ServerTypes'
  BY <1>1, <1>3, LoadTyped DEF RInv, ServerTypes, diskvars, BackupSlots
<1>5. HeaderEnds(ringfile.header)' /\ HeaderEnds(backup.header)' /\ FilesGood'
  BY <1>1, FilesKept DEF RInv
<1>6. Loading'
  <2>1. CASE loadoffset' < 0
    BY <1>1, <1>3, <2>1 DEF Loading
  <2>2. CASE ~(loadoffset' < 0)
    <3>1. e \in 0 .. n - 1 /\ l \in 0 .. n - 1 /\ backup' = backup /\ BackupSlots' = n
      BY <1>1, <1>3, <2>2 DEF diskvars, BackupSlots
    <3>2. LoadPlace' = PlacesOf(n, e, e) + 1
      BY <1>1, <3>1 DEF LoadPlace
    <3>3. PlacesOf(n, e, e) = 0 /\ PlacesOf(n, e, l) \in 0 .. n - 1
      BY <1>3, <3>1, PlaceOfSlot
    <3>4. Len(load'.kept) = 0 /\ load'.skips = 0
      BY <1>1, LoadTyped
    <3>5. VisitedInOrder'
      BY <2>2, <3>2, <3>3, <3>4 DEF VisitedInOrder
    <3>6. RingPackets' = NewestLoaded'
      <4>1. latestoffset' = -1
        BY <1>1 DEF RInv, Loading, vars
      <4>2. RingPackets' = <<>>
        BY <4>1 DEF RingPackets, PacketsOfBuffer
      <4>3. Smaller(0, MaxPackets) = 0
        BY RingAssumption DEF Smaller
      <4>4. NewestLoaded' = [i \in 1 .. 0 |-> BackupPackets'[load'.kept[Len(load'.kept) - 0 + i]]]
        BY <3>4, <4>3 DEF NewestLoaded
      <4>5. 1 .. 0 = {}
        OBVIOUS
      <4> QED
        BY <4>2, <4>4, <4>5
    <3>7. Visiting'
      <4>1. LoadPlace' - 1 <= PlacesOf(n, e, l)
        BY <3>2, <3>3
      <4>2. \A i \in 1 .. Len(load'.kept) : load'.kept[i] < LoadPlace'
        BY <3>4
      <4> QED
        BY <3>1, <3>5, <3>6, <4>1, <4>2 DEF Visiting
    <3> QED
      BY <1>1, <3>7 DEF Loading
  <2> QED
    BY <2>1, <2>2
<1>7. IndexSaved' /\ Cleared'
  BY <1>1 DEF IndexSaved, Cleared
<1> QED
  BY <1>2, <1>4, <1>5, <1>6, <1>7 DEF RInv

(* A packet of the backup is visited.                                      *)
LEMMA LoadVisitPreserves ==
  ASSUME RInv, LoadSkip \/ (\E now \in Instants : LoadPacket(now))
  PROVE  RInv' /\ VisitedInOrder' /\ RingPackets' = NewestLoaded'
<1>1. /\ server = "loading" /\ loadoffset >= 0 /\ loadoffset' = LoadNext
      /\ UNCHANGED <<server, config, diskvars, convert, saved, starts>>
      /\ backup' = backup
      /\ \/ load' = [load EXCEPT !.kept = Append(load.kept, LoadPlace)]
         \/ load' = [load EXCEPT !.skips = load.skips + 1]
  BY DEF LoadSkip, LoadPacket, diskvars
<1>2. /\ VisitedInOrder'
      /\ load' \in [kept : Seq(Nat), skips : Nat]
      /\ loadoffset' \in -1 .. BackupSlots - 1
      /\ loadoffset' >= 0 =>
           /\ LoadPlace' - 1 <= PlacesOf(BackupSlots, backup.header.earliestoffset,
                                         backup.header.latestoffset)
           /\ \A i \in 1 .. Len(load'.kept) : load'.kept[i] < LoadPlace'
  BY <1>1, LoadVisits
<1>3. Visiting
  BY <1>1 DEF RInv, Loading
<1>4. /\ RingTypes' /\ EndsAgree' /\ CountAgrees' /\ RingGood'
      /\ marks' \in MarksType /\ marks'.files = marks.files
      /\ RingPackets' = NewestLoaded'
  <2>1. CASE LoadSkip
    <3>1. UNCHANGED vars /\ marks' = marks /\ load' = [load EXCEPT !.skips = load.skips + 1]
      BY <2>1 DEF LoadSkip
    <3>2. load'.kept = load.kept
      BY <3>1 DEF RInv, ServerTypes
    <3>3. RingPackets' = RingPackets
      BY <3>1 DEF RingPackets, vars
    <3>4. NewestLoaded' = NewestLoaded
      BY <1>1, <3>2 DEF NewestLoaded, BackupPackets, BackupSlots
    <3>5. RingTypes' /\ EndsAgree' /\ CountAgrees' /\ RingGood'
      BY <1>1, <3>1, RingKept, GoodNow, GoodNext DEF RInv
    <3> QED
      BY <1>3, <3>1, <3>3, <3>4, <3>5 DEF Visiting, RInv, ServerTypes
  <2>2. CASE \E now \in Instants : LoadPacket(now)
    <3>1. PICK now \in Instants : LoadPacket(now)
      BY <2>2
    <3>2. RingWrite(LoadSlot.streamid, now, LoadSlot.pktid) /\ MarkClock(now)
      BY <3>1 DEF LoadPacket
    <3>3. LoadSlot \in Packet
      BY <1>1, LoadGoesOn DEF LoadSlot
    <3>4. /\ LoadSlot.streamid \in Streams \cup {NoStream}
          /\ LoadSlot.pktid \in PktIds \cup {RINGID_NONE}
      BY <3>3 DEF Packet
    <3>5. RingTypes' /\ EndsAgree' /\ CountAgrees' /\ RingGood'
      BY <1>1, <3>2, <3>4, WriteGood
    <3>6. marks' \in MarksType /\ marks'.files = marks.files
      BY <3>2, MarkTyped
    <3> QED
      BY <3>1, <3>5, <3>6, LoadKeeps
  <2> QED
    BY <2>1, <2>2
<1>5. ServerTypes'
  BY <1>1, <1>2, <1>4 DEF RInv, ServerTypes, diskvars, BackupSlots
<1>6. HeaderEnds(ringfile.header)' /\ HeaderEnds(backup.header)' /\ FilesGood'
  BY <1>1, <1>4, FilesKept DEF RInv
<1>7. Loading'
  <2>1. BackupSlots' = BackupSlots
    BY <1>1 DEF BackupSlots
  <2>2. loadoffset' >= 0 => Visiting'
    BY <1>1, <1>2, <1>3, <1>4, <2>1 DEF Visiting
  <2> QED
    BY <1>1, <2>2 DEF Loading
<1>8. IndexSaved' /\ Cleared'
  BY <1>1 DEF IndexSaved, Cleared
<1> QED
  BY <1>2, <1>4, <1>5, <1>6, <1>7, <1>8 DEF RInv

(* The loop over the backup is left early.                                 *)
LEMMA LoadBreakPreserves ==
  ASSUME RInv, NEW now \in Instants, LoadBreak(now)
  PROVE  RInv'
<1>1. /\ server = "loading" /\ loadoffset >= 0 /\ loadoffset' = -1
      /\ RingWriteError(LoadSlot.streamid, now) \/ UNCHANGED vars
      /\ UNCHANGED <<server, config, diskvars, convert, load, saved, starts, marks>>
  BY DEF LoadBreak
<1>2. RingTypes' /\ EndsAgree' /\ CountAgrees' /\ RingGood'
  <2>1. CASE RingWriteError(LoadSlot.streamid, now)
    BY <1>1, <2>1, ErrorGood
  <2>2. CASE UNCHANGED vars
    BY <1>1, <2>2, RingKept, GoodNow, GoodNext DEF RInv
  <2> QED
    BY <1>1, <2>1, <2>2
<1>3. -1 \in -1 .. BackupSlots - 1
  <2>1. loadoffset \in -1 .. BackupSlots - 1
    BY DEF RInv, ServerTypes
  <2>2. BackupSlots \in Nat
    <3>1. IsFile(backup)
      BY DEF RInv, ServerTypes
    <3> QED
      BY <3>1, RestartAssumption DEF IsFile, HeaderType, BackupSlots
  <2> QED
    BY <1>1, <2>1, <2>2
<1>4. ServerTypes'
  BY <1>1, <1>3 DEF RInv, ServerTypes, diskvars, BackupSlots
<1>5. HeaderEnds(ringfile.header)' /\ HeaderEnds(backup.header)' /\ FilesGood'
  BY <1>1, FilesKept DEF RInv
<1>6. IndexSaved' /\ Loading' /\ Cleared'
  BY <1>1 DEF IndexSaved, Loading, Cleared
<1> QED
  BY <1>2, <1>4, <1>5, <1>6 DEF RInv

(* The backup is loaded, or nothing of it could be.                        *)
LEMMA LoadEndPreserves ==
  ASSUME RInv, LoadDone \/ LoadRefused
  PROVE  RInv'
<1>1. /\ server \in {"opening", "loading"} /\ server' = "up"
      /\ UNCHANGED <<vars, config, ringfile, streamfile, saved, marks, load>>
      /\ convert' \in BOOLEAN /\ loadoffset' = loadoffset
      /\ (backup' = NoFile /\ loadoffset < 0) \/ backup' = backup
  BY DEF LoadDone, LoadRefused, diskvars, loadvars, RInv, ServerTypes
<1>2. RingTypes' /\ EndsAgree' /\ CountAgrees' /\ RingGood'
  BY <1>1, RingKept, GoodNow, GoodNext DEF RInv
<1>3. IsFile(backup') /\ HeaderEnds(backup.header)'
  BY <1>1, NewTyped DEF RInv, ServerTypes, NoFile, HeaderEnds
<1>4. loadoffset' \in -1 .. Slots(backup'.header.params) - 1
  <2>1. loadoffset \in -1 .. Slots(backup.header.params) - 1
    BY DEF RInv, ServerTypes, BackupSlots
  <2>2. CASE backup' = backup
    BY <1>1, <2>1, <2>2
  <2>3. CASE backup' = NoFile /\ loadoffset < 0
    <3>1. Slots(backup'.header.params) = MaxPackets
      BY <2>3, NewTyped DEF NoFile, NoHeader
    <3>2. loadoffset = -1
      <4>1. IsFile(backup)
        BY DEF RInv, ServerTypes
      <4>2. Slots(backup.header.params) \in Nat
        BY <4>1, RestartAssumption DEF IsFile, HeaderType
      <4> QED
        BY <2>1, <2>3, <4>2
    <3> QED
      BY <1>1, <3>1, <3>2, RingAssumption
  <2> QED
    BY <1>1, <2>2, <2>3
<1>5. ServerTypes'
  BY <1>1, <1>3, <1>4 DEF RInv, ServerTypes, BackupSlots
<1>6. HeaderEnds(ringfile.header)' /\ FilesGood'
  BY <1>1 DEF RInv, HeaderEnds, FilesGood
<1>7. IndexSaved' /\ Loading' /\ Cleared'
  BY <1>1 DEF IndexSaved, Loading, Cleared
<1> QED
  BY <1>2, <1>3, <1>5, <1>6, <1>7 DEF RInv

-----------------------------------------------------------------------------
(* RingShutdown(), and the process dying.                                  *)

(* RingShutdown() of a volatile ring writes nothing.                       *)
LEMMA VolatilePreserves ==
  ASSUME RInv, ShutdownVolatile
  PROVE  RInv'
<1>1. /\ server = "up" /\ server' = "down" /\ FreshRing(EmptySlots)
      /\ marks' = [marks EXCEPT !.ring = {}]
      /\ UNCHANGED <<config, diskvars, loadvars, saved, starts>>
  BY DEF ShutdownVolatile
<1>2. RingTypes' /\ EndsAgree' /\ CountAgrees'
  BY <1>1, NewTyped, FreshTyped
<1>3. marks' \in MarksType /\ marks'.files = marks.files
  BY <1>1, MarksTyped DEF RInv, ServerTypes
<1>4. ServerTypes'
  BY <1>1, <1>3 DEF RInv, ServerTypes, diskvars, loadvars, BackupSlots
<1>5. HeaderEnds(ringfile.header)' /\ HeaderEnds(backup.header)' /\ FilesGood'
  BY <1>1, <1>3, FilesKept DEF RInv
<1>6. RingGood' /\ IndexSaved' /\ Loading' /\ Cleared'
  BY <1>1 DEF RingGood, IndexSaved, Loading, Cleared
<1> QED
  BY <1>2, <1>4, <1>5, <1>6 DEF RInv

(* RingShutdown() opens the index file, or fails to.                       *)
LEMMA OpenPreserves ==
  ASSUME RInv, ShutdownOpen
  PROVE  RInv'
<1>1. /\ \/ server' = "closing_index" /\ streamfile' = EmptyIndex /\ UNCHANGED marks
         \/ /\ server' = "closing_ring" /\ UNCHANGED streamfile
            /\ marks' = [marks EXCEPT !.ring = marks.ring \cup {"torn"}]
      /\ server = "up"
      /\ UNCHANGED <<vars, config, ringfile, backup, loadvars, saved, starts>>
  BY DEF ShutdownOpen
<1>2. marks \in MarksType /\ marks.ring \cup {"torn"} \in SUBSET {"torn", "clockback"}
  BY DEF RInv, ServerTypes, MarksType
<1>3. /\ marks' \in MarksType /\ (marks' = marks \/ "torn" \in marks'.ring)
      /\ server' = "closing_ring" => "torn" \in marks'.ring
  <2> DEFINE m == [marks EXCEPT !.ring = marks.ring \cup {"torn"}]
  <2>1. m \in MarksType /\ m.ring = marks.ring \cup {"torn"}
    BY <1>2, MarksTyped
  <2> HIDE DEF m
  <2>2. CASE server' = "closing_index" /\ marks' = marks
    BY <1>2, <2>2
  <2>3. CASE marks' = m
    BY <2>1, <2>3
  <2> QED
    BY <1>1, <2>2, <2>3 DEF m
<1>4. RingTypes' /\ EndsAgree' /\ CountAgrees' /\ RingGood'
  BY <1>1, <1>3, RingKept, GoodNow, GoodNext DEF RInv
<1>5. ServerTypes'
  BY <1>1, <1>3 DEF RInv, ServerTypes, EmptyIndex, loadvars, BackupSlots
<1>6. HeaderEnds(ringfile.header)' /\ HeaderEnds(backup.header)'
  BY <1>1 DEF RInv, HeaderEnds
<1>7. FilesGood' /\ Loading' /\ Cleared'
  BY <1>1 DEF FilesGood, Loading, Cleared
<1>8. IndexSaved'
  BY <1>3 DEF IndexSaved
<1> QED
  BY <1>4, <1>5, <1>6, <1>7, <1>8 DEF RInv

(* RingShutdown() writes the entries of the index, all or only some.       *)
LEMMA IndexPreserves ==
  ASSUME RInv, ShutdownIndex
  PROVE  RInv'
<1>1. PICK kept \in SUBSET DOMAIN streamidx :
        /\ streamfile' = [s \in kept |-> streamidx[s]]
        /\ marks' = IF kept = DOMAIN streamidx THEN marks
                    ELSE [marks EXCEPT !.ring = marks.ring \cup {"torn"}]
  BY DEF ShutdownIndex
<1>2. /\ server = "closing_index" /\ server' = "closing_ring"
      /\ UNCHANGED <<vars, config, ringfile, backup, loadvars, saved, starts>>
  BY DEF ShutdownIndex
<1>3. marks \in MarksType /\ marks.ring \cup {"torn"} \in SUBSET {"torn", "clockback"}
  BY DEF RInv, ServerTypes, MarksType
<1>4. /\ marks' \in MarksType
      /\ \/ marks' = marks /\ kept = DOMAIN streamidx
         \/ "torn" \in marks'.ring
  BY <1>1, <1>3, MarksTyped
<1>5. RingTypes' /\ EndsAgree' /\ CountAgrees' /\ RingGood'
  BY <1>2, <1>4, RingKept, GoodNow, GoodNext DEF RInv
<1>6. /\ streamidx \in [DOMAIN streamidx -> RingStream]
      /\ DOMAIN streamidx \subseteq Streams \cup {NoStream}
  BY DEF RInv, RingTypes
<1>7. DOMAIN streamfile' = kept /\ streamfile' \in [kept -> RingStream]
  BY <1>1, <1>6
<1>8. ServerTypes'
  BY <1>2, <1>4, <1>6, <1>7 DEF RInv, ServerTypes, loadvars, BackupSlots
<1>9. HeaderEnds(ringfile.header)' /\ HeaderEnds(backup.header)'
  BY <1>2 DEF RInv, HeaderEnds
<1>10. FilesGood' /\ Loading' /\ Cleared'
  BY <1>2 DEF FilesGood, Loading, Cleared
<1>11. IndexSaved'
  <2>1. kept = DOMAIN streamidx => streamfile' = streamidx
    BY <1>1, <1>6
  <2> QED
    BY <1>2, <1>4, <2>1 DEF IndexSaved, vars
<1> QED
  BY <1>5, <1>8, <1>9, <1>10, <1>11 DEF RInv


(* The ring file with some slots written, under a header of this server.   *)
LEMMA PartialTyped ==
  ASSUME RInv, NEW hd \in HeaderType, hd.params = Mine,
         hd.earliestoffset \in Offsets \cup {-1}, hd.latestoffset \in Offsets \cup {-1},
         NEW n \in 0 .. MaxPackets
  PROVE  /\ IsFile(PartialFile(hd, n))
         /\ PartialFile(hd, n).header = hd
         /\ n = MaxPackets => PartialFile(hd, n).slot = slot
<1> DEFINE sl == [o \in Offsets |-> IF o < n THEN slot[o] ELSE FileSlot(o)]
<1>1. IsFile(ringfile) /\ slot \in [Offsets -> Packet] /\ ringfile.length \in Nat
  BY DEF RInv, RingTypes, ServerTypes, IsFile
<1>2. \A o \in Offsets : FileSlot(o) \in Packet
  <2>1. CASE ringfile.header.params = Mine
    <3>1. ringfile.slot \in [Offsets -> Packet]
      BY <1>1, <2>1, NewTyped DEF IsFile
    <3> QED
      BY <2>1, <3>1 DEF FileSlot
  <2>2. CASE ringfile.header.params # Mine
    BY <2>2, NewTyped DEF FileSlot
  <2> QED
    BY <2>1, <2>2
<1>3. sl \in [Offsets -> Packet]
  BY <1>1, <1>2
<1>4. n = MaxPackets => sl = slot
  <2>1. \A o \in Offsets : o < MaxPackets
    BY RingAssumption DEF Offsets
  <2> QED
    BY <1>1, <2>1
<1>5. PartialFile(hd, n) = [length |-> ringfile.length, header |-> hd, slot |-> sl]
  BY DEF PartialFile
<1> HIDE DEF sl
<1>6. IsFile(PartialFile(hd, n))
  BY <1>1, <1>3, <1>5, MineTyped
<1> QED
  BY <1>4, <1>5, <1>6

(* The header RingShutdown() stores.                                       *)
LEMMA StoredTyped ==
  ASSUME RInv
  PROVE  /\ StoredHeader \in HeaderType /\ HeaderEnds(StoredHeader)
         /\ StoredHeader.params = Mine
         /\ StoredHeader.earliestoffset = earliestoffset
         /\ StoredHeader.latestoffset = latestoffset
         /\ earliestoffset \in Offsets \cup {-1} /\ latestoffset \in Offsets \cup {-1}
<1>1. earliestoffset \in Offsets \cup {-1} /\ latestoffset \in Offsets \cup {-1}
  BY DEF RInv, RingTypes
<1>2. earliestoffset \in Int /\ latestoffset \in Int
  BY <1>1 DEF Offsets
<1> QED
  BY <1>1, <1>2, NewTyped
     DEF RInv, EndsAgree, StoredHeader, HeaderType, HeaderEnds, Versions, RING_VERSION

(* RingShutdown() writes the buffer: with all of it, the files are as good *)
(* as the ring, and hold its packets.                                      *)
LEMMA ShutdownPreserves ==
  ASSUME RInv, ShutdownRing
  PROVE  RInv'
<1>1. /\ server = "closing_ring" /\ server' = "down"
      /\ FreshRing(EmptySlots)
      /\ UNCHANGED <<config, streamfile, backup, loadvars, starts>>
      /\ \/ /\ ringfile' = PartialFile(StoredHeader, MaxPackets)
            /\ saved' = RingPackets
            /\ marks' = [files |-> marks.ring, ring |-> {}]
         \/ /\ \/ \E n \in 0 .. MaxPackets - 1 : ringfile' = PartialFile(StoredHeader, n)
               \/ ringfile' = ringfile
            /\ marks' = [files |-> marks.ring \cup {"torn"}, ring |-> {}]
  BY DEF ShutdownRing
<1>2. RingTypes' /\ EndsAgree' /\ CountAgrees'
  BY <1>1, NewTyped, FreshTyped
<1>3. marks' \in MarksType
  BY <1>1 DEF RInv, ServerTypes, MarksType
<1>4. /\ IsFile(ringfile')
      /\ ringfile'.header = StoredHeader \/ ringfile' = ringfile
  <2>1. \A n \in 0 .. MaxPackets : /\ IsFile(PartialFile(StoredHeader, n))
                                   /\ PartialFile(StoredHeader, n).header = StoredHeader
    BY PartialTyped, StoredTyped
  <2>2. IsFile(ringfile)
    BY DEF RInv, ServerTypes
  <2>3. MaxPackets \in 0 .. MaxPackets /\ \A n \in 0 .. MaxPackets - 1 : n \in 0 .. MaxPackets
    BY RingAssumption
  <2> QED
    BY <1>1, <2>1, <2>2, <2>3
<1>5. ServerTypes'
  BY <1>1, <1>3, <1>4 DEF RInv, ServerTypes, loadvars, BackupSlots
<1>6. HeaderEnds(ringfile.header)' /\ HeaderEnds(backup.header)'
  BY <1>1, <1>4, StoredTyped DEF RInv, HeaderEnds
<1>7. RingGood' /\ IndexSaved' /\ Loading' /\ Cleared'
  BY <1>1 DEF RingGood, IndexSaved, Loading, Cleared
<1>8. FilesGood'
  <2>1. CASE "torn" \in marks'.files
    BY <2>1 DEF FilesGood, Good
  <2>2. CASE "torn" \notin marks'.files
    <3>1. /\ ringfile' = PartialFile(StoredHeader, MaxPackets) /\ saved' = RingPackets
          /\ marks'.files = marks.ring /\ "torn" \notin marks.ring
      BY <1>1, <2>2
    <3>2. MaxPackets \in 0 .. MaxPackets
      BY RingAssumption
    <3>3. ringfile'.slot = slot /\ ringfile'.header = StoredHeader
      BY <3>1, <3>2, PartialTyped, StoredTyped
    <3>4. /\ ringfile'.header.earliestoffset = earliestoffset
          /\ ringfile'.header.latestoffset = latestoffset
      BY <3>3 DEF StoredHeader
    <3>5. streamfile' = streamidx
      BY <1>1, <3>1 DEF RInv, IndexSaved
    <3>6. Good(marks.ring, slot, earliestoffset, latestoffset, streamidx)
      BY <1>1 DEF RInv, RingGood
    <3>7. PacketsOfBuffer(MaxPackets, slot, earliestoffset, latestoffset) = saved'
      BY <3>1 DEF RingPackets
    <3> QED
      BY <3>1, <3>3, <3>4, <3>5, <3>6, <3>7 DEF FilesGood
  <2> QED
    BY <2>1, <2>2
<1> QED
  BY <1>2, <1>5, <1>6, <1>7, <1>8 DEF RInv

(* What a dying process leaves is a file, with a header that was stored.   *)
LEMMA CrashedTyped ==
  ASSUME RInv, NEW f \in CrashedFiles
  PROVE  /\ IsFile(f) /\ HeaderEnds(f.header)
         /\ ~CrashTears => f = ringfile
<1>1. IsFile(ringfile) /\ HeaderEnds(ringfile.header) /\ ringfile.header \in HeaderType
  BY DEF RInv, ServerTypes, IsFile
<1>2. CASE f = ringfile
  BY <1>1, <1>2
<1>3. CASE f # ringfile
  <2>1. /\ config.memorymapring /\ HasRing
        /\ \/ ringfile.header.params = Mine /\ f = PartialFile(ringfile.header, MaxPackets)
           \/ f = Overwritten
           \/ f = PartialFile(NoHeader, MaxPackets)
    BY <1>3 DEF CrashedFiles
  <2>2. CrashTears
    BY <2>1 DEF CrashTears
  <2>3. MaxPackets \in 0 .. MaxPackets
    BY RingAssumption
  <2>4. CASE ringfile.header.params = Mine /\ f = PartialFile(ringfile.header, MaxPackets)
    <3>1. /\ ringfile.header.earliestoffset \in -1 .. MaxPackets - 1
          /\ ringfile.header.latestoffset \in -1 .. MaxPackets - 1
      BY <1>1, <2>4, NewTyped DEF IsFile
    <3>2. \A o \in -1 .. MaxPackets - 1 : o \in Offsets \cup {-1}
      BY RingAssumption DEF Offsets
    <3> QED
      BY <1>1, <2>2, <2>3, <2>4, <3>1, <3>2, PartialTyped
  <2>5. CASE f = Overwritten
    <3> DEFINE sl == [o \in 0 .. Slots(ringfile.header.params) - 1 |-> EmptySlot]
    <3>1. sl \in [0 .. Slots(ringfile.header.params) - 1 -> Packet]
      BY NewTyped
    <3>2. f = [length |-> ringfile.length, header |-> ringfile.header, slot |-> sl]
      BY <2>5 DEF Overwritten
    <3> HIDE DEF sl
    <3>3. f.length = ringfile.length /\ f.header = ringfile.header /\ f.slot = sl
      BY <3>2
    <3> QED
      BY <1>1, <2>2, <3>1, <3>2, <3>3 DEF IsFile
  <2>6. CASE f = PartialFile(NoHeader, MaxPackets)
    <3>1. NoHeader.params = Mine /\ NoHeader.earliestoffset = -1 /\ NoHeader.latestoffset = -1
      BY DEF NoHeader
    <3> QED
      BY <2>2, <2>3, <2>6, <3>1, NewTyped, PartialTyped
  <2> QED
    BY <2>1, <2>4, <2>5, <2>6
<1> QED
  BY <1>2, <1>3

(* The process dies: an unmapped ring leaves the files of the last orderly *)
(* shutdown, unless they were being replaced.                              *)
LEMMA CrashPreserves ==
  ASSUME RInv, Crash
  PROVE  RInv'
<1>1. /\ server # "down" /\ server' = "down" /\ ringfile' \in CrashedFiles
      /\ FreshRing(EmptySlots)
      /\ convert' = FALSE /\ loadoffset' = -1 /\ load' = NoLoad
      /\ marks' = [files |-> IF CrashTears THEN {"torn"} ELSE marks.files, ring |-> {}]
      /\ saved' = IF CrashTears THEN <<>> ELSE saved
      /\ UNCHANGED <<config, streamfile, backup, starts>>
  BY DEF Crash
<1>2. RingTypes' /\ EndsAgree' /\ CountAgrees'
  BY <1>1, NewTyped, FreshTyped
<1>3. marks' \in MarksType
  BY <1>1 DEF RInv, ServerTypes, MarksType
<1>4. /\ IsFile(ringfile') /\ HeaderEnds(ringfile'.header)
      /\ ~CrashTears => ringfile' = ringfile
  BY <1>1, CrashedTyped
<1>5. -1 \in -1 .. Slots(backup'.header.params) - 1
  <2>1. IsFile(backup)
    BY DEF RInv, ServerTypes
  <2>2. Slots(backup.header.params) \in Nat
    BY <2>1, RestartAssumption DEF IsFile, HeaderType
  <2> QED
    BY <1>1, <2>2
<1>6. ServerTypes'
  BY <1>1, <1>3, <1>4, <1>5, LoadTyped DEF RInv, ServerTypes, BackupSlots
<1>7. HeaderEnds(ringfile.header)' /\ HeaderEnds(backup.header)'
  BY <1>1, <1>4 DEF RInv, HeaderEnds
<1>8. RingGood' /\ IndexSaved' /\ Loading' /\ Cleared'
  BY <1>1 DEF RingGood, IndexSaved, Loading, Cleared
<1>9. FilesGood'
  <2>1. CASE CrashTears
    BY <1>1, <2>1 DEF FilesGood, Good
  <2>2. CASE ~CrashTears
    <3>1. server \notin {"closing_index", "closing_ring"}
      BY <2>2 DEF CrashTears
    <3>2. ringfile' = ringfile /\ marks'.files = marks.files /\ saved' = saved
      BY <1>1, <1>4, <2>2
    <3> QED
      BY <1>1, <3>1, <3>2 DEF RInv, FilesGood
  <2> QED
    BY <2>1, <2>2
<1> QED
  BY <1>2, <1>6, <1>7, <1>8, <1>9 DEF RInv

-----------------------------------------------------------------------------
(* A first start.                                                          *)
LEMMA RInitSatisfies ==
  ASSUME RInit
  PROVE  RInv
<1>1. /\ Init /\ server = "down" /\ config \in Configs
      /\ ringfile = NoFile /\ streamfile = EmptyIndex /\ backup = NoFile
      /\ convert = FALSE /\ loadoffset = -1 /\ load = NoLoad
      /\ marks = [files |-> {}, ring |-> {}]
  BY DEF RInit
<1>2. RingTypes /\ EndsAgree /\ CountAgrees
  <2>1. IInv
    BY <1>1, InitSatisfies
  <2> QED
    BY <2>1 DEF IInv, TypeOK, RingTypes
<1>3. /\ IsFile(ringfile) /\ IsFile(backup)
      /\ HeaderEnds(ringfile.header) /\ HeaderEnds(backup.header)
      /\ ringfile.header.version # RING_VERSION
  BY <1>1, NewTyped DEF NoFile, NoHeader, RING_VERSION
<1>4. loadoffset \in -1 .. BackupSlots - 1
  <2>1. BackupSlots = MaxPackets
    BY <1>1, NewTyped DEF BackupSlots, NoFile, NoHeader
  <2> QED
    BY <1>1, <2>1, RingAssumption
<1>5. ServerTypes
  BY <1>1, <1>3, <1>4, LoadTyped DEF ServerTypes, EmptyIndex, MarksType
<1>6. RingGood /\ IndexSaved /\ Loading /\ FilesGood /\ Cleared
  BY <1>1, <1>3 DEF RingGood, IndexSaved, Loading, FilesGood, Cleared
<1> QED
  BY <1>2, <1>3, <1>5, <1>6 DEF RInv

(* A step that leaves everything as it is.                                 *)
LEMMA RStutter ==
  ASSUME RInv, UNCHANGED rvars
  PROVE  RInv'
<1>1. UNCHANGED <<vars, server, config, diskvars, loadvars, saved, marks>>
  BY DEF rvars
<1>2. RingTypes' /\ EndsAgree' /\ CountAgrees'
  BY <1>1, RingKept DEF RInv
<1>3. ServerTypes'
  BY <1>1 DEF RInv, ServerTypes, diskvars, loadvars, BackupSlots
<1>4. HeaderEnds(ringfile.header)' /\ HeaderEnds(backup.header)' /\ RingGood' /\ FilesGood'
  BY <1>1 DEF RInv, HeaderEnds, RingGood, FilesGood, vars, diskvars
<1>5. IndexSaved' /\ Cleared'
  BY <1>1 DEF RInv, IndexSaved, Cleared, vars, diskvars
<1>6. Loading'
  BY <1>1 DEF RInv, Loading, Visiting, VisitedInOrder, NewestLoaded, BackupPackets, BackupSlots,
     LoadPlace, RingPackets, vars, diskvars, loadvars
<1> QED
  BY <1>2, <1>3, <1>4, <1>5, <1>6 DEF RInv

(* The invariant holds over any number of restarts: with mapped, unmapped  *)
(* and volatile rings, through failed saves, crashes and rebuilds.         *)
THEOREM RestartInvariant == RSpec => []RInv
<1>1. RInit => RInv
  BY RInitSatisfies
<1>2. RInv /\ [RNext]_rvars => RInv'
  <2> SUFFICES ASSUME RInv, [RNext]_rvars
               PROVE  RInv'
    OBVIOUS
  <2>1. ASSUME NEW c \in Configs, StartServer(c)
        PROVE  RInv'
    BY <2>1, RecoverPreserves, ResetPreserves DEF StartServer
  <2>2. ASSUME NEW c \in Configs, StartRecovering(c)
        PROVE  RInv'
    BY <2>2, RecoveringPreserves
  <2>3. CASE MoveIndex \/ Reinitialize \/ OtherServer
    BY <2>3, MoveIndexPreserves, ReinitializePreserves, OtherPreserves
  <2>4. ASSUME NEW sid \in Streams, NEW now \in Instants, ServerWrite(sid, now)
        PROVE  RInv'
    BY <2>4, ServerWritePreserves
  <2>5. CASE LoadSkip \/ (\E now \in Instants : LoadPacket(now))
    BY <2>5, LoadVisitPreserves
  <2>6. ASSUME NEW now \in Instants, LoadBreak(now)
        PROVE  RInv'
    BY <2>6, LoadBreakPreserves
  <2>7. CASE LoadOpen \/ LoadDone \/ LoadRefused
    BY <2>7, LoadOpenPreserves, LoadEndPreserves
  <2>8. CASE ShutdownVolatile \/ ShutdownOpen \/ ShutdownIndex \/ ShutdownRing
    BY <2>8, VolatilePreserves, OpenPreserves, IndexPreserves, ShutdownPreserves
  <2>9. CASE Crash
    BY <2>9, CrashPreserves
  <2>10. CASE UNCHANGED rvars
    BY <2>10, RStutter
  <2> QED
    BY <2>1, <2>2, <2>3, <2>4, <2>5, <2>6, <2>7, <2>8, <2>9, <2>10 DEF RNext
<1> QED
  BY <1>1, <1>2, PTL DEF RSpec

(* The ring, the files and the steps of RingShutdown() and LoadBufferV3()  *)
(* keep their types.                                                       *)
THEOREM RestartTypeCorrect == RSpec => []RTypeOK
<1>1. RInv => RTypeOK
  BY DEF RInv, RingTypes, ServerTypes, RTypeOK
<1> QED
  BY <1>1, RestartInvariant, PTL

(* Unless it was read from torn files, the ring a server works on agrees   *)
(* with its stream index, links and count.                                 *)
THEOREM RecoveredSound == RSpec => []RecoveredRingSound
<1>1. RInv => RecoveredRingSound
  <2> SUFFICES ASSUME RInv, server # "down", "torn" \notin marks.ring
               PROVE  SoundRing
    BY DEF RecoveredRingSound
  <2>1. Sound /\ CountAgrees
    BY GoodNow DEF RInv
  <2> QED
    BY <2>1 DEF SoundRing, Sound, CountAgrees, IndexSound, LinksSound, FirstInRing, LastInRing,
       First, Last, After, OfStream, PacketsOf, Rank
<1> QED
  BY <1>1, RestartInvariant, PTL

(* Creation times grow in ring order over restarts, unless files were torn *)
(* or the clock was behind the latest packet at the first write.           *)
THEOREM RestartTimesIncrease == RSpec => []TimesIncreaseOverRestarts
<1>1. RInv => TimesIncreaseOverRestarts
  BY GoodNow DEF TimesIncreaseOverRestarts
<1> QED
  BY <1>1, RestartInvariant, PTL

(* A start that recovers untorn files brings back the packets of the last  *)
(* orderly RingShutdown().                                                 *)
THEOREM RestartRestores == RSpec => RestartRestoresSaved
<1>1. RInv /\ [RNext]_rvars =>
        [\A c \in Configs :
           StartServer(c) /\ Outcome(c) = "recovered" /\ "torn" \notin marks.files
             => RingPackets' = saved]_rvars
  <2> SUFFICES ASSUME RInv, NEW c \in Configs, StartServer(c), Outcome(c) = "recovered",
                      "torn" \notin marks.files
               PROVE  RingPackets' = saved
    OBVIOUS
  <2>1. /\ server = "down" /\ slot' = ringfile.slot
        /\ earliestoffset' = ringfile.header.earliestoffset
        /\ latestoffset' = ringfile.header.latestoffset
    BY DEF StartServer, Start, RecoverRing
  <2>2. ringfile.header.version = RING_VERSION /\ ringfile.header.params = Mine
    BY DEF Outcome
  <2>3. PacketsOfBuffer(MaxPackets, ringfile.slot, ringfile.header.earliestoffset,
                        ringfile.header.latestoffset) = saved
    BY <2>1, <2>2 DEF RInv, FilesGood
  <2> QED
    BY <2>1, <2>3 DEF RingPackets
<1> QED
  BY <1>1, RestartInvariant, PTL DEF RSpec, RestartRestoresSaved


(* While a buffer is rebuilt, every packet of it is visited once and in    *)
(* order, and the ring holds the newest of those that were not skipped, as *)
(* many as fit: whatever the two numbers of slots and wherever the buffer  *)
(* begins (LoadBufferV3()).                                                *)
THEOREM RebuildKeeps == RSpec => RebuildKeepsPackets
<1>1. RInv /\ [RNext]_rvars =>
        [LoadSkip \/ (\E now \in Instants : LoadPacket(now))
           => VisitedInOrder' /\ RingPackets' = NewestLoaded']_rvars
  BY LoadVisitPreserves
<1> QED
  BY <1>1, RestartInvariant, PTL DEF RSpec, RebuildKeepsPackets

=============================================================================
