---------------------------- MODULE PositionProofs ----------------------------
(***************************************************************************)
(* Where the readers of RingReaders may be, for any number of readers,     *)
(* slots and streams and any pace of writing: every offset a reader goes   *)
(* by is one of a slot (types), and while the buffer fills up for the      *)
(* first time every such slot has been written to: no reader gets ahead of *)
(* the writer.                                                             *)
(***************************************************************************)
EXTENDS ReadersProofs

Commits == {"earliest", "latest"}

Finds  == {"f_earliest", "f_latest", "f_esample", "f_eid", "f_echeck",
           "f_lsample", "f_lid", "f_lcheck", "f_bisect", "f_scan"}
Bounded == Finds \ {"f_earliest", "f_latest"}
Reading == {"rn_position", "rn_filter", "rn_copy"}
Labels == {"idle", "rp_sample", "rp_copy", "rn_latest", "rn_sample", "rn_reposition",
           "ps_time", "ps_check"} \cup Finds \cup Reading

\* The labels at which a reader is about to look at slot off.
AtSlot == {"rp_sample", "rp_copy", "f_esample", "f_eid", "f_echeck", "f_lsample",
           "f_lid", "f_lcheck", "ps_time", "ps_check"} \cup Reading

ReaderType == [pktoffset : Offsets \cup {-1}, pktid : PktIds \cup (RINGID_NEXT .. -1),
               pkttime : Nat \cup {NSTUNSET}]

LocType ==
  [eo : Offsets \cup {-1}, lo : Offsets \cup {-1},
   latestid : PktIds \cup {NSTUNSET}, latesttime : Nat \cup {NSTUNSET},
   skipped : Nat, began : Nat,
   req : PktIds \cup (RINGID_NEXT .. -1), chk : Nat \cup {NSTUNSET},
   e : Offsets \cup {-1}, l : Offsets \cup {-1},
   eid : PktIds \cup {NSTUNSET}, lid : PktIds \cup {NSTUNSET},
   low : Nat, high : -1 .. MaxPackets - 1, at : Offsets]

\* Some slot has never been written to: its stamp is still zero.
Filling == \E o \in Offsets : slot[o].pkttime = 0

-----------------------------------------------------------------------------
(* The writer.                                                             *)

\* The ends of the ring and the slot being written.
EndsOK ==
  /\ earliestoffset \in Offsets \cup {-1}
  /\ wpc \in {"idle"} \cup Unpublished \cup Commits
  /\ wtodo \subseteq {"pktid", "streamid"}
  /\ latestoffset >= 0 \/ wpc = "latest" => earliestoffset >= 0
  /\ wpc # "idle" => woff = TargetOffset

\* Between publishing and committing, the slot written is the newest.
NewestCommits ==
  wpc \in Commits =>
    /\ slot[woff].pkttime = last_pkttime /\ last_pkttime > 0
    /\ \A o \in Offsets \ {woff} : slot[o].pkttime < last_pkttime

\* In a buffer that is filling up the slots are written in order from the
\* first; those up to the latest packet are published and in order of time.
FillsInOrder ==
  Filling =>
    /\ earliestoffset <= 0
    /\ \A o \in Offsets : o <= latestoffset => slot[o].pkttime > 0
    /\ \A o, p \in Offsets :
         o < p /\ p <= latestoffset => slot[o].pkttime < slot[p].pkttime

WriterInv == EndsOK /\ NewestCommits /\ FillsInOrder

-----------------------------------------------------------------------------
(* The readers.                                                            *)

TypesOf(r) ==
  /\ pc[r] \in Labels
  /\ pc[r] \in {"ps_time", "ps_check"} => op[r] = "position"
  /\ reader[r] \in ReaderType /\ loc[r] \in LocType
  /\ off[r] \in Offsets \cup {-1} /\ ptime[r] \in Nat \cup {NSTUNSET}
  /\ buf[r] \in PacketType /\ rtodo[r] \subseteq Whole

\* A reader about to look at a slot looks at one of the buffer.
LooksAtSlots(r) ==
  /\ pc[r] \in AtSlot => off[r] \in Offsets
  /\ pc[r] \in Bounded => loc[r].e \in Offsets /\ loc[r].l \in Offsets

\* The reader knows the latest packet of its call.
KnowsLatest(r) ==
  \/ pc[r] \in {"rn_sample", "rn_reposition", "rn_position", "rn_filter"}
  \/ op[r] = "next" /\ pc[r] \in Finds

\* In a buffer that is filling up no reader is ahead of the latest packet.
NotAhead(r) ==
  Filling =>
    /\ reader[r].pktoffset <= latestoffset
    /\ loc[r].eo <= 0 /\ loc[r].e <= 0
    /\ loc[r].lo <= latestoffset /\ loc[r].l <= latestoffset
    /\ pc[r] \in {"rp_sample", "rp_copy", "ps_time", "ps_check", "rn_sample"} =>
         off[r] <= latestoffset
    /\ pc[r] \in {"rp_sample", "rp_copy"} /\ op[r] = "next" =>
         off[r] = loc[r].lo /\ reader[r].pktoffset < loc[r].lo
    /\ KnowsLatest(r) => loc[r].lo >= 0 /\ loc[r].latesttime = slot[loc[r].lo].pkttime
    /\ pc[r] \in Reading => off[r] <= loc[r].lo
    /\ pc[r] = "f_bisect" => loc[r].high <= loc[r].l
    /\ pc[r] = "f_scan" => loc[r].at <= loc[r].l

\* What reader r was handed last was written.
HandedWritten(r) ==
  pc[r] = "idle" /\ Delivered(r) /\ rv[r].off \in Offsets => rv[r].pkt # Blank

PositionOf(r) == TypesOf(r) /\ LooksAtSlots(r) /\ NotAhead(r) /\ HandedWritten(r)

\* The other tables with an entry per reader.
MoreDomains == DOMAIN reader = Readers /\ DOMAIN loc = Readers

PositionInv ==
  /\ SeqlockInv
  /\ WriterInv
  /\ MoreDomains
  /\ \A r \in Readers : PositionOf(r)

-----------------------------------------------------------------------------
(* The writer's steps.                                                     *)

(* While the buffer fills up the next slot is the one after the latest.    *)
LEMMA FillingTarget ==
  ASSUME WriterTypes, FillsInOrder, Filling
  PROVE  TargetOffset = latestoffset + 1 /\ ~Full
<1>1. PICK u \in Offsets : slot[u].pkttime = 0
  BY DEF Filling
<1>2. latestoffset < u
  BY <1>1 DEF FillsInOrder, WriterTypes, Offsets
<1>3. latestoffset < MaxPackets - 1
  BY <1>2, ReadersAssumption DEF WriterTypes, Offsets
<1> QED
  BY <1>3, ReadersAssumption DEF TargetOffset, Full, NextOffset, FillsInOrder, WriterTypes, Offsets

(* A writer's step that touches no slot up to the latest packet, while the *)
(* buffer fills up, leaves the readers where they may be.                  *)
LEMMA ReadersStay ==
  ASSUME PositionInv, UNCHANGED rvars,
         Filling' => /\ Filling
                     /\ latestoffset <= latestoffset'
                     /\ \A o \in Offsets : o <= latestoffset => slot'[o] = slot[o],
         latestoffset' \in Offsets \cup {-1}
  PROVE  MoreDomains' /\ \A r \in Readers : PositionOf(r)'
<1>1. /\ pc' = pc /\ op' = op /\ off' = off /\ ptime' = ptime /\ buf' = buf
      /\ rtodo' = rtodo /\ rv' = rv /\ reader' = reader /\ loc' = loc
  BY DEF rvars, locals
<1>2. MoreDomains'
  BY <1>1 DEF PositionInv, MoreDomains
<1>3. ASSUME NEW r \in Readers
      PROVE  PositionOf(r)'
  <2>1. TypesOf(r) /\ LooksAtSlots(r) /\ NotAhead(r) /\ HandedWritten(r)
    BY DEF PositionInv, PositionOf
  <2>2. TypesOf(r)'
    BY <1>1, <2>1 DEF TypesOf
  <2>3. LooksAtSlots(r)'
    BY <1>1, <2>1 DEF LooksAtSlots
  <2>4. NotAhead(r)'
    <3> SUFFICES ASSUME Filling'
                 PROVE  NotAhead(r)'
      BY DEF NotAhead
    <3>1. /\ latestoffset \in Offsets \cup {-1} /\ latestoffset' \in Offsets \cup {-1}
          /\ latestoffset <= latestoffset'
      BY DEF PositionInv, SeqlockInv, WriterTypes
    <3>2. /\ reader[r].pktoffset \in Int /\ off[r] \in Int
          /\ loc[r].lo \in Offsets \cup {-1} /\ loc[r].l \in Int
      BY <2>1 DEF TypesOf, ReaderType, LocType, Offsets
    <3>3. KnowsLatest(r)' <=> KnowsLatest(r)
      BY <1>1 DEF KnowsLatest
    <3>4. KnowsLatest(r) => slot'[loc[r].lo] = slot[loc[r].lo]
      BY <2>1, <3>1, <3>2 DEF NotAhead, Offsets
    <3> QED
      BY <1>1, <2>1, <3>1, <3>2, <3>3, <3>4 DEF NotAhead, Offsets
  <2>5. HandedWritten(r)'
    BY <1>1, <2>1 DEF HandedWritten, Delivered
  <2> QED
    BY <2>2, <2>3, <2>4, <2>5 DEF PositionOf
<1> QED
  BY <1>2, <1>3

(* Stamping, choosing the slot and dropping the earliest packet.           *)
LEMMA StartPositions ==
  ASSUME PositionInv, NEW sid \in Streams, NEW reqid \in SuppliedIds \cup {RINGID_NONE},
         WStart(sid, reqid)
  PROVE  PositionInv'
<1>1. SeqlockInv /\ WriterTypes /\ EndsOK /\ FillsInOrder
  BY DEF PositionInv, SeqlockInv, WriterInv
<1>2. /\ wpc = "idle" /\ wpc' = "invalidate" /\ wtodo' = wtodo
      /\ slot' = slot /\ latestoffset' = latestoffset
      /\ woff' = TargetOffset
      /\ earliestoffset' = IF Full THEN NextOffset(earliestoffset) ELSE earliestoffset
      /\ UNCHANGED rvars
  BY DEF WStart, MayWrite
<1>3. SeqlockInv'
  BY <1>1, StartPreserves
<1>4. Filling' <=> Filling
  BY <1>2 DEF Filling
<1>5. EndsOK'
  <2>1. Full => NextOffset(earliestoffset) \in Offsets
    BY <1>1, NextOffsetInBuffer, ReadersAssumption DEF Full, EndsOK, Offsets
  <2>2. TargetOffset' = TargetOffset
    BY <1>2 DEF TargetOffset
  <2> QED
    BY <1>1, <1>2, <2>1, <2>2, ReadersAssumption
       DEF EndsOK, Full, Unpublished, Commits, Offsets, WriterTypes
<1>6. NewestCommits'
  BY <1>2 DEF NewestCommits, Commits
<1>7. FillsInOrder'
  BY <1>1, <1>2, <1>4, FillingTarget DEF FillsInOrder
<1>8. MoreDomains' /\ \A r \in Readers : PositionOf(r)'
  BY <1>1, <1>2, <1>4, ReadersStay DEF WriterTypes, Offsets
<1> QED
  BY <1>3, <1>5, <1>6, <1>7, <1>8 DEF PositionInv, WriterInv

(* A write that fails after dropping the earliest packet.                  *)
LEMMA ErrorPositions ==
  ASSUME PositionInv, WError
  PROVE  PositionInv'
<1>1. SeqlockInv /\ WriterTypes /\ EndsOK /\ FillsInOrder
  BY DEF PositionInv, SeqlockInv, WriterInv
<1>2. /\ wpc = "idle" /\ wpc' = "idle" /\ wtodo' = wtodo
      /\ slot' = slot /\ latestoffset' = latestoffset
      /\ earliestoffset' = IF Full THEN NextOffset(earliestoffset) ELSE earliestoffset
      /\ UNCHANGED rvars
  BY DEF WError, MayWrite
<1>3. SeqlockInv'
  BY <1>1, ErrorPreserves
<1>4. Filling' <=> Filling
  BY <1>2 DEF Filling
<1>5. EndsOK'
  <2>1. Full => NextOffset(earliestoffset) \in Offsets
    BY <1>1, NextOffsetInBuffer, ReadersAssumption DEF Full, EndsOK, Offsets
  <2> QED
    BY <1>1, <1>2, <2>1, ReadersAssumption
       DEF EndsOK, Full, Unpublished, Commits, Offsets, WriterTypes
<1>6. NewestCommits'
  BY <1>2 DEF NewestCommits, Commits
<1>7. FillsInOrder'
  BY <1>1, <1>2, <1>4, FillingTarget DEF FillsInOrder
<1>8. MoreDomains' /\ \A r \in Readers : PositionOf(r)'
  BY <1>1, <1>2, <1>4, ReadersStay DEF WriterTypes, Offsets
<1> QED
  BY <1>3, <1>5, <1>6, <1>7, <1>8 DEF PositionInv, WriterInv

(* The stores into the slot before it is published: its stamp is unset.    *)
LEMMA StorePositions ==
  ASSUME PositionInv,
         WInvalidate \/ WPayload \/ \E f \in {"pktid", "streamid"} : WHeader(f)
  PROVE  PositionInv'
<1>1. SeqlockInv /\ WriterTypes /\ EndsOK /\ FillsInOrder /\ SlotsHoldPackets
  BY DEF PositionInv, SeqlockInv, WriterInv
<1>2. /\ wpc \in Unpublished /\ wpc' \in Unpublished
      /\ latestoffset' = latestoffset /\ earliestoffset' = earliestoffset /\ woff' = woff
      /\ wtodo' \subseteq wtodo \cup {"pktid", "streamid"}
      /\ UNCHANGED rvars
  BY DEF WInvalidate, WPayload, WHeader, Unpublished
<1>3. SeqlockInv'
  BY <1>1, InvalidatePreserves, PayloadPreserves, HeaderPreserves
<1>4. \A o \in Offsets \ {woff} : slot'[o] = slot[o]
  BY <1>1 DEF WInvalidate, WPayload, WHeader, WriterTypes
<1>5. slot'[woff].pkttime = NSTUNSET
  BY <1>1, <1>3 DEF WInvalidate, WPayload, WHeader, SeqlockInv, SlotsHoldPackets
<1>6. Filling' => Filling /\ woff = latestoffset + 1
  <2>1. Filling' => Filling
    BY <1>4, <1>5, <1>1 DEF Filling, NSTUNSET, WriterTypes
  <2> QED
    BY <1>1, <1>2, <2>1, FillingTarget DEF EndsOK, Unpublished
<1>7. EndsOK'
  <2>1. TargetOffset' = TargetOffset
    BY <1>2 DEF TargetOffset
  <2> QED
    BY <1>1, <1>2, <2>1 DEF EndsOK, Unpublished
<1>8. NewestCommits'
  BY <1>2 DEF NewestCommits, Commits, Unpublished
<1>9. Filling' => \A o \in Offsets : o <= latestoffset => slot'[o] = slot[o]
  BY <1>1, <1>4, <1>6 DEF WriterTypes, Offsets
<1>10. FillsInOrder'
  <2> SUFFICES ASSUME Filling'
               PROVE  FillsInOrder'
    BY DEF FillsInOrder
  <2>1. ASSUME NEW o \in Offsets, NEW p \in Offsets, o < p, p <= latestoffset
        PROVE  o <= latestoffset
    BY <1>1, <2>1 DEF Offsets, WriterTypes
  <2> QED
    BY <1>1, <1>2, <1>6, <1>9, <2>1 DEF FillsInOrder
<1>11. MoreDomains' /\ \A r \in Readers : PositionOf(r)'
  BY <1>1, <1>2, <1>6, <1>9, ReadersStay DEF WriterTypes, Offsets
<1> QED
  BY <1>3, <1>7, <1>8, <1>10, <1>11 DEF PositionInv, WriterInv

(* Publishing the packet.                                                  *)
LEMMA PublishPositions ==
  ASSUME PositionInv, WPublish
  PROVE  PositionInv'
<1>1. /\ SeqlockInv /\ WriterTypes /\ EndsOK /\ FillsInOrder
      /\ StampsNamePackets /\ SlotsHoldPackets
  BY DEF PositionInv, SeqlockInv, WriterInv
<1>2. /\ wpc = "header" /\ wpc' = "earliest" /\ wtodo' = wtodo
      /\ latestoffset' = latestoffset /\ earliestoffset' = earliestoffset /\ woff' = woff
      /\ last_pkttime' = last_pkttime
      /\ slot' = [slot EXCEPT ![woff].pkttime = wpkt.pkttime]
      /\ UNCHANGED rvars
  BY DEF WPublish
<1>3. SeqlockInv'
  BY <1>1, PublishPreserves
<1>4. \A o \in Offsets \ {woff} : slot'[o] = slot[o]
  BY <1>1, <1>2 DEF WriterTypes
<1>5. slot'[woff].pkttime = last_pkttime /\ last_pkttime > 0
  <2>1. wpkt.pkttime = last_pkttime /\ wpkt.pkttime > 0
    BY <1>1, <1>2 DEF StampsNamePackets, Unpublished
  <2>2. woff \in Offsets /\ slot[woff] \in PacketType
    BY <1>1 DEF WriterTypes
  <2> QED
    BY <1>1, <1>2, <2>1, <2>2 DEF WriterTypes, PacketType
<1>6. Filling' => Filling /\ woff = latestoffset + 1
  <2>1. Filling' => Filling
    BY <1>1, <1>4, <1>5 DEF Filling, WriterTypes
  <2> QED
    BY <1>1, <1>2, <2>1, FillingTarget DEF EndsOK
<1>7. EndsOK'
  <2>1. TargetOffset' = TargetOffset
    BY <1>2 DEF TargetOffset
  <2> QED
    BY <1>1, <1>2, <2>1 DEF EndsOK, Commits
<1>8. NewestCommits'
  <2>1. ASSUME NEW o \in Offsets \ {woff}
        PROVE  slot[o].pkttime < last_pkttime
    <3>1. CASE slot[o].pkttime = NSTUNSET
      BY <1>1, <3>1 DEF NSTUNSET, WriterTypes
    <3>2. CASE slot[o].pkttime # NSTUNSET
      BY <1>1, <1>2, <3>2, SampledIsOld DEF Unpublished
    <3> QED
      BY <3>1, <3>2
  <2> QED
    BY <1>2, <1>4, <1>5, <2>1 DEF NewestCommits
<1>9. Filling' => \A o \in Offsets : o <= latestoffset => slot'[o] = slot[o]
  BY <1>1, <1>4, <1>6 DEF WriterTypes, Offsets
<1>10. FillsInOrder'
  <2> SUFFICES ASSUME Filling'
               PROVE  FillsInOrder'
    BY DEF FillsInOrder
  <2>1. ASSUME NEW o \in Offsets, NEW p \in Offsets, o < p, p <= latestoffset
        PROVE  o <= latestoffset
    BY <1>1, <2>1 DEF Offsets, WriterTypes
  <2> QED
    BY <1>1, <1>2, <1>6, <1>9, <2>1 DEF FillsInOrder
<1>11. MoreDomains' /\ \A r \in Readers : PositionOf(r)'
  BY <1>1, <1>2, <1>6, <1>9, ReadersStay DEF WriterTypes, Offsets
<1> QED
  BY <1>3, <1>7, <1>8, <1>10, <1>11 DEF PositionInv, WriterInv

(* Committing the packet: the ends of the ring move.                       *)
LEMMA CommitPositions ==
  ASSUME PositionInv, WEarliest \/ WLatest
  PROVE  PositionInv'
<1>1. SeqlockInv /\ WriterTypes /\ EndsOK /\ FillsInOrder /\ NewestCommits
  BY DEF PositionInv, SeqlockInv, WriterInv
<1>2. /\ wpc \in Commits /\ slot' = slot /\ woff' = woff /\ wtodo' = wtodo
      /\ last_pkttime' = last_pkttime
      /\ UNCHANGED rvars
  BY DEF WEarliest, WLatest, Commits
<1>3. SeqlockInv'
  BY <1>1, CommitPreserves
<1>4. Filling' <=> Filling
  BY <1>2 DEF Filling
<1>5. Filling => woff = latestoffset + 1
  BY <1>1, <1>2, FillingTarget DEF EndsOK, Commits
<1>6. CASE WEarliest
  <2>1. /\ wpc = "earliest" /\ wpc' = "latest" /\ latestoffset' = latestoffset
        /\ earliestoffset' = IF earliestoffset < 0 THEN woff ELSE earliestoffset
    BY <1>6 DEF WEarliest
  <2>2. EndsOK'
    <3>1. TargetOffset' = TargetOffset
      BY <2>1 DEF TargetOffset
    <3> QED
      BY <1>1, <1>2, <2>1, <3>1 DEF EndsOK, Commits, WriterTypes, Offsets
  <2>3. NewestCommits'
    BY <1>1, <1>2, <2>1 DEF NewestCommits, Commits
  <2>4. FillsInOrder'
    BY <1>1, <1>2, <1>4, <1>5, <2>1 DEF FillsInOrder, EndsOK, WriterTypes, Offsets
  <2>5. MoreDomains' /\ \A r \in Readers : PositionOf(r)'
    BY <1>1, <1>2, <1>4, <2>1, ReadersStay DEF WriterTypes, Offsets
  <2> QED
    BY <1>3, <2>2, <2>3, <2>4, <2>5 DEF PositionInv, WriterInv
<1>7. CASE WLatest
  <2>1. /\ wpc = "latest" /\ wpc' = "idle" /\ latestoffset' = woff
        /\ earliestoffset' = earliestoffset
    BY <1>7 DEF WLatest
  <2>2. EndsOK'
    BY <1>1, <1>2, <2>1 DEF EndsOK, Commits, WriterTypes, Offsets
  <2>3. NewestCommits'
    BY <2>1 DEF NewestCommits, Commits
  <2>4. FillsInOrder'
    <3> SUFFICES ASSUME Filling
                 PROVE  FillsInOrder'
      BY <1>4 DEF FillsInOrder
    <3>1. /\ woff \in Offsets /\ latestoffset \in Int /\ woff = latestoffset + 1
          /\ slot[woff].pkttime > 0
          /\ \A o \in Offsets \ {woff} : slot[o].pkttime < slot[woff].pkttime
      BY <1>1, <1>2, <1>5 DEF WriterTypes, NewestCommits, Offsets
    <3>2. \A o \in Offsets : o <= woff => o = woff \/ o <= latestoffset
      BY <3>1 DEF Offsets
    <3>3. \A o \in Offsets : o <= woff => slot[o].pkttime > 0
      BY <1>1, <3>1, <3>2 DEF FillsInOrder
    <3>4. ASSUME NEW o \in Offsets, NEW p \in Offsets, o < p, p <= woff
          PROVE  slot[o].pkttime < slot[p].pkttime
      <4>1. CASE p = woff
        BY <3>1, <3>4, <4>1 DEF Offsets
      <4>2. CASE p # woff
        BY <1>1, <3>2, <3>4, <4>2 DEF FillsInOrder
      <4> QED
        BY <4>1, <4>2
    <3> QED
      BY <1>1, <1>2, <2>1, <3>3, <3>4 DEF FillsInOrder
  <2>5. MoreDomains' /\ \A r \in Readers : PositionOf(r)'
    BY <1>1, <1>2, <1>4, <1>5, <2>1, ReadersStay DEF WriterTypes, Offsets
  <2> QED
    BY <1>3, <2>2, <2>3, <2>4, <2>5 DEF PositionInv, WriterInv
<1> QED
  BY <1>6, <1>7

-----------------------------------------------------------------------------
(* The readers' steps.                                                     *)

\* A step of reader r alone.
Alone(r) ==
  /\ OnlyReader(r)
  /\ MoreDomains'
  /\ \A q \in Readers : q # r => reader'[q] = reader[q] /\ loc'[q] = loc[q]

(* Such a step has to answer for reader r only.                            *)
LEMMA AloneSuffices ==
  ASSUME PositionInv, NEW r \in Readers, SeqlockInv', Alone(r), PositionOf(r)'
  PROVE  PositionInv'
<1>1. /\ slot' = slot /\ latestoffset' = latestoffset /\ earliestoffset' = earliestoffset
      /\ wpc' = wpc /\ woff' = woff /\ wtodo' = wtodo /\ last_pkttime' = last_pkttime
  BY DEF Alone, OnlyReader, wvars
<1>2. WriterInv'
  BY <1>1 DEF PositionInv, WriterInv, EndsOK, NewestCommits, FillsInOrder, Filling, TargetOffset
<1>3. ASSUME NEW q \in Readers, q # r
      PROVE  PositionOf(q)'
  <2>1. /\ pc'[q] = pc[q] /\ op'[q] = op[q] /\ off'[q] = off[q] /\ ptime'[q] = ptime[q]
        /\ buf'[q] = buf[q] /\ rtodo'[q] = rtodo[q] /\ rv'[q] = rv[q]
        /\ reader'[q] = reader[q] /\ loc'[q] = loc[q]
    BY <1>3 DEF Alone, OnlyReader
  <2>2. TypesOf(q) /\ LooksAtSlots(q) /\ NotAhead(q) /\ HandedWritten(q)
    BY DEF PositionInv, PositionOf
  <2>3. TypesOf(q)' /\ LooksAtSlots(q)'
    BY <2>1, <2>2 DEF TypesOf, LooksAtSlots
  <2>4. NotAhead(q)'
    BY <1>1, <2>1, <2>2 DEF NotAhead, KnowsLatest, Filling
  <2>5. HandedWritten(q)'
    BY <2>1, <2>2 DEF HandedWritten, Delivered
  <2> QED
    BY <2>3, <2>4, <2>5 DEF PositionOf
<1> QED
  BY <1>2, <1>3 DEF PositionInv, Alone

(* The local variables of a reader outside the ring functions.             *)
LEMMA NoLocalsTyped ==
  /\ NoLocals \in LocType
  /\ NoLocals.eo = -1 /\ NoLocals.e = -1 /\ NoLocals.lo = -1 /\ NoLocals.l = -1
BY ReadersAssumption DEF NoLocals, LocType, Offsets, PktIds, NSTUNSET, RINGID_NEXT

(* A function returns: its position is a slot that was written, and so is  *)
(* the packet it hands out.                                                *)
LEMMA ReturnPositions ==
  ASSUME PositionInv, NEW r \in Readers, SeqlockInv', UNCHANGED wvars,
         NEW id, NEW p, Return(r, id, p), MoreDomains',
         DOMAIN op' = Readers, \A q \in Readers : q # r => op'[q] = op[q],
         \A q \in Readers : q # r => reader'[q] = reader[q],
         reader'[r] \in ReaderType,
         Filling => reader'[r].pktoffset <= latestoffset,
         off[r] \in Offsets /\ id \in PktIds /\ op'[r] \in {"next", "read"} => p # Blank
  PROVE  PositionInv'
<1>1. SeqlockInv /\ MoreDomains /\ ReaderDomains
  BY DEF PositionInv, SeqlockInv
<1>2. OnlyReader(r) /\ pc'[r] = "idle" /\ rv'[r].pkt = p /\ rv'[r].off = off[r]
  BY <1>1, ReturnEffect
<1>3. /\ rv'[r].id = id /\ loc'[r] = NoLocals /\ off'[r] = 0 /\ ptime'[r] = NSTUNSET
      /\ buf'[r] = Blank /\ rtodo'[r] = {}
      /\ \A q \in Readers : q # r => loc'[q] = loc[q]
  BY <1>1 DEF Return, ReaderDomains, MoreDomains
<1>4. Alone(r)
  BY <1>2, <1>3 DEF Alone
<1>5. TypesOf(r)'
  BY <1>2, <1>3, NoLocalsTyped, BlankPacket, ReadersAssumption
     DEF TypesOf, Labels, Offsets
<1>6. LooksAtSlots(r)'
  BY <1>2 DEF LooksAtSlots, AtSlot, Bounded, Finds, Reading
<1>7. NotAhead(r)'
  <2>1. ~KnowsLatest(r)'
    BY <1>2 DEF KnowsLatest, Finds
  <2>2. latestoffset' = latestoffset /\ (Filling' <=> Filling)
        /\ latestoffset \in Offsets \cup {-1}
    BY <1>1 DEF wvars, Filling, SeqlockInv, WriterTypes
  <2> QED
    BY <1>2, <1>3, <2>1, <2>2, NoLocalsTyped DEF NotAhead, Reading, Offsets
<1>8. HandedWritten(r)'
  BY <1>2, <1>3 DEF HandedWritten, Delivered
<1> QED
  BY <1>4, <1>5, <1>6, <1>7, <1>8, AloneSuffices DEF PositionOf

(* A step in the middle of a function.                                     *)
LEMMA MidCall ==
  ASSUME PositionInv, NEW r \in Readers, SeqlockInv', Alone(r), pc'[r] # "idle",
         TypesOf(r)', LooksAtSlots(r)', NotAhead(r)'
  PROVE  PositionInv'
<1>1. HandedWritten(r)'
  BY DEF HandedWritten
<1> QED
  BY <1>1, AloneSuffices DEF PositionOf

(* What a step of reader r may rely on.                                    *)
LEMMA ReaderFacts ==
  ASSUME PositionInv, NEW r \in Readers
  PROVE  /\ SeqlockInv /\ WriterInv /\ MoreDomains /\ ReaderDomains /\ WriterTypes
         /\ TypesOf(r) /\ LooksAtSlots(r) /\ NotAhead(r)
BY DEF PositionInv, PositionOf, SeqlockInv

(* A step that leaves the ring alone changes nothing of what readers see.  *)
LEMMA SameRing ==
  ASSUME UNCHANGED wvars
  PROVE  /\ slot' = slot /\ latestoffset' = latestoffset /\ (Filling' <=> Filling)
BY DEF wvars, Filling

(* A field of the slot is copied.                                          *)
LEMMA CopyPositions ==
  ASSUME PositionInv, NEW r \in Readers, NEW f \in Whole, CopyField(r, f)
  PROVE  PositionInv'
<1>1. /\ SeqlockInv /\ MoreDomains /\ ReaderDomains /\ WriterTypes
      /\ TypesOf(r) /\ LooksAtSlots(r) /\ NotAhead(r)
  BY ReaderFacts
<1>2. /\ pc' = pc /\ op' = op /\ off' = off /\ ptime' = ptime /\ loc' = loc
      /\ reader' = reader /\ rtodo'[r] \subseteq rtodo[r] /\ UNCHANGED wvars
      /\ pc[r] \in {"rp_copy", "rn_copy"}
      /\ Alone(r)
  BY <1>1 DEF CopyField, Alone, OnlyReader, ReaderDomains, MoreDomains
<1>3. SeqlockInv'
  BY <1>1, CopyPreserves
<1>4. buf'[r] \in PacketType
  <2>1. off[r] \in Offsets
    BY <1>1, <1>2 DEF LooksAtSlots, AtSlot, Reading
  <2>2. CopyIsFaithful(r)'
    BY <1>3 DEF SeqlockInv, ReaderInv
  <2> QED
    BY <1>2, <2>1, <2>2 DEF CopyIsFaithful, Copying
<1>5. TypesOf(r)'
  BY <1>1, <1>2, <1>4 DEF TypesOf
<1>6. LooksAtSlots(r)'
  BY <1>1, <1>2 DEF LooksAtSlots
<1>7. NotAhead(r)'
  BY <1>1, <1>2, SameRing DEF NotAhead, KnowsLatest
<1> QED
  BY <1>2, <1>3, <1>5, <1>6, <1>7, MidCall

(* Sampling the packet to be copied.                                       *)
LEMMA RPSamplePositions ==
  ASSUME PositionInv, NEW r \in Readers, RPSample(r)
  PROVE  PositionInv'
<1>1. /\ SeqlockInv /\ MoreDomains /\ ReaderDomains /\ WriterTypes
      /\ TypesOf(r) /\ LooksAtSlots(r) /\ NotAhead(r)
  BY ReaderFacts
<1>2. /\ pc[r] = "rp_sample" /\ pc'[r] = "rp_copy"
      /\ op' = op /\ off' = off /\ loc' = loc /\ reader' = reader /\ UNCHANGED wvars
      /\ ptime'[r] = slot[off[r]].pkttime /\ buf'[r] = Blank /\ rtodo'[r] \subseteq Whole
      /\ Alone(r)
  BY <1>1 DEF RPSample, Goto, Alone, OnlyReader, ReaderDomains, MoreDomains, Header, Whole
<1>3. SeqlockInv'
  BY <1>1, SamplePreserves
<1>4. off[r] \in Offsets
  BY <1>1, <1>2 DEF LooksAtSlots, AtSlot
<1>5. TypesOf(r)'
  BY <1>1, <1>2, <1>4, BlankPacket DEF TypesOf, Labels, WriterTypes, PacketType
<1>6. LooksAtSlots(r)'
  BY <1>2, <1>4 DEF LooksAtSlots, Bounded, Finds
<1>7. NotAhead(r)'
  BY <1>1, <1>2, SameRing DEF NotAhead, KnowsLatest, Finds, Reading
<1> QED
  BY <1>2, <1>3, <1>5, <1>6, <1>7, MidCall

(* A packet that could not be read: the function gives up.                 *)
LEMMA RPNonePositions ==
  ASSUME PositionInv, NEW r \in Readers, RPNone(r)
  PROVE  PositionInv'
<1>1. /\ SeqlockInv /\ MoreDomains /\ ReaderDomains /\ WriterTypes
      /\ TypesOf(r) /\ LooksAtSlots(r) /\ NotAhead(r)
  BY ReaderFacts
<1>2. SeqlockInv'
  BY <1>1, CodePreserves
<1>3. /\ op' = op /\ UNCHANGED wvars /\ MoreDomains'
      /\ \A q \in Readers : q # r => reader'[q] = reader[q]
  BY <1>1 DEF RPNone, SetReader, MoreDomains, ReturnCode, Return
<1>4. reader'[r] \in ReaderType /\ (Filling => reader'[r].pktoffset <= latestoffset)
  <2>1. CASE op[r] = "before"
    <3>1. reader'[r] = [pktoffset |-> -1, pktid |-> loc[r].req, pkttime |-> NSTUNSET]
      BY <1>1, <2>1 DEF RPNone, SetReader, MoreDomains
    <3>2. loc[r].req \in PktIds \cup (RINGID_NEXT .. -1)
      BY <1>1 DEF TypesOf, LocType
    <3> QED
      BY <1>1, <3>1, <3>2 DEF ReaderType, WriterTypes, Offsets
  <2>2. CASE op[r] # "before"
    BY <1>1, <2>2 DEF RPNone, TypesOf, NotAhead
  <2> QED
    BY <2>1, <2>2
<1>5. PICK id : ReturnCode(r, id) /\ id \notin PktIds
  BY DEF RPNone, RINGID_ERROR, RINGID_NONE, PktIds
<1> QED
  BY <1>1, <1>2, <1>3, <1>4, <1>5, ReturnPositions DEF ReturnCode, ReaderDomains


(* FindOffsetForID() loads the ends of the ring.                           *)
LEMMA FindEndsPositions ==
  ASSUME PositionInv, NEW r \in Readers, FEarliest(r) \/ FLatest(r)
  PROVE  PositionInv'
<1>1. /\ SeqlockInv /\ MoreDomains /\ ReaderDomains /\ WriterTypes
      /\ TypesOf(r) /\ LooksAtSlots(r) /\ NotAhead(r) /\ EndsOK /\ FillsInOrder
  BY ReaderFacts DEF WriterInv
<1>2. SeqlockInv'
  BY <1>1, SearchPreserves
<1>3. CASE FEarliest(r)
  <2>1. /\ pc[r] = "f_earliest" /\ pc'[r] = "f_latest"
        /\ op' = op /\ off' = off /\ reader' = reader /\ UNCHANGED wvars
        /\ ptime' = ptime /\ buf' = buf /\ rtodo' = rtodo
        /\ loc'[r] = [loc[r] EXCEPT !.e = earliestoffset]
        /\ Alone(r)
    BY <1>1, <1>3 DEF FEarliest, Goto, Alone, OnlyReader, ReaderDomains, MoreDomains
  <2>2. loc[r] \in LocType /\ earliestoffset \in Offsets \cup {-1}
    BY <1>1 DEF TypesOf, EndsOK
  <2>3. loc'[r] \in LocType
    BY <2>1, <2>2 DEF LocType
  <2>4. /\ loc'[r].e = earliestoffset /\ loc'[r].eo = loc[r].eo /\ loc'[r].lo = loc[r].lo
        /\ loc'[r].l = loc[r].l /\ loc'[r].latesttime = loc[r].latesttime
    BY <2>1, <2>2 DEF LocType
  <2>5. TypesOf(r)'
    BY <1>1, <2>1, <2>3 DEF TypesOf, Labels, Finds
  <2>6. LooksAtSlots(r)'
    BY <2>1 DEF LooksAtSlots, AtSlot, Bounded, Reading
  <2>7. NotAhead(r)'
    BY <1>1, <2>1, <2>4, SameRing DEF NotAhead, KnowsLatest, FillsInOrder, Finds, Reading
  <2> QED
    BY <1>2, <2>1, <2>5, <2>6, <2>7, MidCall
<1>4. CASE FLatest(r)
  <2>1. /\ pc[r] = "f_latest" /\ pc'[r] = "f_esample" /\ loc[r].e >= 0 /\ latestoffset >= 0
        /\ op' = op /\ off'[r] = loc[r].e /\ reader' = reader /\ UNCHANGED wvars
        /\ ptime' = ptime /\ buf' = buf /\ rtodo' = rtodo
        /\ loc'[r] = [loc[r] EXCEPT !.l = latestoffset]
        /\ Alone(r)
    BY <1>1, <1>4
       DEF FLatest, FSampleNext, Goto, Alone, OnlyReader, ReaderDomains, MoreDomains
  <2>2. loc[r] \in LocType /\ latestoffset \in Offsets \cup {-1}
    BY <1>1 DEF TypesOf, WriterTypes
  <2>3. loc'[r] \in LocType
    BY <2>1, <2>2 DEF LocType
  <2>4. /\ loc'[r].l = latestoffset /\ loc'[r].eo = loc[r].eo /\ loc'[r].lo = loc[r].lo
        /\ loc'[r].e = loc[r].e /\ loc'[r].latesttime = loc[r].latesttime
    BY <2>1, <2>2 DEF LocType
  <2>5. loc[r].e \in Offsets /\ latestoffset \in Offsets
    BY <2>1, <2>2 DEF LocType, Offsets
  <2>6. TypesOf(r)'
    BY <1>1, <2>1, <2>3, <2>5 DEF TypesOf, Labels, Finds
  <2>7. LooksAtSlots(r)'
    BY <2>1, <2>4, <2>5 DEF LooksAtSlots
  <2>8. NotAhead(r)'
    BY <1>1, <2>1, <2>4, <2>5, SameRing DEF NotAhead, KnowsLatest, Finds, Reading, Offsets
  <2> QED
    BY <1>2, <2>1, <2>6, <2>7, <2>8, MidCall
<1> QED
  BY <1>3, <1>4

(* It samples the end packets and reads their IDs.                         *)
LEMMA FindSamplePositions ==
  ASSUME PositionInv, NEW r \in Readers, FSample(r) \/ FId(r) \/ FCheckEarliest(r)
  PROVE  PositionInv'
<1>1. /\ SeqlockInv /\ MoreDomains /\ ReaderDomains /\ WriterTypes
      /\ TypesOf(r) /\ LooksAtSlots(r) /\ NotAhead(r)
  BY ReaderFacts
<1>2. SeqlockInv'
  BY <1>1, SearchPreserves
<1>3. /\ pc[r] \in Bounded /\ off[r] \in Offsets
      /\ loc[r].e \in Offsets /\ loc[r].l \in Offsets
  BY <1>1 DEF FSample, FId, FCheckEarliest, LooksAtSlots, Bounded, Finds, AtSlot
<1>4. slot[off[r]].pkttime \in Nat \cup {NSTUNSET} /\ slot[off[r]].pktid \in PktIds \cup {NSTUNSET}
  BY <1>1, <1>3 DEF WriterTypes, PacketType
<1>5. CASE FSample(r)
  <2>1. /\ pc[r] \in {"f_esample", "f_lsample"} /\ pc'[r] \in {"f_eid", "f_lid"}
        /\ op' = op /\ off' = off /\ loc' = loc /\ reader' = reader /\ UNCHANGED wvars
        /\ ptime'[r] = slot[off[r]].pkttime /\ buf' = buf /\ rtodo' = rtodo
        /\ Alone(r)
    BY <1>1, <1>5 DEF FSample, Goto, Alone, OnlyReader, ReaderDomains, MoreDomains
  <2>2. TypesOf(r)'
    BY <1>1, <1>4, <2>1 DEF TypesOf, Labels, Finds
  <2>3. LooksAtSlots(r)'
    BY <1>3, <2>1 DEF LooksAtSlots
  <2>4. NotAhead(r)'
    BY <1>1, <2>1, SameRing DEF NotAhead, KnowsLatest, Finds, Reading
  <2> QED
    BY <1>2, <2>1, <2>2, <2>3, <2>4, MidCall
<1>6. CASE FId(r)
  <2>1. /\ pc[r] \in {"f_eid", "f_lid"} /\ pc'[r] \in {"f_echeck", "f_lcheck"}
        /\ op' = op /\ off' = off /\ reader' = reader /\ UNCHANGED wvars
        /\ ptime' = ptime /\ buf' = buf /\ rtodo' = rtodo
        /\ \/ loc'[r] = [loc[r] EXCEPT !.eid = slot[off[r]].pktid]
           \/ loc'[r] = [loc[r] EXCEPT !.lid = slot[off[r]].pktid]
        /\ Alone(r)
    BY <1>1, <1>6 DEF FId, Goto, Alone, OnlyReader, ReaderDomains, MoreDomains
  <2>2. loc[r] \in LocType
    BY <1>1 DEF TypesOf
  <2>3. loc'[r] \in LocType
    BY <1>4, <2>1, <2>2 DEF LocType
  <2>4. /\ loc'[r].l = loc[r].l /\ loc'[r].eo = loc[r].eo /\ loc'[r].lo = loc[r].lo
        /\ loc'[r].e = loc[r].e /\ loc'[r].latesttime = loc[r].latesttime
    BY <2>1, <2>2 DEF LocType
  <2>5. TypesOf(r)'
    BY <1>1, <2>1, <2>3 DEF TypesOf, Labels, Finds
  <2>6. LooksAtSlots(r)'
    BY <1>3, <2>1, <2>4 DEF LooksAtSlots
  <2>7. NotAhead(r)'
    BY <1>1, <2>1, <2>4, SameRing DEF NotAhead, KnowsLatest, Finds, Reading
  <2> QED
    BY <1>2, <2>1, <2>5, <2>6, <2>7, MidCall
<1>7. CASE FCheckEarliest(r)
  <2>1. /\ pc[r] = "f_echeck" /\ pc'[r] = "f_lsample"
        /\ op' = op /\ off'[r] = loc[r].l /\ loc' = loc /\ reader' = reader /\ UNCHANGED wvars
        /\ ptime' = ptime /\ buf' = buf /\ rtodo' = rtodo
        /\ Alone(r)
    BY <1>1, <1>7
       DEF FCheckEarliest, FSampleNext, Goto, Alone, OnlyReader, ReaderDomains, MoreDomains
  <2>2. TypesOf(r)'
    BY <1>1, <1>3, <2>1 DEF TypesOf, Labels, Finds
  <2>3. LooksAtSlots(r)'
    BY <1>3, <2>1 DEF LooksAtSlots
  <2>4. NotAhead(r)'
    BY <1>1, <2>1, SameRing DEF NotAhead, KnowsLatest, Finds, Reading
  <2> QED
    BY <1>2, <2>1, <2>2, <2>3, <2>4, MidCall
<1> QED
  BY <1>5, <1>6, <1>7

(* The slot looked at is one between the two ends, and while the buffer    *)
(* fills up none beyond the latest packet.                                 *)
LEMMA ProbeInRing ==
  ASSUME PositionInv, NEW r \in Readers, pc[r] \in {"f_bisect", "f_scan"}, ~Exhausted(r)
  PROVE  /\ Probe(r) \in Offsets
         /\ Filling => Probe(r) <= loc[r].l /\ loc[r].e = 0
         /\ pc[r] = "f_bisect" =>
              Middle(r) \in Nat /\ loc[r].low <= Middle(r) /\ Middle(r) <= loc[r].high
<1>1. TypesOf(r) /\ LooksAtSlots(r) /\ NotAhead(r)
  BY ReaderFacts
<1>2. loc[r].e \in Offsets /\ loc[r].l \in Offsets
  BY <1>1 DEF LooksAtSlots, Bounded, Finds
<1>3. /\ loc[r].low \in Nat /\ loc[r].high \in -1 .. MaxPackets - 1 /\ loc[r].at \in Offsets
  BY <1>1 DEF TypesOf, LocType
<1>4. Filling => loc[r].e = 0
  BY <1>1, <1>2 DEF NotAhead, Offsets
<1>5. CASE pc[r] = "f_scan"
  BY <1>1, <1>2, <1>3, <1>4, <1>5 DEF Probe, NotAhead
<1>6. CASE pc[r] = "f_bisect"
  <2>1. loc[r].low <= loc[r].high
    BY <1>3, <1>6, ReadersAssumption DEF Exhausted
  <2>2. Middle(r) \in Nat /\ loc[r].low <= Middle(r) /\ Middle(r) <= loc[r].high
    BY <1>3, <2>1, ReadersAssumption DEF Middle
  <2>3. Probe(r) \in Offsets
    BY <1>2, <1>3, <1>6, <2>2, ReadersAssumption DEF Probe, Offsets
  <2>4. Filling => Probe(r) <= loc[r].l
    BY <1>1, <1>2, <1>3, <1>4, <1>6, <2>2, ReadersAssumption DEF Probe, NotAhead, Offsets
  <2> QED
    BY <1>4, <2>2, <2>3, <2>4
<1> QED
  BY <1>5, <1>6

(* The search starts with all the slots between the ends.                  *)
LEMMA CheckLatestPositions ==
  ASSUME PositionInv, NEW r \in Readers, FCheckLatest(r)
  PROVE  PositionInv'
<1>1. /\ SeqlockInv /\ MoreDomains /\ ReaderDomains /\ WriterTypes
      /\ TypesOf(r) /\ LooksAtSlots(r) /\ NotAhead(r)
  BY ReaderFacts
<1>2. SeqlockInv'
  BY <1>1, SearchPreserves
<1> DEFINE high == IF loc[r].l < loc[r].e THEN loc[r].l + MaxPackets - loc[r].e
                                           ELSE loc[r].l - loc[r].e
<1>3. /\ pc[r] = "f_lcheck" /\ pc'[r] \in {"f_bisect", "f_scan"}
      /\ op' = op /\ off' = off /\ reader' = reader /\ UNCHANGED wvars
      /\ ptime' = ptime /\ buf' = buf /\ rtodo' = rtodo
      /\ loc'[r] = [loc[r] EXCEPT !.low = 0, !.high = high, !.at = loc[r].l]
      /\ Alone(r)
  BY <1>1 DEF FCheckLatest, Goto, Alone, OnlyReader, ReaderDomains, MoreDomains
<1>4. loc[r] \in LocType /\ loc[r].e \in Offsets /\ loc[r].l \in Offsets
  BY <1>1, <1>3 DEF TypesOf, LooksAtSlots, Bounded, Finds
<1>5. high \in -1 .. MaxPackets - 1 /\ (loc[r].e <= 0 => high <= loc[r].l)
  BY <1>4, ReadersAssumption DEF Offsets
<1> HIDE DEF high
<1>6. loc'[r] \in LocType
  <2>1. [loc[r] EXCEPT !.low = 0] \in LocType
    BY <1>4 DEF LocType
  <2>2. [loc[r] EXCEPT !.low = 0, !.high = high] \in LocType
    BY <1>5, <2>1 DEF LocType
  <2>3. [loc[r] EXCEPT !.low = 0, !.high = high, !.at = loc[r].l] \in LocType
    BY <1>4, <2>2 DEF LocType
  <2> QED
    BY <1>3, <2>3
<1>7. /\ loc'[r].l = loc[r].l /\ loc'[r].eo = loc[r].eo /\ loc'[r].lo = loc[r].lo
      /\ loc'[r].e = loc[r].e /\ loc'[r].latesttime = loc[r].latesttime
      /\ loc'[r].high = high /\ loc'[r].at = loc[r].l
  BY <1>3, <1>4 DEF LocType
<1>8. TypesOf(r)'
  BY <1>1, <1>3, <1>6 DEF TypesOf, Labels, Finds
<1>9. LooksAtSlots(r)'
  BY <1>3, <1>4, <1>7 DEF LooksAtSlots, AtSlot, Reading
<1>10. NotAhead(r)'
  BY <1>1, <1>3, <1>4, <1>5, <1>7, SameRing
     DEF NotAhead, KnowsLatest, Finds, Reading, Offsets
<1> QED
  BY <1>2, <1>3, <1>8, <1>9, <1>10, MidCall

(* The slot looked at holds another packet: the search goes on.            *)
LEMMA MissPositions ==
  ASSUME PositionInv, NEW r \in Readers, FMiss(r)
  PROVE  PositionInv'
<1>1. /\ SeqlockInv /\ MoreDomains /\ ReaderDomains /\ WriterTypes
      /\ TypesOf(r) /\ LooksAtSlots(r) /\ NotAhead(r)
  BY ReaderFacts
<1>2. SeqlockInv'
  BY <1>1, SearchPreserves
<1>3. /\ pc[r] \in {"f_bisect", "f_scan"} /\ pc' = pc /\ ~Exhausted(r)
      /\ pc[r] = "f_scan" => loc[r].at # loc[r].e
      /\ op' = op /\ off' = off /\ reader' = reader /\ UNCHANGED wvars
      /\ ptime' = ptime /\ buf' = buf /\ rtodo' = rtodo
      /\ Alone(r)
  BY <1>1 DEF FMiss, ScannedAll, Goto, Alone, OnlyReader, ReaderDomains, MoreDomains
<1>4. \/ pc[r] = "f_scan" /\ loc'[r] = [loc[r] EXCEPT !.at = PrevOffset(loc[r].at)]
      \/ pc[r] = "f_bisect" /\ loc'[r] = [loc[r] EXCEPT !.low = Middle(r) + 1]
      \/ pc[r] = "f_bisect" /\ loc'[r] = [loc[r] EXCEPT !.high = Middle(r) - 1]
  <2>1. loc'[r] = IF pc[r] = "f_scan" THEN [loc[r] EXCEPT !.at = PrevOffset(loc[r].at)]
                  ELSE IF slot[Probe(r)].pktid < loc[r].req
                    THEN [loc[r] EXCEPT !.low = Middle(r) + 1]
                    ELSE [loc[r] EXCEPT !.high = Middle(r) - 1]
    BY <1>1 DEF FMiss, MoreDomains
  <2> QED
    BY <1>3, <2>1
<1>5. /\ loc[r] \in LocType /\ loc[r].e \in Offsets /\ loc[r].l \in Offsets
      /\ loc[r].at \in Offsets /\ loc[r].high \in -1 .. MaxPackets - 1
  BY <1>1, <1>3 DEF TypesOf, LooksAtSlots, Bounded, Finds, LocType
<1>6. /\ Filling => loc[r].e = 0
      /\ pc[r] = "f_bisect" => Middle(r) \in Nat /\ Middle(r) <= loc[r].high
  BY <1>3, ProbeInRing
<1>7. /\ PrevOffset(loc[r].at) \in Offsets
      /\ loc[r].at # 0 => PrevOffset(loc[r].at) <= loc[r].at
  BY <1>5, ReadersAssumption DEF PrevOffset, Offsets
<1>8. pc[r] = "f_bisect" =>
        /\ Middle(r) + 1 \in Nat /\ Middle(r) - 1 \in -1 .. MaxPackets - 1
        /\ Middle(r) - 1 <= loc[r].high
  BY <1>5, <1>6, ReadersAssumption
<1>9. loc'[r] \in LocType
  <2>1. CASE pc[r] = "f_scan" /\ loc'[r] = [loc[r] EXCEPT !.at = PrevOffset(loc[r].at)]
    BY <1>5, <1>7, <2>1 DEF LocType
  <2>2. CASE pc[r] = "f_bisect" /\ loc'[r] = [loc[r] EXCEPT !.low = Middle(r) + 1]
    BY <1>5, <1>8, <2>2 DEF LocType
  <2>3. CASE pc[r] = "f_bisect" /\ loc'[r] = [loc[r] EXCEPT !.high = Middle(r) - 1]
    BY <1>5, <1>8, <2>3 DEF LocType
  <2> QED
    BY <1>4, <2>1, <2>2, <2>3
<1>10. /\ loc'[r].l = loc[r].l /\ loc'[r].eo = loc[r].eo /\ loc'[r].lo = loc[r].lo
       /\ loc'[r].e = loc[r].e /\ loc'[r].latesttime = loc[r].latesttime
  BY <1>4, <1>5 DEF LocType
<1>11. /\ pc[r] = "f_scan" => loc'[r].at = PrevOffset(loc[r].at)
       /\ pc[r] = "f_bisect" => loc'[r].high \in {loc[r].high, Middle(r) - 1}
  BY <1>4, <1>5 DEF LocType
<1>12. TypesOf(r)'
  BY <1>1, <1>3, <1>9 DEF TypesOf
<1>13. LooksAtSlots(r)'
  BY <1>1, <1>3, <1>10 DEF LooksAtSlots
<1>14. NotAhead(r)'
  <2> SUFFICES ASSUME Filling
               PROVE  NotAhead(r)'
    BY <1>3, SameRing DEF NotAhead
  <2>1. pc[r] = "f_scan" => loc'[r].at <= loc[r].l
    BY <1>1, <1>3, <1>5, <1>6, <1>7, <1>11, ReadersAssumption DEF NotAhead, Offsets
  <2>2. pc[r] = "f_bisect" => loc'[r].high <= loc[r].l
    BY <1>1, <1>5, <1>6, <1>8, <1>11, ReadersAssumption DEF NotAhead, Offsets
  <2> QED
    BY <1>1, <1>3, <1>10, <2>1, <2>2, SameRing DEF NotAhead, KnowsLatest
<1> QED
  BY <1>2, <1>3, <1>12, <1>13, <1>14, MidCall

(* The packet ID is found.                                                 *)
LEMMA FoundPositions ==
  ASSUME PositionInv, NEW r \in Readers, Found(r)
  PROVE  PositionInv'
<1>1. /\ SeqlockInv /\ MoreDomains /\ ReaderDomains /\ WriterTypes
      /\ TypesOf(r) /\ LooksAtSlots(r) /\ NotAhead(r)
  BY ReaderFacts
<1>2. SeqlockInv'
  BY <1>1, SearchPreserves
<1>3. /\ pc[r] \in {"f_bisect", "f_scan"} /\ ~Exhausted(r)
      /\ pc'[r] = IF op[r] = "next" THEN "rn_sample"
                  ELSE IF op[r] = "position" THEN "ps_time" ELSE "rp_sample"
      /\ op' = op /\ off'[r] = Probe(r) /\ loc' = loc /\ reader' = reader /\ UNCHANGED wvars
      /\ ptime' = ptime /\ buf' = buf /\ rtodo' = rtodo
      /\ Alone(r)
  BY <1>1 DEF Found, Hit, FoundAt, Goto, Alone, OnlyReader, ReaderDomains, MoreDomains
<1>4. Probe(r) \in Offsets /\ (Filling => Probe(r) <= loc[r].l)
  BY <1>3, ProbeInRing
<1>5. TypesOf(r)'
  BY <1>1, <1>3, <1>4 DEF TypesOf, Labels
<1>6. LooksAtSlots(r)'
  BY <1>3, <1>4 DEF LooksAtSlots, Bounded, Finds
<1>7. NotAhead(r)'
  <2>1. loc[r].l \in Int /\ latestoffset \in Int
    BY <1>1 DEF TypesOf, LocType, Offsets, WriterTypes
  <2>2. Filling => Probe(r) <= latestoffset
    BY <1>1, <1>4, <2>1 DEF NotAhead, Offsets
  <2> QED
    BY <1>1, <1>3, <2>2, SameRing DEF NotAhead, KnowsLatest, Finds, Reading
<1> QED
  BY <1>2, <1>3, <1>5, <1>6, <1>7, MidCall


(* RingReadNext() begins with the ends of the ring.                        *)
LEMMA ReadNextPositions ==
  ASSUME PositionInv, NEW r \in Readers, CallReadNext(r) \/ RNLatest(r)
  PROVE  PositionInv'
<1>1. /\ SeqlockInv /\ MoreDomains /\ ReaderDomains /\ WriterTypes
      /\ TypesOf(r) /\ LooksAtSlots(r) /\ NotAhead(r) /\ EndsOK /\ FillsInOrder
  BY ReaderFacts DEF WriterInv
<1>2. SeqlockInv'
  BY <1>1, SearchPreserves
<1>3. CASE CallReadNext(r)
  <2>1. /\ pc'[r] = "rn_latest" /\ op'[r] = "next"
        /\ off' = off /\ reader' = reader /\ UNCHANGED wvars
        /\ ptime' = ptime /\ buf' = buf /\ rtodo' = rtodo
        /\ loc'[r] = [loc[r] EXCEPT !.eo = earliestoffset, !.began = last_pkttime]
        /\ Alone(r)
    BY <1>1, <1>3 DEF CallReadNext, Goto, Alone, OnlyReader, ReaderDomains, MoreDomains
  <2>2. /\ loc[r] \in LocType /\ earliestoffset \in Offsets \cup {-1} /\ last_pkttime \in Nat
    BY <1>1 DEF TypesOf, EndsOK, WriterTypes
  <2>3. loc'[r] \in LocType
    BY <2>1, <2>2 DEF LocType
  <2>4. /\ loc'[r].eo = earliestoffset /\ loc'[r].e = loc[r].e /\ loc'[r].lo = loc[r].lo
        /\ loc'[r].l = loc[r].l
    BY <2>1, <2>2 DEF LocType
  <2>5. TypesOf(r)'
    BY <1>1, <2>1, <2>3 DEF TypesOf, Labels
  <2>6. LooksAtSlots(r)'
    BY <2>1 DEF LooksAtSlots, AtSlot, Bounded, Finds, Reading
  <2>7. NotAhead(r)'
    BY <1>1, <2>1, <2>4, SameRing DEF NotAhead, KnowsLatest, FillsInOrder, Finds, Reading
  <2> QED
    BY <1>2, <2>1, <2>5, <2>6, <2>7, MidCall
<1>4. CASE RNLatest(r)
  <2>1. /\ pc'[r] = "rp_sample" /\ op' = op /\ latestoffset >= 0 /\ ~AtEnd(r)
        /\ off'[r] = latestoffset /\ reader' = reader /\ UNCHANGED wvars
        /\ ptime' = ptime /\ buf' = buf /\ rtodo' = rtodo
        /\ loc'[r] = [loc[r] EXCEPT !.lo = latestoffset]
        /\ Alone(r)
    BY <1>1, <1>4 DEF RNLatest, Goto, Alone, OnlyReader, ReaderDomains, MoreDomains
  <2>2. loc[r] \in LocType /\ latestoffset \in Offsets /\ reader[r].pktoffset \in Offsets \cup {-1}
    BY <1>1, <2>1 DEF TypesOf, WriterTypes, ReaderType, Offsets
  <2>3. loc'[r] \in LocType
    BY <2>1, <2>2 DEF LocType
  <2>4. /\ loc'[r].lo = latestoffset /\ loc'[r].eo = loc[r].eo /\ loc'[r].e = loc[r].e
        /\ loc'[r].l = loc[r].l
    BY <2>1, <2>2 DEF LocType
  <2>5. Filling => reader[r].pktoffset < latestoffset
    BY <1>1, <2>1, <2>2 DEF NotAhead, AtEnd, Unpositioned, Offsets
  <2>6. TypesOf(r)'
    BY <1>1, <2>1, <2>2, <2>3 DEF TypesOf, Labels
  <2>7. LooksAtSlots(r)'
    BY <2>1, <2>2 DEF LooksAtSlots, Bounded, Finds
  <2>8. NotAhead(r)'
    BY <1>1, <2>1, <2>2, <2>4, <2>5, SameRing
       DEF NotAhead, KnowsLatest, Finds, Reading, Offsets
  <2> QED
    BY <1>2, <2>1, <2>6, <2>7, <2>8, MidCall
<1> QED
  BY <1>3, <1>4

(* Steps that return a code and leave the position as it is.               *)
LEMMA KeepPositions ==
  ASSUME PositionInv, NEW r \in Readers, SeqlockInv', UNCHANGED <<wvars, op>>,
         NEW id, id \notin PktIds, ReturnCode(r, id), reader' = reader
  PROVE  PositionInv'
<1>1. MoreDomains /\ ReaderDomains /\ TypesOf(r) /\ NotAhead(r)
  BY ReaderFacts
<1>2. MoreDomains'
  BY <1>1 DEF MoreDomains, ReturnCode, Return
<1>3. reader'[r] \in ReaderType /\ (Filling => reader'[r].pktoffset <= latestoffset)
  BY <1>1 DEF TypesOf, NotAhead
<1> QED
  BY <1>1, <1>2, <1>3, ReturnPositions DEF ReturnCode, ReaderDomains

(* Steps that return a code and move the reader to offset o.               *)
LEMMA MovePositions ==
  ASSUME PositionInv, NEW r \in Readers, SeqlockInv', UNCHANGED wvars,
         DOMAIN op' = Readers, \A q \in Readers : q # r => op'[q] = op[q],
         NEW id, id \in PktIds => op'[r] \notin {"next", "read"}, ReturnCode(r, id),
         NEW o \in Offsets \cup {-1}, NEW pid \in PktIds \cup (RINGID_NEXT .. -1),
         NEW time \in Nat \cup {NSTUNSET}, SetReader(r, o, pid, time),
         Filling => o <= latestoffset
  PROVE  PositionInv'
<1>1. MoreDomains /\ ReaderDomains
  BY ReaderFacts
<1>2. /\ MoreDomains'
      /\ reader'[r] = [pktoffset |-> o, pktid |-> pid, pkttime |-> time]
      /\ \A q \in Readers : q # r => reader'[q] = reader[q]
  BY <1>1 DEF MoreDomains, ReturnCode, Return, SetReader
<1>3. reader'[r] \in ReaderType /\ reader'[r].pktoffset = o
  BY <1>2 DEF ReaderType
<1> QED
  BY <1>1, <1>2, <1>3, ReturnPositions DEF ReturnCode

(* RINGID_NONE and RINGID_ERROR are no packet IDs.                         *)
LEMMA CodesAreNoIds ==
  /\ RINGID_NONE \notin PktIds /\ RINGID_ERROR \notin PktIds
  /\ RINGID_NONE \in RINGID_NEXT .. -1
  /\ RINGID_EARLIEST \in RINGID_NEXT .. -1 /\ RINGID_LATEST \in RINGID_NEXT .. -1
BY ReadersAssumption DEF RINGID_NONE, RINGID_ERROR, RINGID_EARLIEST, RINGID_LATEST,
   RINGID_NEXT, PktIds

(* RingReadNext() on an empty ring, or with nothing new.                   *)
LEMMA NothingNewPositions ==
  ASSUME PositionInv, NEW r \in Readers, RNEmpty(r) \/ RNCaughtUp(r)
  PROVE  PositionInv'
<1>1. SeqlockInv /\ MoreDomains /\ ReaderDomains /\ TypesOf(r) /\ NotAhead(r)
  BY ReaderFacts
<1>2. SeqlockInv'
  BY <1>1, CodePreserves
<1>3. ReturnCode(r, RINGID_NONE) /\ UNCHANGED <<wvars, op>>
  BY DEF RNEmpty, RNCaughtUp
<1>4. CASE reader' = reader
  BY <1>2, <1>3, <1>4, KeepPositions, CodesAreNoIds
<1>5. CASE reader' = [reader EXCEPT ![r].pktid = RINGID_EARLIEST]
  <2>1. /\ reader'[r] = [reader[r] EXCEPT !.pktid = RINGID_EARLIEST]
        /\ DOMAIN reader' = Readers /\ \A q \in Readers : q # r => reader'[q] = reader[q]
    BY <1>1, <1>5 DEF MoreDomains
  <2>2. reader'[r] \in ReaderType /\ reader'[r].pktoffset = reader[r].pktoffset
    BY <1>1, <2>1, CodesAreNoIds DEF TypesOf, ReaderType
  <2>3. MoreDomains'
    BY <1>1, <1>3, <2>1 DEF MoreDomains, ReturnCode, Return
  <2> QED
    BY <1>1, <1>2, <1>3, <2>1, <2>2, <2>3, ReturnPositions, CodesAreNoIds
       DEF ReturnCode, ReaderDomains, NotAhead
<1> QED
  BY <1>4, <1>5 DEF RNEmpty, RNCaughtUp

(* While the buffer fills up the latest packet read at the start of a call *)
(* stays the one in its slot.                                              *)
LEMMA LatestKnown ==
  ASSUME PositionInv, NEW r \in Readers, RPDone(r), op[r] = "next", Filling
  PROVE  loc[r].lo \in Offsets /\ buf[r].pkttime = slot[loc[r].lo].pkttime
<1>1. LooksAtSlots(r) /\ NotAhead(r) /\ CopyIsFaithful(r)
  BY ReaderFacts DEF SeqlockInv, ReaderInv
<1>2. off[r] \in Offsets /\ off[r] = loc[r].lo
  BY <1>1 DEF RPDone, LooksAtSlots, AtSlot, NotAhead
<1>3. "pkttime" \in Copied(r) \ rtodo[r]
  BY DEF RPDone, Copied, Header, Whole
<1> QED
  BY <1>1, <1>2, <1>3 DEF CopyIsFaithful, RPDone, Copying

(* Sampling begins at offset o.                                            *)
LEMMA BeginAt ==
  ASSUME PositionInv, NEW r \in Readers, SeqlockInv', NEW o \in Offsets \cup {-1},
         UNCHANGED <<wvars, op, reader, ptime, buf, rtodo>>, Alone(r),
         pc'[r] = "rn_sample", off'[r] = o, loc'[r] \in LocType,
         loc'[r].eo = loc[r].eo, loc'[r].e = loc[r].e, loc'[r].l = loc[r].l,
         loc'[r].lo = loc[r].lo,
         Filling => /\ o <= latestoffset
                    /\ loc[r].lo >= 0
                    /\ loc'[r].latesttime = slot[loc[r].lo].pkttime
  PROVE  PositionInv'
<1>1. TypesOf(r) /\ NotAhead(r)
  BY ReaderFacts
<1>2. TypesOf(r)'
  BY <1>1 DEF TypesOf, Labels
<1>3. LooksAtSlots(r)'
  BY DEF LooksAtSlots, AtSlot, Bounded, Finds, Reading
<1>4. NotAhead(r)'
  BY <1>1, SameRing DEF NotAhead, KnowsLatest, Finds, Reading
<1> QED
  BY <1>2, <1>3, <1>4, MidCall

(* Where RingReadNext() begins once the latest packet is known.            *)
LEMMA BeginPositions ==
  ASSUME PositionInv, NEW r \in Readers, RNBegin(r)
  PROVE  PositionInv'
<1>1. /\ SeqlockInv /\ MoreDomains /\ ReaderDomains /\ WriterTypes
      /\ TypesOf(r) /\ LooksAtSlots(r) /\ NotAhead(r)
  BY ReaderFacts
<1>2. SeqlockInv'
  BY <1>1, CodePreserves
<1>3. /\ RPDone(r) /\ pc[r] = "rp_copy" /\ op[r] = "next" /\ op' = op /\ UNCHANGED wvars
  BY DEF RNBegin, RPDone
<1>4. /\ loc[r] \in LocType /\ buf[r] \in PacketType
      /\ buf[r].pktid \in PktIds \cup {NSTUNSET} /\ buf[r].pkttime \in Nat \cup {NSTUNSET}
      /\ reader[r].pktoffset \in Offsets \cup {-1}
      /\ loc[r].lo \in Offsets \cup {-1} /\ loc[r].eo \in Offsets \cup {-1}
  BY <1>1 DEF TypesOf, LocType, ReaderType, PacketType
<1>5. Filling => /\ loc[r].lo \in Offsets /\ buf[r].pkttime = slot[loc[r].lo].pkttime
                 /\ reader[r].pktoffset < loc[r].lo /\ loc[r].lo <= latestoffset
                 /\ loc[r].eo <= 0
  BY <1>1, <1>3, LatestKnown DEF NotAhead
<1>6. ASSUME NEW o \in Offsets \cup {-1}, Filling => o <= loc[r].lo,
             off' = [off EXCEPT ![r] = o],
             loc' = [loc EXCEPT ![r].latestid = buf[r].pktid,
                                ![r].latesttime = buf[r].pkttime],
             Goto(r, "rn_sample"), UNCHANGED <<reader, rv, ptime, buf, rtodo>>
      PROVE  PositionInv'
  <2>1. /\ pc'[r] = "rn_sample" /\ off'[r] = o /\ Alone(r)
        /\ loc'[r] = [loc[r] EXCEPT !.latestid = buf[r].pktid, !.latesttime = buf[r].pkttime]
    BY <1>1, <1>3, <1>6 DEF Goto, Alone, OnlyReader, ReaderDomains, MoreDomains
  <2>2. loc'[r] \in LocType
    BY <1>4, <2>1 DEF LocType
  <2>3. /\ loc'[r].lo = loc[r].lo /\ loc'[r].eo = loc[r].eo /\ loc'[r].e = loc[r].e
        /\ loc'[r].l = loc[r].l /\ loc'[r].latesttime = buf[r].pkttime
    BY <1>4, <2>1 DEF LocType
  <2>4. Filling => /\ o <= latestoffset /\ loc[r].lo >= 0
                   /\ loc'[r].latesttime = slot[loc[r].lo].pkttime
    BY <1>1, <1>5, <1>6, <2>3 DEF WriterTypes, Offsets
  <2> QED
    BY <1>2, <1>3, <1>6, <2>1, <2>2, <2>3, <2>4, BeginAt
<1>7. ASSUME WaitAtLatest(r, buf[r].pktid, buf[r].pkttime)
      PROVE  PositionInv'
  <2>1. buf[r].pktid \in PktIds \cup (RINGID_NEXT .. -1)
    BY <1>4 DEF NSTUNSET, RINGID_NEXT
  <2> QED
    BY <1>1, <1>2, <1>3, <1>4, <1>5, <1>7, <2>1, MovePositions, CodesAreNoIds
       DEF WaitAtLatest, ReaderDomains
<1>8. ASSUME reader[r].pktid \in PktIds,
             loc' = [loc EXCEPT ![r].latestid = buf[r].pktid,
                                ![r].latesttime = buf[r].pkttime, ![r].req = reader[r].pktid],
             Goto(r, "f_earliest"), UNCHANGED <<reader, rv, off, ptime, buf, rtodo>>
      PROVE  PositionInv'
  <2>1. /\ pc'[r] = "f_earliest" /\ Alone(r)
        /\ loc'[r] = [loc[r] EXCEPT !.latestid = buf[r].pktid,
                                    !.latesttime = buf[r].pkttime, !.req = reader[r].pktid]
    BY <1>1, <1>3, <1>8 DEF Goto, Alone, OnlyReader, ReaderDomains, MoreDomains
  <2>2. loc'[r] \in LocType
    <3>1. [loc[r] EXCEPT !.latestid = buf[r].pktid] \in LocType
      BY <1>4 DEF LocType
    <3>2. [loc[r] EXCEPT !.latestid = buf[r].pktid, !.latesttime = buf[r].pkttime] \in LocType
      BY <1>4, <3>1 DEF LocType
    <3>3. [loc[r] EXCEPT !.latestid = buf[r].pktid, !.latesttime = buf[r].pkttime,
                         !.req = reader[r].pktid] \in LocType
      BY <1>8, <3>2 DEF LocType
    <3> QED
      BY <2>1, <3>3
  <2>3. /\ loc'[r].lo = loc[r].lo /\ loc'[r].eo = loc[r].eo /\ loc'[r].e = loc[r].e
        /\ loc'[r].l = loc[r].l /\ loc'[r].latesttime = buf[r].pkttime
    BY <1>4, <2>1 DEF LocType
  <2>4. TypesOf(r)'
    BY <1>1, <1>8, <2>1, <2>2 DEF TypesOf, Labels, Finds
  <2>5. LooksAtSlots(r)'
    BY <2>1 DEF LooksAtSlots, AtSlot, Bounded, Reading
  <2>6. NotAhead(r)'
    BY <1>1, <1>3, <1>5, <1>8, <2>1, <2>3, SameRing
       DEF NotAhead, KnowsLatest, Finds, Reading, Offsets
  <2> QED
    BY <1>2, <2>1, <2>4, <2>5, <2>6, MidCall
<1>9. /\ ~Unpositioned(r) =>
           /\ NextOffset(reader[r].pktoffset) \in Offsets
           /\ Filling => NextOffset(reader[r].pktoffset) <= loc[r].lo
      /\ Filling => loc[r].lo <= loc[r].lo /\ loc[r].eo <= loc[r].lo
  BY <1>4, <1>5, NextOffsetInBuffer, ReadersAssumption DEF Unpositioned, NextOffset, Offsets
<1> DEFINE Begin(o) == /\ off' = [off EXCEPT ![r] = o]
                       /\ loc' = [loc EXCEPT ![r].latestid = buf[r].pktid,
                                             ![r].latesttime = buf[r].pkttime]
                       /\ Goto(r, "rn_sample")
                       /\ UNCHANGED <<reader, rv, ptime, buf, rtodo>>
<1>10. \/ ~Unpositioned(r) /\ Begin(NextOffset(reader[r].pktoffset))
       \/ WaitAtLatest(r, buf[r].pktid, buf[r].pkttime)
       \/ Begin(loc[r].lo)
       \/ Begin(loc[r].eo)
       \/ /\ reader[r].pktid \in PktIds
          /\ loc' = [loc EXCEPT ![r].latestid = buf[r].pktid,
                                ![r].latesttime = buf[r].pkttime, ![r].req = reader[r].pktid]
          /\ Goto(r, "f_earliest")
          /\ UNCHANGED <<reader, rv, off, ptime, buf, rtodo>>
  BY DEF RNBegin
<1>11. CASE ~Unpositioned(r) /\ Begin(NextOffset(reader[r].pktoffset))
  BY <1>6, <1>9, <1>11
<1>12. CASE Begin(loc[r].lo)
  BY <1>4, <1>6, <1>9, <1>12
<1>13. CASE Begin(loc[r].eo)
  BY <1>4, <1>6, <1>9, <1>13
<1> QED
  BY <1>7, <1>8, <1>10, <1>11, <1>12, <1>13


(* A search that fails is one of FindOffsetForID().                        *)
LEMMA FailsInFind ==
  ASSUME NEW r \in Readers, FindFails(r)
  PROVE  pc[r] \in Finds
BY DEF FindFails, FCheckFails, OutOfRange, Exhausted, ScannedAll, Finds

(* The packet asked for is not in the ring.                                *)
LEMMA RNNotFoundPositions ==
  ASSUME PositionInv, NEW r \in Readers, RNNotFound(r)
  PROVE  PositionInv'
<1>1. /\ SeqlockInv /\ MoreDomains /\ ReaderDomains /\ WriterTypes
      /\ TypesOf(r) /\ LooksAtSlots(r) /\ NotAhead(r)
  BY ReaderFacts
<1>2. SeqlockInv'
  BY <1>1, CodePreserves
<1>3. pc[r] \in Finds /\ op[r] = "next" /\ UNCHANGED <<wvars, op>>
  BY FailsInFind DEF RNNotFound
<1>4. /\ loc[r] \in LocType
      /\ loc[r].lo \in Offsets \cup {-1} /\ loc[r].eo \in Offsets \cup {-1}
      /\ loc[r].latestid \in PktIds \cup (RINGID_NEXT .. -1)
      /\ loc[r].latesttime \in Nat \cup {NSTUNSET}
  BY <1>1 DEF TypesOf, LocType, NSTUNSET, RINGID_NEXT
<1>5. Filling => /\ loc[r].lo >= 0 /\ loc[r].latesttime = slot[loc[r].lo].pkttime
                 /\ loc[r].lo <= latestoffset /\ loc[r].eo <= latestoffset
  <2>1. Filling => /\ loc[r].lo >= 0 /\ loc[r].latesttime = slot[loc[r].lo].pkttime
                   /\ loc[r].lo <= latestoffset /\ loc[r].eo <= 0
    BY <1>1, <1>3 DEF NotAhead, KnowsLatest
  <2> QED
    BY <1>1, <1>4, <2>1 DEF WriterTypes, Offsets
<1>6. CASE WaitAtLatest(r, loc[r].latestid, loc[r].latesttime)
  BY <1>1, <1>2, <1>3, <1>4, <1>5, <1>6, MovePositions, CodesAreNoIds
     DEF WaitAtLatest, ReaderDomains
<1>7. CASE /\ off' = [off EXCEPT ![r] = loc[r].eo]
           /\ Goto(r, "rn_sample")
           /\ UNCHANGED <<reader, rv, loc, ptime, buf, rtodo>>
  <2>1. pc'[r] = "rn_sample" /\ off'[r] = loc[r].eo /\ Alone(r)
    BY <1>1, <1>3, <1>7 DEF Goto, Alone, OnlyReader, ReaderDomains, MoreDomains
  <2> QED
    BY <1>2, <1>3, <1>4, <1>5, <1>7, <2>1, BeginAt
<1> QED
  BY <1>6, <1>7 DEF RNNotFound

(* A slot not newer than the latest packet is taken.                       *)
LEMMA RNSamplePositions ==
  ASSUME PositionInv, NEW r \in Readers, RNSample(r)
  PROVE  PositionInv'
<1>1. /\ SeqlockInv /\ MoreDomains /\ ReaderDomains /\ WriterTypes
      /\ TypesOf(r) /\ LooksAtSlots(r) /\ NotAhead(r) /\ FillsInOrder
  BY ReaderFacts DEF WriterInv
<1>2. SeqlockInv'
  BY <1>1, SamplePreserves
<1>3. /\ pc[r] = "rn_sample" /\ off[r] >= 0 /\ ~Lapped(r) /\ pc'[r] = "rn_position"
      /\ op' = op /\ off' = off /\ reader' = reader /\ UNCHANGED wvars
      /\ ptime'[r] = slot[off[r]].pkttime /\ buf' = buf /\ rtodo' = rtodo
      /\ loc'[r] = [loc[r] EXCEPT !.skipped = 0]
      /\ Alone(r)
  BY <1>1 DEF RNSample, Goto, Alone, OnlyReader, ReaderDomains, MoreDomains
<1>4. off[r] \in Offsets /\ loc[r] \in LocType /\ loc[r].lo \in Offsets \cup {-1}
  BY <1>1, <1>3 DEF TypesOf, LocType, Offsets
<1>5. slot[off[r]].pkttime \in Nat \cup {NSTUNSET}
  BY <1>1, <1>4 DEF WriterTypes, PacketType
<1>6. loc'[r] \in LocType
  BY <1>3, <1>4 DEF LocType
<1>7. /\ loc'[r].lo = loc[r].lo /\ loc'[r].eo = loc[r].eo /\ loc'[r].e = loc[r].e
      /\ loc'[r].l = loc[r].l /\ loc'[r].latesttime = loc[r].latesttime
  BY <1>3, <1>4 DEF LocType
<1>8. Filling => off[r] <= loc[r].lo
  <2> SUFFICES ASSUME Filling, loc[r].lo < off[r]
               PROVE  FALSE
    BY <1>4 DEF Offsets
  <2>1. /\ loc[r].lo \in Offsets /\ off[r] <= latestoffset
        /\ loc[r].latesttime = slot[loc[r].lo].pkttime
    BY <1>1, <1>3, <1>4 DEF NotAhead, KnowsLatest, Offsets
  <2>2. slot[loc[r].lo].pkttime < slot[off[r]].pkttime
    BY <1>1, <1>4, <2>1 DEF FillsInOrder
  <2>3. slot[loc[r].lo].pkttime \in Int
    BY <1>1, <2>1 DEF WriterTypes, PacketType, NSTUNSET
  <2> QED
    BY <1>3, <1>5, <2>1, <2>2, <2>3 DEF Lapped, NSTUNSET
<1>9. TypesOf(r)'
  BY <1>1, <1>3, <1>5, <1>6 DEF TypesOf, Labels, Reading
<1>10. LooksAtSlots(r)'
  BY <1>3, <1>4 DEF LooksAtSlots, Bounded, Finds
<1>11. NotAhead(r)'
  BY <1>1, <1>3, <1>7, <1>8, SameRing DEF NotAhead, KnowsLatest, Finds, Reading
<1> QED
  BY <1>2, <1>3, <1>9, <1>10, <1>11, MidCall

(* A newer one sends the reader back to the earliest packet.               *)
LEMMA LappedPositions ==
  ASSUME PositionInv, NEW r \in Readers, RNLapped(r) \/ RNReposition(r)
  PROVE  PositionInv'
<1>1. /\ SeqlockInv /\ MoreDomains /\ ReaderDomains /\ WriterTypes
      /\ TypesOf(r) /\ LooksAtSlots(r) /\ NotAhead(r) /\ EndsOK /\ FillsInOrder
  BY ReaderFacts DEF WriterInv
<1>2. SeqlockInv'
  BY <1>1, SearchPreserves, CodePreserves
<1>3. CASE RNLapped(r)
  <2>1. /\ pc[r] = "rn_sample" /\ pc'[r] = "rn_reposition"
        /\ op' = op /\ off' = off /\ reader' = reader /\ loc' = loc /\ UNCHANGED wvars
        /\ ptime' = ptime /\ buf' = buf /\ rtodo' = rtodo /\ Alone(r)
    BY <1>1, <1>3 DEF RNLapped, Goto, Alone, OnlyReader, ReaderDomains, MoreDomains
  <2>2. TypesOf(r)' /\ LooksAtSlots(r)'
    BY <1>1, <2>1 DEF TypesOf, Labels, LooksAtSlots, AtSlot, Bounded, Finds, Reading
  <2>3. NotAhead(r)'
    BY <1>1, <2>1, SameRing DEF NotAhead, KnowsLatest, Finds, Reading
  <2> QED
    BY <1>2, <2>1, <2>2, <2>3, MidCall
<1>4. CASE RNReposition(r) /\ loc[r].skipped + 1 >= SkipLimit
  BY <1>2, <1>4, KeepPositions, CodesAreNoIds DEF RNReposition
<1>5. CASE RNReposition(r) /\ ~(loc[r].skipped + 1 >= SkipLimit)
  <2>1. /\ pc[r] = "rn_reposition" /\ pc'[r] = "rn_sample" /\ off'[r] = earliestoffset
        /\ UNCHANGED <<wvars, op, reader, ptime, buf, rtodo>>
        /\ loc'[r] = [loc[r] EXCEPT !.skipped = loc[r].skipped + 1] /\ Alone(r)
    BY <1>1, <1>5 DEF RNReposition, Goto, Alone, OnlyReader, ReaderDomains, MoreDomains
  <2>2. /\ loc[r] \in LocType /\ loc[r].skipped + 1 \in Nat /\ loc[r].lo \in Offsets \cup {-1}
        /\ earliestoffset \in Offsets \cup {-1}
    BY <1>1 DEF TypesOf, LocType, EndsOK
  <2>3. loc'[r] \in LocType
    BY <2>1, <2>2 DEF LocType
  <2>4. /\ loc'[r].lo = loc[r].lo /\ loc'[r].eo = loc[r].eo /\ loc'[r].e = loc[r].e
        /\ loc'[r].l = loc[r].l /\ loc'[r].latesttime = loc[r].latesttime
    BY <2>1, <2>2 DEF LocType
  <2>5. Filling => /\ earliestoffset <= latestoffset /\ loc[r].lo >= 0
                   /\ loc'[r].latesttime = slot[loc[r].lo].pkttime
    <3>1. Filling => /\ earliestoffset <= 0 /\ loc[r].lo >= 0 /\ loc[r].lo <= latestoffset
                     /\ loc[r].latesttime = slot[loc[r].lo].pkttime
      BY <1>1, <2>1 DEF NotAhead, KnowsLatest, FillsInOrder
    <3> QED
      BY <1>1, <2>2, <2>4, <3>1 DEF WriterTypes, Offsets
  <2> QED
    BY <1>2, <2>1, <2>2, <2>3, <2>4, <2>5, BeginAt
<1> QED
  BY <1>3, <1>4, <1>5

(* Reading before the first slot.                                          *)
LEMMA WildPositions ==
  ASSUME PositionInv, NEW r \in Readers, RNWild(r)
  PROVE  PositionInv'
<1>1. /\ SeqlockInv /\ MoreDomains /\ ReaderDomains /\ WriterTypes
      /\ TypesOf(r) /\ LooksAtSlots(r) /\ NotAhead(r)
  BY ReaderFacts
<1>2. SeqlockInv'
  BY <1>1, DeliverPreserves
<1>3. pc[r] = "rn_sample" /\ off[r] \notin Offsets /\ UNCHANGED <<wvars, op>>
  BY ReadersAssumption DEF RNWild, Offsets
<1>4. CASE Goto(r, "rn_reposition") /\ UNCHANGED <<reader, rv, locals>>
  <2>1. /\ pc'[r] = "rn_reposition"
        /\ op' = op /\ off' = off /\ reader' = reader /\ loc' = loc /\ UNCHANGED wvars
        /\ ptime' = ptime /\ buf' = buf /\ rtodo' = rtodo /\ Alone(r)
    BY <1>1, <1>3, <1>4 DEF Goto, Alone, OnlyReader, ReaderDomains, MoreDomains, locals
  <2>2. TypesOf(r)' /\ LooksAtSlots(r)'
    BY <1>1, <2>1 DEF TypesOf, Labels, LooksAtSlots, AtSlot, Bounded, Finds, Reading
  <2>3. NotAhead(r)'
    BY <1>1, <1>3, <2>1, SameRing DEF NotAhead, KnowsLatest, Finds, Reading
  <2> QED
    BY <1>2, <2>1, <2>2, <2>3, MidCall
<1>5. CASE /\ SetReader(r, -1, RINGID_MAXIMUM, 0)
           /\ Return(r, RINGID_MAXIMUM, [Blank EXCEPT !.pktid = RINGID_MAXIMUM])
  <2>1. /\ reader'[r] = [pktoffset |-> -1, pktid |-> RINGID_MAXIMUM, pkttime |-> 0]
        /\ MoreDomains' /\ \A q \in Readers : q # r => reader'[q] = reader[q]
    BY <1>1, <1>5 DEF MoreDomains, SetReader, Return
  <2>2. /\ reader'[r] \in ReaderType /\ reader'[r].pktoffset <= latestoffset
    BY <1>1, <2>1, ReadersAssumption DEF ReaderType, WriterTypes, PktIds, Offsets
  <2> QED
    BY <1>1, <1>2, <1>3, <1>5, <2>1, <2>2, ReturnPositions DEF ReaderDomains
<1> QED
  BY <1>4, <1>5 DEF RNWild

(* The reader's new position, and the match of the stream ID.              *)
LEMMA MatchPositions ==
  ASSUME PositionInv, NEW r \in Readers, RNPosition(r) \/ RNMatch(r)
  PROVE  PositionInv'
<1>1. /\ SeqlockInv /\ MoreDomains /\ ReaderDomains /\ WriterTypes
      /\ TypesOf(r) /\ LooksAtSlots(r) /\ NotAhead(r)
  BY ReaderFacts
<1>2. SeqlockInv'
  BY <1>1, MatchPreserves
<1>3. CASE RNPosition(r)
  <2>1. /\ pc[r] = "rn_position" /\ pc'[r] = "rn_filter"
        /\ op' = op /\ off' = off /\ loc' = loc /\ UNCHANGED wvars
        /\ reader'[r] = [pktoffset |-> off[r], pktid |-> slot[off[r]].pktid, pkttime |-> ptime[r]]
        /\ ptime' = ptime /\ buf' = buf /\ rtodo' = rtodo /\ Alone(r)
    BY <1>1, <1>3
       DEF RNPosition, SetReader, Goto, Alone, OnlyReader, ReaderDomains, MoreDomains
  <2>2. off[r] \in Offsets /\ loc[r].lo \in Offsets \cup {-1}
    BY <1>1, <2>1 DEF LooksAtSlots, AtSlot, Reading, TypesOf, LocType
  <2>3. slot[off[r]].pktid \in PktIds \cup (RINGID_NEXT .. -1)
    BY <1>1, <2>2 DEF WriterTypes, PacketType, NSTUNSET, RINGID_NEXT
  <2>4. reader'[r] \in ReaderType /\ reader'[r].pktoffset = off[r]
    BY <1>1, <2>1, <2>2, <2>3 DEF ReaderType, TypesOf
  <2>5. TypesOf(r)' /\ LooksAtSlots(r)'
    BY <1>1, <2>1, <2>2, <2>4
       DEF TypesOf, Labels, LooksAtSlots, AtSlot, Bounded, Finds, Reading
  <2>6. NotAhead(r)'
    <3>1. Filling => off[r] <= loc[r].lo /\ loc[r].lo <= latestoffset
      BY <1>1, <2>1 DEF NotAhead, Reading
    <3>2. Filling => off[r] <= latestoffset
      BY <1>1, <2>2, <3>1 DEF WriterTypes, Offsets
    <3> QED
      BY <1>1, <2>1, <2>4, <3>2, SameRing DEF NotAhead, KnowsLatest, Finds, Reading
  <2> QED
    BY <1>2, <2>1, <2>5, <2>6, MidCall
<1>4. CASE RNMatch(r)
  <2>1. /\ pc[r] = "rn_filter" /\ pc'[r] = "rn_copy"
        /\ op' = op /\ off' = off /\ loc' = loc /\ reader' = reader /\ UNCHANGED wvars
        /\ ptime' = ptime /\ buf'[r] = Blank /\ rtodo'[r] = Whole /\ Alone(r)
    BY <1>1, <1>4 DEF RNMatch, Goto, Alone, OnlyReader, ReaderDomains, MoreDomains
  <2>2. TypesOf(r)' /\ LooksAtSlots(r)'
    BY <1>1, <2>1, BlankPacket
       DEF TypesOf, Labels, LooksAtSlots, AtSlot, Bounded, Finds, Reading
  <2>3. NotAhead(r)'
    BY <1>1, <2>1, SameRing DEF NotAhead, KnowsLatest, Finds, Reading
  <2> QED
    BY <1>2, <2>1, <2>2, <2>3, MidCall
<1> QED
  BY <1>3, <1>4

(* A packet of another stream: on to the next slot, up to the latest.      *)
LEMMA SkipPositions ==
  ASSUME PositionInv, NEW r \in Readers, RNSkip(r)
  PROVE  PositionInv'
<1>1. /\ SeqlockInv /\ MoreDomains /\ ReaderDomains /\ WriterTypes
      /\ TypesOf(r) /\ LooksAtSlots(r) /\ NotAhead(r)
  BY ReaderFacts
<1>2. SeqlockInv'
  BY <1>1, CodePreserves
<1>3. CASE NextOffset(off[r]) = NextOffset(loc[r].lo)
  BY <1>2, <1>3, KeepPositions, CodesAreNoIds DEF RNSkip
<1>4. CASE NextOffset(off[r]) # NextOffset(loc[r].lo)
  <2>1. /\ pc[r] = "rn_filter" /\ pc'[r] = "rn_sample" /\ off'[r] = NextOffset(off[r])
        /\ UNCHANGED <<wvars, op, reader, loc, ptime, buf, rtodo>> /\ Alone(r)
    BY <1>1, <1>4 DEF RNSkip, Goto, Alone, OnlyReader, ReaderDomains, MoreDomains
  <2>2. off[r] \in Offsets /\ loc[r] \in LocType /\ loc[r].lo \in Offsets \cup {-1}
    BY <1>1, <2>1 DEF LooksAtSlots, AtSlot, Reading, TypesOf, LocType
  <2>3. Filling => /\ off[r] <= loc[r].lo /\ loc[r].lo <= latestoffset /\ loc[r].lo >= 0
                   /\ loc[r].latesttime = slot[loc[r].lo].pkttime
    BY <1>1, <2>1 DEF NotAhead, KnowsLatest, Reading
  <2>4. Filling => NextOffset(off[r]) <= latestoffset
    BY <1>1, <1>4, <2>2, <2>3, ReadersAssumption DEF NextOffset, WriterTypes, Offsets
  <2> QED
    BY <1>2, <2>1, <2>2, <2>3, <2>4, NextOffsetInBuffer, BeginAt
<1> QED
  BY <1>3, <1>4


(* A slot that a reader may look at holds a packet.                        *)
LEMMA SlotWritten ==
  ASSUME PositionInv, NEW o \in Offsets, Filling => o <= latestoffset
  PROVE  slot[o] # Blank
<1>1. FillsInOrder
  BY DEF PositionInv, WriterInv
<1>2. slot[o].pkttime # 0
  BY <1>1 DEF FillsInOrder, Filling
<1> QED
  BY <1>2, BlankPacket

(* RingReadNext() returns the copy, if the slot was not overwritten.       *)
LEMMA RNReturnPositions ==
  ASSUME PositionInv, NEW r \in Readers, RNReturn(r)
  PROVE  PositionInv'
<1>1. /\ SeqlockInv /\ MoreDomains /\ ReaderDomains /\ WriterTypes
      /\ TypesOf(r) /\ LooksAtSlots(r) /\ NotAhead(r)
  BY ReaderFacts
<1>2. SeqlockInv'
  BY <1>1, DeliverPreserves
<1>3. CASE Intact(r)
  <2>1. /\ pc[r] = "rn_copy" /\ rtodo[r] = {} /\ Return(r, buf[r].pktid, buf[r])
        /\ reader' = reader /\ op' = op /\ UNCHANGED wvars
    BY <1>3 DEF RNReturn
  <2>2. off[r] \in Offsets /\ loc[r].lo \in Offsets \cup {-1}
    BY <1>1, <2>1 DEF LooksAtSlots, AtSlot, Reading, TypesOf, LocType
  <2>3. Filling => off[r] <= latestoffset
    <3>1. Filling => off[r] <= loc[r].lo /\ loc[r].lo <= latestoffset
      BY <1>1, <2>1 DEF NotAhead, Reading
    <3> QED
      BY <1>1, <2>2, <3>1 DEF WriterTypes, Offsets
  <2>4. buf[r] # Blank
    BY <1>1, <1>3, <2>1, <2>2, <2>3, CheckedCopy, SlotWritten DEF Copied, Copying
  <2>5. MoreDomains'
    BY <1>1, <2>1 DEF MoreDomains, Return
  <2>6. reader'[r] \in ReaderType /\ (Filling => reader'[r].pktoffset <= latestoffset)
    BY <1>1, <2>1 DEF TypesOf, NotAhead
  <2> QED
    BY <1>1, <1>2, <2>1, <2>4, <2>5, <2>6, ReturnPositions DEF ReaderDomains
<1>4. CASE ~Intact(r)
  BY <1>2, <1>4, KeepPositions, CodesAreNoIds DEF RNReturn
<1> QED
  BY <1>3, <1>4

(* RingRead() returns the packet and positions the reader at it.           *)
LEMMA RDReturnPositions ==
  ASSUME PositionInv, NEW r \in Readers, RDReturn(r)
  PROVE  PositionInv'
<1>1. /\ SeqlockInv /\ MoreDomains /\ ReaderDomains /\ WriterTypes
      /\ TypesOf(r) /\ LooksAtSlots(r) /\ NotAhead(r)
  BY ReaderFacts
<1>2. SeqlockInv'
  BY <1>1, DeliverPreserves
<1>3. CASE buf[r].pktid = loc[r].req
  <2>1. /\ pc[r] = "rp_copy" /\ rtodo[r] = {} /\ Intact(r) /\ op[r] = "read"
        /\ Return(r, loc[r].req, buf[r])
        /\ SetReader(r, off[r], buf[r].pktid, buf[r].pkttime)
        /\ op' = op /\ UNCHANGED wvars
    BY <1>3 DEF RDReturn, RPDone
  <2>2. off[r] \in Offsets /\ (Filling => off[r] <= latestoffset)
    BY <1>1, <2>1 DEF LooksAtSlots, AtSlot, NotAhead
  <2>3. buf[r] # Blank
    BY <1>1, <2>1, <2>2, CheckedCopy, SlotWritten DEF Copied, Copying
  <2>4. /\ MoreDomains'
        /\ reader'[r] = [pktoffset |-> off[r], pktid |-> buf[r].pktid, pkttime |-> buf[r].pkttime]
        /\ \A q \in Readers : q # r => reader'[q] = reader[q]
    BY <1>1, <2>1 DEF MoreDomains, Return, SetReader
  <2>5. /\ buf[r].pktid \in PktIds \cup (RINGID_NEXT .. -1)
        /\ buf[r].pkttime \in Nat \cup {NSTUNSET}
    BY <1>1 DEF TypesOf, PacketType, NSTUNSET, RINGID_NEXT
  <2>6. reader'[r] \in ReaderType /\ reader'[r].pktoffset = off[r]
    BY <2>2, <2>4, <2>5 DEF ReaderType
  <2> QED
    BY <1>1, <1>2, <2>1, <2>2, <2>3, <2>4, <2>6, ReturnPositions DEF ReaderDomains
<1>4. CASE buf[r].pktid # loc[r].req
  BY <1>2, <1>4, KeepPositions, CodesAreNoIds DEF RDReturn
<1> QED
  BY <1>3, <1>4

(* RingPosition(): the relative position resolved, the packet's time.      *)
LEMMA ResolvedPositions ==
  ASSUME PositionInv, NEW r \in Readers, PSResolved(r) \/ PSTime(r)
  PROVE  PositionInv'
<1>1. /\ SeqlockInv /\ MoreDomains /\ ReaderDomains /\ WriterTypes
      /\ TypesOf(r) /\ LooksAtSlots(r) /\ NotAhead(r)
  BY ReaderFacts
<1>2. SeqlockInv'
  BY <1>1, SearchPreserves
<1>3. CASE PSResolved(r)
  <2>1. /\ pc'[r] = "f_earliest" /\ op[r] = "position"
        /\ op' = op /\ off' = off /\ reader' = reader /\ UNCHANGED wvars
        /\ ptime' = ptime /\ buf' = buf /\ rtodo' = rtodo
        /\ loc'[r] = [loc[r] EXCEPT !.req = buf[r].pktid]
        /\ Alone(r)
    BY <1>1, <1>3 DEF PSResolved, Goto, Alone, OnlyReader, ReaderDomains, MoreDomains
  <2>2. loc[r] \in LocType /\ buf[r].pktid \in PktIds \cup (RINGID_NEXT .. -1)
    BY <1>1 DEF TypesOf, PacketType, NSTUNSET, RINGID_NEXT
  <2>3. loc'[r] \in LocType
    BY <2>1, <2>2 DEF LocType
  <2>4. /\ loc'[r].l = loc[r].l /\ loc'[r].eo = loc[r].eo /\ loc'[r].lo = loc[r].lo
        /\ loc'[r].e = loc[r].e
    BY <2>1, <2>2 DEF LocType
  <2>5. TypesOf(r)' /\ LooksAtSlots(r)'
    BY <1>1, <2>1, <2>3 DEF TypesOf, Labels, LooksAtSlots, AtSlot, Bounded, Finds, Reading
  <2>6. NotAhead(r)'
    BY <1>1, <2>1, <2>4, SameRing DEF NotAhead, KnowsLatest, Finds, Reading
  <2> QED
    BY <1>2, <2>1, <2>5, <2>6, MidCall
<1>4. CASE PSTime(r)
  <2>1. /\ pc[r] = "ps_time" /\ pc'[r] = "ps_check"
        /\ op' = op /\ off' = off /\ loc' = loc /\ reader' = reader /\ UNCHANGED wvars
        /\ ptime'[r] = slot[off[r]].pkttime /\ buf' = buf /\ rtodo' = rtodo
        /\ Alone(r)
    BY <1>1, <1>4 DEF PSTime, Goto, Alone, OnlyReader, ReaderDomains, MoreDomains
  <2>2. off[r] \in Offsets
    BY <1>1, <2>1 DEF LooksAtSlots, AtSlot
  <2>3. slot[off[r]].pkttime \in Nat \cup {NSTUNSET}
    BY <1>1, <2>2 DEF WriterTypes, PacketType
  <2>4. TypesOf(r)' /\ LooksAtSlots(r)'
    BY <1>1, <2>1, <2>2, <2>3
       DEF TypesOf, Labels, LooksAtSlots, AtSlot, Bounded, Finds, Reading
  <2>5. NotAhead(r)'
    BY <1>1, <2>1, SameRing DEF NotAhead, KnowsLatest, Finds, Reading
  <2> QED
    BY <1>2, <2>1, <2>4, <2>5, MidCall
<1> QED
  BY <1>3, <1>4

(* RingPosition() and RingPositionBefore() return.                         *)
LEMMA PositionedPositions ==
  ASSUME PositionInv, NEW r \in Readers, PSCheck(r) \/ PBDone(r) \/ NotFound(r)
  PROVE  PositionInv'
<1>1. /\ SeqlockInv /\ MoreDomains /\ ReaderDomains /\ WriterTypes
      /\ TypesOf(r) /\ LooksAtSlots(r) /\ NotAhead(r)
  BY ReaderFacts
<1>2. SeqlockInv'
  BY <1>1, CodePreserves
<1>3. /\ op' = op /\ UNCHANGED wvars /\ DOMAIN op' = Readers
      /\ loc[r].req \in PktIds \cup (RINGID_NEXT .. -1)
      /\ ptime[r] \in Nat \cup {NSTUNSET} /\ latestoffset \in Offsets \cup {-1}
  BY <1>1 DEF PSCheck, PBDone, NotFound, ReaderDomains, TypesOf, LocType, WriterTypes
<1>4. CASE PSCheck(r)
  <2>1. pc[r] = "ps_check" /\ op[r] = "position"
    BY <1>1, <1>4 DEF PSCheck, TypesOf
  <2>2. off[r] \in Offsets /\ (Filling => off[r] <= latestoffset)
    BY <1>1, <2>1 DEF LooksAtSlots, AtSlot, NotAhead
  <2>3. CASE SetReader(r, off[r], loc[r].req, ptime[r]) /\ ReturnCode(r, loc[r].req)
    BY <1>2, <1>3, <2>1, <2>2, <2>3, MovePositions
  <2>4. CASE ReturnCode(r, RINGID_NONE) /\ UNCHANGED reader
    BY <1>2, <1>3, <2>4, KeepPositions, CodesAreNoIds
  <2> QED
    BY <1>4, <2>3, <2>4 DEF PSCheck
<1>5. CASE PBDone(r)
  <2>1. /\ op[r] = "before" /\ SetReader(r, -1, loc[r].req, NSTUNSET)
        /\ \/ ReturnCode(r, buf[r].pktid) \/ ReturnCode(r, loc[r].req)
           \/ ReturnCode(r, RINGID_NONE)
    BY <1>5 DEF PBDone
  <2>2. -1 <= latestoffset
    BY <1>3 DEF Offsets
  <2> QED
    BY <1>2, <1>3, <2>1, <2>2, MovePositions
<1>6. CASE NotFound(r)
  BY <1>2, <1>3, <1>6, KeepPositions, CodesAreNoIds DEF NotFound
<1> QED
  BY <1>4, <1>5, <1>6

(* The client's commands.                                                  *)
LEMMA CommandPositions ==
  ASSUME PositionInv, NEW r \in Readers, ClientCommand(r)
  PROVE  PositionInv'
<1>1. /\ SeqlockInv /\ MoreDomains /\ ReaderDomains /\ WriterTypes
      /\ TypesOf(r) /\ LooksAtSlots(r) /\ NotAhead(r) /\ EndsOK /\ FillsInOrder
  BY ReaderFacts DEF WriterInv
<1>2. SeqlockInv'
  BY <1>1, CommandPreserves
<1>3. ASSUME NEW name, Command(r, name)
      PROVE  /\ DOMAIN op' = Readers /\ op'[r] = name
             /\ \A q \in Readers : q # r => op'[q] = op[q]
  BY <1>1, <1>3 DEF Command, ReaderDomains
<1>4. ASSUME NEW name \in {"position", "before", "read"}, Command(r, name), UNCHANGED wvars,
             NEW id \in PktIds \cup Relative, NEW time \in Nat \cup {NSTUNSET},
             id \in Relative => latestoffset >= 0,
             Resolve(r, id, time), reader' = reader
      PROVE  PositionInv'
  <2>1. /\ op'[r] = name /\ Alone(r) /\ pc'[r] \in {"rp_sample", "f_earliest"}
        /\ loc'[r] = [loc[r] EXCEPT !.req = id, !.chk = time, !.began = last_pkttime]
        /\ ptime' = ptime /\ buf' = buf /\ rtodo' = rtodo
    BY <1>1, <1>3, <1>4
       DEF Command, Resolve, Goto, Alone, OnlyReader, ReaderDomains, MoreDomains
  <2>2. \/ pc'[r] = "rp_sample" /\ id \in Relative /\ off'[r] = RelativeOffset(id)
        \/ pc'[r] = "f_earliest" /\ off'[r] = off[r]
    BY <1>1, <1>4 DEF Resolve, Goto, ReaderDomains
  <2>3. /\ id \in PktIds \cup (RINGID_NEXT .. -1)
        /\ id \in Relative => /\ RelativeOffset(id) \in Offsets
                              /\ Filling => RelativeOffset(id) <= latestoffset
    BY <1>1, <1>4, CodesAreNoIds
       DEF Relative, RelativeOffset, EndsOK, FillsInOrder, WriterTypes, Offsets
  <2>4. loc[r] \in LocType /\ last_pkttime \in Nat
    BY <1>1 DEF TypesOf, WriterTypes
  <2>5. loc'[r] \in LocType
    <3>1. [loc[r] EXCEPT !.req = id] \in LocType
      BY <2>3, <2>4 DEF LocType
    <3>2. [loc[r] EXCEPT !.req = id, !.chk = time] \in LocType
      BY <1>4, <3>1 DEF LocType
    <3>3. [loc[r] EXCEPT !.req = id, !.chk = time, !.began = last_pkttime] \in LocType
      <4>1. \A L \in LocType, t \in Nat : [L EXCEPT !.began = t] \in LocType
        BY DEF LocType
      <4> QED
        BY <2>4, <3>2, <4>1
    <3> QED
      BY <2>1, <3>3
  <2>6. /\ loc'[r].l = loc[r].l /\ loc'[r].eo = loc[r].eo /\ loc'[r].lo = loc[r].lo
        /\ loc'[r].e = loc[r].e
    BY <2>1, <2>4 DEF LocType
  <2>7. TypesOf(r)'
    BY <1>1, <1>4, <2>1, <2>2, <2>3, <2>5 DEF TypesOf, Labels, Finds
  <2>8. LooksAtSlots(r)'
    BY <2>2, <2>3 DEF LooksAtSlots, AtSlot, Bounded, Finds, Reading
  <2>9. NotAhead(r)'
    BY <1>1, <1>4, <2>1, <2>2, <2>3, <2>6, SameRing
       DEF NotAhead, KnowsLatest, Finds, Reading
  <2> QED
    BY <1>2, <2>1, <2>7, <2>8, <2>9, MidCall
<1>5. ASSUME NEW id \in PktIds \cup Relative, NEW time \in Nat \cup {NSTUNSET},
             CallPosition(r, id, time)
      PROVE  PositionInv'
  <2>1. Command(r, "position") /\ reader' = reader /\ UNCHANGED wvars
    BY <1>5 DEF CallPosition
  <2>2. CASE latestoffset < 0
    <3>1. ReturnCode(r, RINGID_NONE)
      BY <1>5, <2>2 DEF CallPosition
    <3>2. MoreDomains' /\ reader'[r] \in ReaderType
          /\ (Filling => reader'[r].pktoffset <= latestoffset)
      BY <1>1, <2>1, <3>1 DEF MoreDomains, ReturnCode, Return, TypesOf, NotAhead
    <3> QED
      BY <1>2, <1>3, <2>1, <3>1, <3>2, ReturnPositions, CodesAreNoIds DEF ReturnCode
  <2>3. CASE ~(latestoffset < 0)
    BY <1>1, <1>4, <1>5, <2>1, <2>3 DEF CallPosition, WriterTypes, Offsets
  <2> QED
    BY <2>2, <2>3
<1>6. ASSUME NEW id \in PktIds \cup Relative, CallPositionBefore(r, id)
      PROVE  PositionInv'
  <2>1. Command(r, "before") /\ UNCHANGED wvars
    BY <1>6 DEF CallPositionBefore
  <2>2. id \in PktIds \cup (RINGID_NEXT .. -1) /\ -1 <= latestoffset
    BY <1>1, CodesAreNoIds DEF Relative, WriterTypes, Offsets
  <2>3. CASE latestoffset < 0
    BY <1>2, <1>3, <1>6, <2>1, <2>2, <2>3, MovePositions, CodesAreNoIds
       DEF CallPositionBefore
  <2>4. CASE ~(latestoffset < 0)
    <3>1. Resolve(r, id, NSTUNSET) /\ reader' = reader
      BY <1>6, <2>4 DEF CallPositionBefore
    <3>2. latestoffset >= 0
      BY <1>1, <2>4 DEF WriterTypes, Offsets
    <3> QED
      BY <1>4, <2>1, <3>1, <3>2
  <2> QED
    BY <2>3, <2>4
<1>7. ASSUME NEW id \in PktIds, CallRead(r, id)
      PROVE  PositionInv'
  <2>1. id \notin Relative
    BY <1>7, ReadersAssumption DEF Relative, PktIds, RINGID_EARLIEST, RINGID_LATEST
  <2> QED
    BY <1>4, <1>7, <2>1 DEF CallRead
<1>8. CheckTimes \subseteq Nat
  BY ReadersAssumption
<1> QED
  BY <1>5, <1>6, <1>7, <1>8 DEF ClientCommand

-----------------------------------------------------------------------------
(* A step of a reader inside a ring function.                              *)
LEMMA StepPositions ==
  ASSUME PositionInv, NEW r \in Readers, ReadStep(r)
  PROVE  PositionInv'
<1>1. CASE \/ \E f \in Whole : CopyField(r, f)
           \/ RPSample(r) \/ RPNone(r)
           \/ FEarliest(r) \/ FLatest(r) \/ FSample(r) \/ FId(r)
           \/ FCheckEarliest(r) \/ FCheckLatest(r) \/ FMiss(r)
  BY <1>1, CopyPositions, RPSamplePositions, RPNonePositions, FindEndsPositions,
     FindSamplePositions, CheckLatestPositions, MissPositions
<1>2. CASE \/ RNEmpty(r) \/ RNCaughtUp(r) \/ RNLatest(r) \/ RNBegin(r) \/ Found(r)
           \/ RNNotFound(r) \/ RNSample(r) \/ RNLapped(r) \/ RNReposition(r) \/ RNWild(r)
  BY <1>2, NothingNewPositions, ReadNextPositions, BeginPositions, FoundPositions,
     RNNotFoundPositions, RNSamplePositions, LappedPositions, WildPositions
<1>3. CASE \/ RNPosition(r) \/ RNMatch(r) \/ RNSkip(r) \/ RNReturn(r)
           \/ PSResolved(r) \/ PSTime(r) \/ PSCheck(r)
           \/ PBDone(r) \/ RDReturn(r) \/ NotFound(r)
  BY <1>3, MatchPositions, SkipPositions, RNReturnPositions, ResolvedPositions,
     PositionedPositions, RDReturnPositions
<1> QED
  BY <1>1, <1>2, <1>3 DEF ReadStep

(* The positions of all readers are within the ring, and within what was   *)
(* written, in every reachable state.                                      *)
THEOREM PositionInvariant == Spec => []PositionInv
<1>1. Init /\ SeqlockInv => PositionInv
  <2> SUFFICES ASSUME Init, SeqlockInv
               PROVE  PositionInv
    OBVIOUS
  <2>1. WriterInv
    BY ReadersAssumption
       DEF Init, WriterInv, EndsOK, NewestCommits, FillsInOrder, Commits, Offsets
  <2>2. MoreDomains
    BY DEF Init, MoreDomains
  <2>3. ASSUME NEW r \in Readers
        PROVE  PositionOf(r)
    <3>1. /\ pc[r] = "idle" /\ op[r] = "none" /\ loc[r] = NoLocals /\ off[r] = 0
          /\ ptime[r] = NSTUNSET /\ buf[r] = Blank /\ rtodo[r] = {} /\ latestoffset = -1
          /\ reader[r] = [pktoffset |-> -1, pktid |-> RINGID_NONE, pkttime |-> NSTUNSET]
      BY DEF Init
    <3>2. reader[r] \in ReaderType /\ reader[r].pktoffset = -1
      BY <3>1, CodesAreNoIds DEF ReaderType
    <3>3. TypesOf(r)
      BY <3>1, <3>2, NoLocalsTyped, BlankPacket, ReadersAssumption DEF TypesOf, Labels, Offsets
    <3>4. LooksAtSlots(r)
      BY <3>1 DEF LooksAtSlots, AtSlot, Bounded, Finds, Reading
    <3>5. NotAhead(r)
      BY <3>1, <3>2, NoLocalsTyped DEF NotAhead, KnowsLatest, Finds, Reading
    <3>6. HandedWritten(r)
      BY <3>1 DEF HandedWritten, Delivered
    <3> QED
      BY <3>3, <3>4, <3>5, <3>6 DEF PositionOf
  <2> QED
    BY <2>1, <2>2, <2>3 DEF PositionInv
<1>2. PositionInv /\ [Next]_vars => PositionInv'
  <2> SUFFICES ASSUME PositionInv, [Next]_vars
               PROVE  PositionInv'
    OBVIOUS
  <2>1. CASE Write
    BY <2>1, StartPositions, ErrorPositions DEF Write
  <2>2. CASE Writing
    BY <2>2, StorePositions, PublishPositions, CommitPositions DEF Writing
  <2>3. CASE \E r \in Readers : ReadStep(r) \/ CallReadNext(r) \/ ClientCommand(r)
    BY <2>3, StepPositions, ReadNextPositions, CommandPositions
  <2>4. CASE UNCHANGED vars
    <3>1. /\ UNCHANGED rvars /\ slot' = slot /\ latestoffset' = latestoffset
          /\ earliestoffset' = earliestoffset /\ wpc' = wpc /\ woff' = woff
          /\ wtodo' = wtodo /\ last_pkttime' = last_pkttime /\ wpkt' = wpkt
          /\ written' = written
      BY <2>4 DEF vars, wvars
    <3>2. SeqlockInv /\ WriterTypes
      BY DEF PositionInv, SeqlockInv
    <3>3. SeqlockInv'
      BY <3>1, <3>2
         DEF rvars, locals, SeqlockInv, WriterTypes, ReaderDomains, StampsNamePackets,
             SlotsHoldPackets, ReaderInv, SampleIsOld, CopyIsFaithful, HandedOut, Copied, Intact
    <3>4. WriterInv'
      BY <3>1 DEF PositionInv, WriterInv, EndsOK, NewestCommits, FillsInOrder, Filling,
             TargetOffset
    <3>5. MoreDomains' /\ \A r \in Readers : PositionOf(r)'
      BY <3>1, <3>2, ReadersStay DEF Filling, WriterTypes, Offsets
    <3> QED
      BY <3>3, <3>4, <3>5 DEF PositionInv
  <2> QED
    BY <2>1, <2>2, <2>3, <2>4 DEF Next
<1> QED
  BY <1>1, <1>2, SeqlockInvariant, PTL DEF Spec

\* A table with an entry for every reader, and its update by reader r.
Table(f) == f = [q \in Readers |-> f[q]]
Updated(f, g, r) == g = f \/ \E v : g = [f EXCEPT ![r] = v]

Tables == Table(reader) /\ Table(off) /\ Table(ptime) /\ Table(buf) /\ Table(rtodo)

(* An update leaves a table a table.                                       *)
LEMMA TableUpdated ==
  ASSUME NEW f, NEW g, NEW r \in Readers, Table(f), Updated(f, g, r)
  PROVE  Table(g)
<1>1. CASE g = f
  BY <1>1
<1>2. ASSUME NEW v, g = [f EXCEPT ![r] = v]
      PROVE  Table(g)
  BY <1>2 DEF Table
<1> QED
  BY <1>1, <1>2 DEF Updated

\* What a step of reader r makes of the tables.
TablesUpdated(r) ==
  /\ Updated(reader, reader', r) /\ Updated(off, off', r) /\ Updated(ptime, ptime', r)
  /\ Updated(buf, buf', r) /\ Updated(rtodo, rtodo', r)

(* Every step of a reader updates its own entries.                         *)
LEMMA StepUpdates ==
  ASSUME NEW r \in Readers, ReadStep(r) \/ CallReadNext(r) \/ ClientCommand(r)
  PROVE  TablesUpdated(r)
<1>1. ASSUME NEW id, NEW p, Return(r, id, p), Updated(reader, reader', r)
      PROVE  TablesUpdated(r)
  BY <1>1 DEF Return, TablesUpdated, Updated
<1>2. ASSUME NEW o, NEW pid, NEW time, SetReader(r, o, pid, time)
      PROVE  Updated(reader, reader', r)
  BY <1>2 DEF SetReader, Updated
<1>3. Updated(reader, reader, r)
  BY DEF Updated
<1>4. CASE \/ \E f \in Whole : CopyField(r, f)
           \/ RPSample(r) \/ FEarliest(r) \/ FLatest(r) \/ FSample(r) \/ FId(r)
           \/ FCheckEarliest(r) \/ FCheckLatest(r) \/ FMiss(r)
  BY <1>4, Zenon
     DEF CopyField, RPSample, FEarliest, FLatest, FSample, FId, FCheckEarliest, FCheckLatest,
         FMiss, FSampleNext, TablesUpdated, Updated
<1>5. CASE \/ RNLatest(r) \/ Found(r) \/ RNSample(r) \/ RNLapped(r) \/ RNPosition(r)
           \/ RNMatch(r) \/ PSResolved(r) \/ PSTime(r) \/ CallReadNext(r)
  BY <1>5, Zenon
     DEF RNLatest, Found, RNSample, RNLapped, RNPosition, RNMatch, PSResolved, PSTime,
         CallReadNext, SetReader, TablesUpdated, Updated
<1>6. CASE RPNone(r) \/ RNCaughtUp(r) \/ RNReturn(r) \/ RDReturn(r) \/ NotFound(r)
  BY <1>1, <1>2, <1>3, <1>6, Zenon
     DEF RPNone, RNCaughtUp, RNReturn, RDReturn, NotFound, ReturnCode
<1>7. CASE PSCheck(r) \/ PBDone(r)
  BY <1>1, <1>2, <1>3, <1>7, Zenon DEF PSCheck, PBDone, ReturnCode
<1>8. CASE RNEmpty(r)
  BY <1>1, <1>3, <1>8, Zenon DEF RNEmpty, ReturnCode, Updated
<1>9. CASE RNBegin(r) \/ RNNotFound(r)
  <2>1. \/ ReturnCode(r, RINGID_NONE) /\ Updated(reader, reader', r)
        \/ /\ off' = off \/ \E o : off' = [off EXCEPT ![r] = o]
           /\ UNCHANGED <<reader, ptime, buf, rtodo>>
    BY <1>2, <1>9, Zenon DEF RNBegin, RNNotFound, WaitAtLatest
  <2> QED
    BY <1>1, <2>1, Zenon DEF ReturnCode, TablesUpdated, Updated
<1>10. CASE RNReposition(r) \/ RNSkip(r)
  <2>1. \/ ReturnCode(r, RINGID_NONE) /\ reader' = reader
        \/ /\ off' = off \/ \E o : off' = [off EXCEPT ![r] = o]
           /\ UNCHANGED <<reader, ptime, buf, rtodo>>
    BY <1>10, Zenon DEF RNReposition, RNSkip
  <2> QED
    BY <1>1, <2>1, Zenon DEF ReturnCode, TablesUpdated, Updated
<1>11. CASE RNWild(r)
  BY <1>1, <1>2, <1>11, Zenon DEF RNWild, locals, TablesUpdated, Updated
<1>12. CASE ClientCommand(r)
  <2>1. ASSUME NEW id, NEW time, Resolve(r, id, time), reader' = reader
        PROVE  TablesUpdated(r)
    BY <2>1, Zenon DEF Resolve, TablesUpdated, Updated
  <2>2. ASSUME NEW id, NEW time, CallPosition(r, id, time)
        PROVE  TablesUpdated(r)
    BY <1>1, <1>3, <2>1, <2>2, Zenon DEF CallPosition, ReturnCode
  <2>3. ASSUME NEW id, CallPositionBefore(r, id)
        PROVE  TablesUpdated(r)
    BY <1>1, <1>2, <2>1, <2>3, Zenon DEF CallPositionBefore, ReturnCode
  <2>4. ASSUME NEW id, CallRead(r, id)
        PROVE  TablesUpdated(r)
    BY <2>1, <2>4, Zenon DEF CallRead
  <2> QED
    BY <1>12, <2>2, <2>3, <2>4, Zenon DEF ClientCommand
<1> QED
  BY <1>4, <1>5, <1>6, <1>7, <1>8, <1>9, <1>10, <1>11, <1>12 DEF ReadStep

(* The tables stay tables.                                                 *)
LEMMA TablesInvariant == Spec => []Tables
<1>1. Init => Tables
  BY DEF Init, Tables, Table
<1>2. Tables /\ [Next]_vars => Tables'
  <2> SUFFICES ASSUME Tables, [Next]_vars
               PROVE  Tables'
    OBVIOUS
  <2>1. CASE UNCHANGED rvars
    BY <2>1 DEF rvars, locals, Tables
  <2>2. ASSUME NEW r \in Readers, ReadStep(r) \/ CallReadNext(r) \/ ClientCommand(r)
        PROVE  Tables'
    <3>1. TablesUpdated(r)
      BY <2>2, StepUpdates
    <3> QED
      BY <3>1, TableUpdated, Zenon DEF TablesUpdated, Tables
  <2>3. Write \/ Writing => UNCHANGED rvars
    BY DEF Write, Writing, WStart, WError, WInvalidate, WPayload, WHeader, WPublish,
           WEarliest, WLatest
  <2>4. UNCHANGED vars => UNCHANGED rvars
    BY DEF vars
  <2> QED
    BY <2>1, <2>2, <2>3, <2>4 DEF Next
<1> QED
  BY <1>1, <1>2, PTL DEF Spec

(* The types of RingReaders: in particular every slot a reader looks at,   *)
(* every position it keeps and every bisection step is within the buffer.  *)
THEOREM TypeCorrect == Spec => []TypeOK
<1>1. PositionInv /\ Tables => TypeOK
  <2> SUFFICES ASSUME PositionInv, Tables
               PROVE  TypeOK
    OBVIOUS
  <2>1. WriterTypes /\ EndsOK
    BY DEF PositionInv, SeqlockInv, WriterInv
  <2>2. \A r \in Readers : TypesOf(r)
    BY DEF PositionInv, PositionOf
  <2>3. reader \in [Readers -> ReaderType] /\ buf \in [Readers -> PacketType]
    BY <2>2 DEF TypesOf, Tables, Table
  <2>4. /\ off \in [Readers -> Offsets \cup {-1}] /\ ptime \in [Readers -> Nat \cup {NSTUNSET}]
        /\ rtodo \in [Readers -> SUBSET Whole]
    BY <2>2 DEF TypesOf, Tables, Table
  <2> QED
    BY <2>1, <2>3, <2>4
       DEF TypeOK, WriterTypes, EndsOK, ReaderType, Unpublished, Commits
<1> QED
  BY <1>1, PositionInvariant, TablesInvariant, PTL

(* No reader hands out a slot nothing was ever written to: while the ring  *)
(* fills up for the first time, RingReadNext() stays behind the writer     *)
(* whatever the writer does during the call.                               *)
THEOREM NeverUnwritten == Spec => []NoUnwrittenSlot
<1>1. PositionInv => NoUnwrittenSlot
  BY DEF PositionInv, PositionOf, HandedWritten, NoUnwrittenSlot
<1> QED
  BY <1>1, PositionInvariant, PTL

=============================================================================
