---------------------------- MODULE ReadersProofs ----------------------------
(***************************************************************************)
(* A packet that a reader hands out is a packet that was written, for any  *)
(* number of readers, slots and streams and however many writes overtake a *)
(* read: sampling pkttime, copying, and comparing pkttime again works as a *)
(* sequence lock because no stamp is ever used twice.                      *)
(***************************************************************************)
EXTENDS RingReaders, TLAPS

Unpublished == {"invalidate", "payload", "header"}
Copying     == {"rp_copy", "rn_copy"}
Sampled     == {"rn_position", "rn_filter"} \cup Copying

\* The writer's state, as far as a reader can tell.
WriterTypes ==
  /\ slot \in [Offsets -> PacketType]
  /\ latestoffset \in Offsets \cup {-1}
  /\ wpkt \in PacketType /\ woff \in Offsets
  /\ last_pkttime \in Nat
  /\ written \subseteq PacketType

\* The tables with an entry per reader.
ReaderDomains ==
  /\ DOMAIN pc = Readers /\ DOMAIN op = Readers /\ DOMAIN off = Readers
  /\ DOMAIN ptime = Readers /\ DOMAIN buf = Readers /\ DOMAIN rtodo = Readers
  /\ DOMAIN rv = Readers

\* A stamp names one packet: those written have stamps of the past, the one
\* being written has the latest and no slot shows it yet.
StampsNamePackets ==
  /\ \A p \in written : p.pkttime \in 1 .. last_pkttime /\ p.streamid \in Streams
  /\ wpc \in Unpublished =>
       /\ wpkt.pkttime = last_pkttime /\ wpkt.pkttime > 0
       /\ wpkt.streamid \in Streams
       /\ \A p \in written : p.pkttime < last_pkttime
  /\ \A p, q \in written : p.pkttime = q.pkttime => p = q

\* A slot is marked unset while it is filled; otherwise it holds a packet.
SlotsHoldPackets ==
  /\ wpc \in {"payload", "header"} => slot[woff].pkttime = NSTUNSET
  /\ wpc = "header" => /\ slot[woff].data = wpkt.data
                       /\ "pktid" \notin wtodo => slot[woff].pktid = wpkt.pktid
                       /\ "streamid" \notin wtodo => slot[woff].streamid = wpkt.streamid
  /\ \A o \in Offsets : slot[o].pkttime # NSTUNSET => slot[o] \in written \cup {Blank}

\* The fields RingReadPacket() or RingReadNext() copies for reader r.
Copied(r) == IF pc[r] = "rn_copy" \/ op[r] = "read" THEN Whole ELSE Header

\* The stamp reader r sampled is of the past, so it cannot come back.
SampleIsOld(r) ==
  pc[r] \in Sampled /\ off[r] \in Offsets =>
    /\ ptime[r] \in 0 .. last_pkttime
    /\ wpc \in Unpublished => ptime[r] < last_pkttime

\* As long as the sampled stamp stays in the slot, the copy is faithful and
\* the packet is one the reader selects.
CopyIsFaithful(r) ==
  pc[r] \in Copying /\ off[r] \in Offsets =>
    /\ buf[r] \in PacketType
    /\ Intact(r) =>
         /\ "pkttime" \in Copied(r) \ rtodo[r] => buf[r].pkttime = slot[off[r]].pkttime
         /\ "pktid" \in Copied(r) \ rtodo[r] => buf[r].pktid = slot[off[r]].pktid
         /\ "streamid" \in Copied(r) \ rtodo[r] => buf[r].streamid = slot[off[r]].streamid
         /\ "data" \in Copied(r) \ rtodo[r] => buf[r].data = slot[off[r]].data
         /\ pc[r] = "rn_copy" => slot[off[r]].streamid \in Selected[r] \cup {NoStream}

\* What reader r was handed last.
HandedOut(r) ==
  pc[r] = "idle" /\ rv[r].off \in Offsets =>
    /\ rv[r].pkt \in written \cup {Blank}
    /\ op[r] = "next" => rv[r].pkt.streamid \in Selected[r] \cup {NoStream}

ReaderInv(r) == SampleIsOld(r) /\ CopyIsFaithful(r) /\ HandedOut(r)

SeqlockInv ==
  /\ WriterTypes
  /\ ReaderDomains
  /\ StampsNamePackets
  /\ SlotsHoldPackets
  /\ \A r \in Readers : ReaderInv(r)

-----------------------------------------------------------------------------
(* A packet of the model is determined by its four fields.                 *)
LEMMA SameFields ==
  ASSUME NEW p \in PacketType, NEW q \in PacketType,
         p.pkttime = q.pkttime, p.pktid = q.pktid, p.streamid = q.streamid, p.data = q.data
  PROVE  p = q
BY DEF PacketType

(* The zeroed slot has stamp 0 and no stream.                              *)
LEMMA BlankPacket ==
  /\ Blank \in PacketType
  /\ Blank.pkttime = 0 /\ Blank.streamid = NoStream
BY ReadersAssumption DEF Blank, PacketType, PktIds

(* NEXTOFFSET stays in the buffer.                                         *)
LEMMA NextOffsetInBuffer ==
  ASSUME NEW o \in Offsets
  PROVE  NextOffset(o) \in Offsets
BY ReadersAssumption DEF NextOffset, Offsets

(* Storing into one field of a slot.                                       *)
LEMMA StoreField ==
  ASSUME NEW S \in [Offsets -> PacketType], NEW o \in Offsets, NEW p \in PacketType
  PROVE  /\ [S EXCEPT ![o].pkttime = p.pkttime] \in [Offsets -> PacketType]
         /\ [S EXCEPT ![o].pktid = p.pktid] \in [Offsets -> PacketType]
         /\ [S EXCEPT ![o].streamid = p.streamid] \in [Offsets -> PacketType]
         /\ [S EXCEPT ![o].data = p.data] \in [Offsets -> PacketType]
         /\ [S EXCEPT ![o].pkttime = NSTUNSET] \in [Offsets -> PacketType]
<1>1. S[o] \in PacketType
  OBVIOUS
<1>2. /\ [S[o] EXCEPT !.pkttime = p.pkttime] \in PacketType
      /\ [S[o] EXCEPT !.pktid = p.pktid] \in PacketType
      /\ [S[o] EXCEPT !.streamid = p.streamid] \in PacketType
      /\ [S[o] EXCEPT !.data = p.data] \in PacketType
      /\ [S[o] EXCEPT !.pkttime = NSTUNSET] \in PacketType
  BY <1>1 DEF PacketType
<1> QED
  BY <1>2

-----------------------------------------------------------------------------
(* The writer's steps.                                                     *)

(* A store into a slot either marks it unset or shows a stamp no reader    *)
(* can have sampled: what readers hold stays true.                         *)
LEMMA ReadersUndisturbed ==
  ASSUME SeqlockInv, UNCHANGED rvars,
         written \subseteq written',
         last_pkttime' \in Nat, last_pkttime <= last_pkttime',
         wpc' \in Unpublished =>
           last_pkttime < last_pkttime' \/ (wpc \in Unpublished /\ last_pkttime' = last_pkttime),
         \A o \in Offsets : \/ slot'[o] = slot[o]
                            \/ slot'[o].pkttime = NSTUNSET
                            \/ wpc \in Unpublished /\ slot'[o].pkttime = last_pkttime
  PROVE  ReaderDomains' /\ \A r \in Readers : ReaderInv(r)'
<1>1. /\ pc' = pc /\ op' = op /\ off' = off /\ ptime' = ptime /\ buf' = buf
      /\ rtodo' = rtodo /\ rv' = rv
  BY DEF rvars, locals
<1>2. ReaderDomains'
  BY <1>1 DEF SeqlockInv, ReaderDomains
<1>3. ASSUME NEW r \in Readers
      PROVE  ReaderInv(r)'
  <2>1. SampleIsOld(r) /\ CopyIsFaithful(r) /\ HandedOut(r)
    BY DEF SeqlockInv, ReaderInv
  <2>2. SampleIsOld(r)'
    BY <1>1, <2>1 DEF SampleIsOld, SeqlockInv, WriterTypes
  <2>3. CopyIsFaithful(r)'
    <3>1. CASE ~(pc[r] \in Copying /\ off[r] \in Offsets)
      BY <1>1, <3>1 DEF CopyIsFaithful
    <3>2. CASE pc[r] \in Copying /\ off[r] \in Offsets
      <4>1. /\ ptime[r] \in 0 .. last_pkttime
            /\ wpc \in Unpublished => ptime[r] < last_pkttime
        BY <2>1, <3>2 DEF SampleIsOld, Sampled
      <4>2. Intact(r)' => slot'[off[r]] = slot[off[r]]
        BY <1>1, <3>2, <4>1 DEF Intact, NSTUNSET, SeqlockInv, WriterTypes
      <4>3. Copied(r)' = Copied(r)
        BY <1>1 DEF Copied
      <4> QED
        BY <1>1, <2>1, <3>2, <4>2, <4>3 DEF CopyIsFaithful, Intact
    <3> QED
      BY <3>1, <3>2
  <2>4. HandedOut(r)'
    BY <1>1, <2>1 DEF HandedOut
  <2> QED
    BY <2>2, <2>3, <2>4 DEF ReaderInv
<1> QED
  BY <1>2, <1>3

(* Stamping and choosing the slot.                                         *)
LEMMA StartPreserves ==
  ASSUME SeqlockInv, NEW sid \in Streams, NEW reqid \in SuppliedIds \cup {RINGID_NONE},
         WStart(sid, reqid)
  PROVE  SeqlockInv'
<1>1. WriterTypes /\ StampsNamePackets /\ SlotsHoldPackets
  BY DEF SeqlockInv
<1>2. /\ wpc = "idle" /\ wpc' = "invalidate"
      /\ slot' = slot /\ written' = written /\ latestoffset' = latestoffset
      /\ last_pkttime' = last_pkttime + 1 /\ woff' = TargetOffset
      /\ UNCHANGED rvars
  BY DEF WStart, MayWrite
<1>3. TargetOffset \in Offsets
  BY <1>1, ReadersAssumption, NextOffsetInBuffer DEF TargetOffset, WriterTypes, Offsets
<1>4. NextPktId \in PktIds
  <2>1. latestoffset >= 0 => slot[latestoffset].pktid \in PktIds \cup {NSTUNSET}
    BY <1>1 DEF WriterTypes, Offsets, PacketType
  <2> QED
    BY <1>1, <2>1, ReadersAssumption DEF NextPktId, PktIds, NSTUNSET, WriterTypes, Offsets
<1>5. /\ wpkt' \in PacketType
      /\ wpkt'.pkttime = last_pkttime + 1 /\ wpkt'.streamid = sid
  BY <1>1, <1>4, ReadersAssumption DEF WStart, PacketType, WriterTypes, PktIds, RINGID_NONE
<1>6. WriterTypes'
  BY <1>1, <1>2, <1>3, <1>5 DEF WriterTypes
<1>7. StampsNamePackets'
  BY <1>1, <1>2, <1>5 DEF StampsNamePackets, WriterTypes, Unpublished
<1>8. SlotsHoldPackets'
  BY <1>1, <1>2 DEF SlotsHoldPackets
<1>9. ReaderDomains' /\ \A r \in Readers : ReaderInv(r)'
  BY <1>1, <1>2, ReadersUndisturbed DEF WriterTypes
<1> QED
  BY <1>6, <1>7, <1>8, <1>9 DEF SeqlockInv

(* A write that fails consumes a stamp.                                    *)
LEMMA ErrorPreserves ==
  ASSUME SeqlockInv, WError
  PROVE  SeqlockInv'
<1>1. WriterTypes /\ StampsNamePackets /\ SlotsHoldPackets
  BY DEF SeqlockInv
<1>2. /\ wpc = "idle" /\ wpc' = wpc /\ wpkt' = wpkt /\ woff' = woff /\ wtodo' = wtodo
      /\ slot' = slot /\ written' = written /\ latestoffset' = latestoffset
      /\ last_pkttime' = last_pkttime + 1
      /\ UNCHANGED rvars
  BY DEF WError, MayWrite
<1>3. WriterTypes' /\ StampsNamePackets' /\ SlotsHoldPackets'
  BY <1>1, <1>2 DEF WriterTypes, StampsNamePackets, SlotsHoldPackets, Unpublished
<1>4. ReaderDomains' /\ \A r \in Readers : ReaderInv(r)'
  BY <1>1, <1>2, ReadersUndisturbed DEF WriterTypes, Unpublished
<1> QED
  BY <1>3, <1>4 DEF SeqlockInv

(* Marking the slot unset.                                                 *)
LEMMA InvalidatePreserves ==
  ASSUME SeqlockInv, WInvalidate
  PROVE  SeqlockInv'
<1>1. WriterTypes /\ StampsNamePackets /\ SlotsHoldPackets
  BY DEF SeqlockInv
<1>2. /\ wpc = "invalidate" /\ wpc' = "payload" /\ wpkt' = wpkt /\ woff' = woff
      /\ slot' = [slot EXCEPT ![woff].pkttime = NSTUNSET]
      /\ written' = written /\ latestoffset' = latestoffset /\ last_pkttime' = last_pkttime
      /\ UNCHANGED rvars
  BY DEF WInvalidate
<1>3. WriterTypes'
  BY <1>1, <1>2, StoreField DEF WriterTypes
<1>4. /\ slot'[woff].pkttime = NSTUNSET
      /\ \A o \in Offsets : o # woff => slot'[o] = slot[o]
  BY <1>1, <1>2 DEF WriterTypes, PacketType
<1>5. StampsNamePackets'
  BY <1>1, <1>2 DEF StampsNamePackets, Unpublished
<1>6. SlotsHoldPackets'
  BY <1>1, <1>2, <1>4 DEF SlotsHoldPackets
<1>7. ReaderDomains' /\ \A r \in Readers : ReaderInv(r)'
  BY <1>1, <1>2, <1>4, ReadersUndisturbed DEF WriterTypes, Unpublished
<1> QED
  BY <1>3, <1>5, <1>6, <1>7 DEF SeqlockInv

(* Copying the payload into the slot.                                      *)
LEMMA PayloadPreserves ==
  ASSUME SeqlockInv, WPayload
  PROVE  SeqlockInv'
<1>1. WriterTypes /\ StampsNamePackets /\ SlotsHoldPackets
  BY DEF SeqlockInv
<1>2. /\ wpc = "payload" /\ wpc' = "header" /\ wpkt' = wpkt /\ woff' = woff
      /\ wtodo' = {"pktid", "streamid"}
      /\ slot' = [slot EXCEPT ![woff].data = wpkt.data]
      /\ written' = written /\ latestoffset' = latestoffset /\ last_pkttime' = last_pkttime
      /\ UNCHANGED rvars
  BY DEF WPayload
<1>3. WriterTypes'
  BY <1>1, <1>2, StoreField DEF WriterTypes
<1>4. /\ slot'[woff].pkttime = NSTUNSET /\ slot'[woff].data = wpkt.data
      /\ \A o \in Offsets : o # woff => slot'[o] = slot[o]
  <2>1. slot[woff] \in PacketType /\ slot[woff].pkttime = NSTUNSET
    BY <1>1, <1>2 DEF WriterTypes, SlotsHoldPackets
  <2> QED
    BY <1>1, <1>2, <2>1 DEF WriterTypes, PacketType
<1>5. StampsNamePackets'
  BY <1>1, <1>2 DEF StampsNamePackets, Unpublished
<1>6. SlotsHoldPackets'
  BY <1>1, <1>2, <1>4 DEF SlotsHoldPackets
<1>7. ReaderDomains' /\ \A r \in Readers : ReaderInv(r)'
  BY <1>1, <1>2, <1>4, ReadersUndisturbed DEF WriterTypes, Unpublished
<1> QED
  BY <1>3, <1>5, <1>6, <1>7 DEF SeqlockInv

(* Copying a header field into the slot.                                   *)
LEMMA HeaderPreserves ==
  ASSUME SeqlockInv, NEW f \in {"pktid", "streamid"}, WHeader(f)
  PROVE  SeqlockInv'
<1>1. WriterTypes /\ StampsNamePackets /\ SlotsHoldPackets
  BY DEF SeqlockInv
<1>2. /\ wpc = "header" /\ wpc' = "header" /\ wpkt' = wpkt /\ woff' = woff
      /\ wtodo' = wtodo \ {f}
      /\ written' = written /\ latestoffset' = latestoffset /\ last_pkttime' = last_pkttime
      /\ UNCHANGED rvars
  BY DEF WHeader
<1>3. slot[woff] \in PacketType /\ slot[woff].pkttime = NSTUNSET /\ slot[woff].data = wpkt.data
  BY <1>1, <1>2 DEF WriterTypes, SlotsHoldPackets
<1>4. /\ slot' \in [Offsets -> PacketType]
      /\ slot'[woff].pkttime = NSTUNSET /\ slot'[woff].data = wpkt.data
      /\ "pktid" \notin wtodo' => slot'[woff].pktid = wpkt.pktid
      /\ "streamid" \notin wtodo' => slot'[woff].streamid = wpkt.streamid
      /\ \A o \in Offsets : o # woff => slot'[o] = slot[o]
  <2>1. CASE f = "pktid"
    <3>1. slot' = [slot EXCEPT ![woff].pktid = wpkt.pktid]
      BY <2>1 DEF WHeader
    <3>2. slot' \in [Offsets -> PacketType]
      BY <1>1, <3>1, StoreField DEF WriterTypes
    <3> QED
      BY <1>1, <1>2, <1>3, <2>1, <3>1, <3>2 DEF WriterTypes, PacketType, SlotsHoldPackets
  <2>2. CASE f = "streamid"
    <3>1. slot' = [slot EXCEPT ![woff].streamid = wpkt.streamid]
      BY <2>2 DEF WHeader
    <3>2. slot' \in [Offsets -> PacketType]
      BY <1>1, <3>1, StoreField DEF WriterTypes
    <3> QED
      BY <1>1, <1>2, <1>3, <2>2, <3>1, <3>2 DEF WriterTypes, PacketType, SlotsHoldPackets
  <2> QED
    BY <2>1, <2>2
<1>5. WriterTypes'
  BY <1>1, <1>2, <1>4 DEF WriterTypes
<1>6. StampsNamePackets'
  BY <1>1, <1>2 DEF StampsNamePackets, Unpublished
<1>7. SlotsHoldPackets'
  BY <1>1, <1>2, <1>4 DEF SlotsHoldPackets
<1>8. ReaderDomains' /\ \A r \in Readers : ReaderInv(r)'
  BY <1>1, <1>2, <1>4, ReadersUndisturbed DEF WriterTypes, Unpublished
<1> QED
  BY <1>5, <1>6, <1>7, <1>8 DEF SeqlockInv

(* Publishing: the slot now shows the new stamp, and holds the packet.     *)
LEMMA PublishPreserves ==
  ASSUME SeqlockInv, WPublish
  PROVE  SeqlockInv'
<1>1. WriterTypes /\ StampsNamePackets /\ SlotsHoldPackets
  BY DEF SeqlockInv
<1>2. /\ wpc = "header" /\ wtodo = {} /\ wpc' = "earliest" /\ wpkt' = wpkt /\ woff' = woff
      /\ slot' = [slot EXCEPT ![woff].pkttime = wpkt.pkttime]
      /\ written' = written \cup {wpkt}
      /\ latestoffset' = latestoffset /\ last_pkttime' = last_pkttime
      /\ UNCHANGED rvars
  BY DEF WPublish
<1>3. WriterTypes'
  BY <1>1, <1>2, StoreField DEF WriterTypes
<1>4. /\ slot'[woff] = wpkt
      /\ \A o \in Offsets : o # woff => slot'[o] = slot[o]
  <2>1. slot[woff] \in PacketType
    BY <1>1 DEF WriterTypes
  <2>2. /\ slot'[woff].pkttime = wpkt.pkttime /\ slot'[woff].pktid = slot[woff].pktid
        /\ slot'[woff].streamid = slot[woff].streamid /\ slot'[woff].data = slot[woff].data
        /\ \A o \in Offsets : o # woff => slot'[o] = slot[o]
    BY <1>1, <1>2, <2>1 DEF WriterTypes, PacketType
  <2>3. /\ slot[woff].pktid = wpkt.pktid /\ slot[woff].streamid = wpkt.streamid
        /\ slot[woff].data = wpkt.data
    BY <1>1, <1>2 DEF SlotsHoldPackets
  <2>4. slot'[woff] \in PacketType /\ wpkt \in PacketType
    BY <1>1, <1>2, <1>3 DEF WriterTypes
  <2> QED
    BY <2>2, <2>3, <2>4, SameFields
<1>5. /\ wpkt.pkttime = last_pkttime /\ last_pkttime > 0 /\ wpkt.streamid \in Streams
      /\ \A p \in written : p.pkttime < last_pkttime /\ p.pkttime \in Nat
  BY <1>1, <1>2 DEF StampsNamePackets, Unpublished
<1>6. StampsNamePackets'
  BY <1>1, <1>2, <1>5 DEF StampsNamePackets, Unpublished, WriterTypes
<1>7. SlotsHoldPackets'
  BY <1>1, <1>2, <1>4 DEF SlotsHoldPackets
<1>8. ReaderDomains' /\ \A r \in Readers : ReaderInv(r)'
  BY <1>1, <1>2, <1>4, <1>5, ReadersUndisturbed DEF WriterTypes, Unpublished
<1> QED
  BY <1>3, <1>6, <1>7, <1>8 DEF SeqlockInv

(* Moving the ends of the ring.                                            *)
LEMMA CommitPreserves ==
  ASSUME SeqlockInv, WEarliest \/ WLatest
  PROVE  SeqlockInv'
<1>1. WriterTypes /\ StampsNamePackets /\ SlotsHoldPackets
  BY DEF SeqlockInv
<1>2. /\ wpc \in {"earliest", "latest"} /\ wpc' \in {"latest", "idle"}
      /\ wpkt' = wpkt /\ woff' = woff /\ slot' = slot
      /\ latestoffset' \in {latestoffset, woff}
      /\ written' = written /\ last_pkttime' = last_pkttime
      /\ UNCHANGED rvars
  BY DEF WEarliest, WLatest
<1>3. WriterTypes' /\ StampsNamePackets' /\ SlotsHoldPackets'
  BY <1>1, <1>2 DEF WriterTypes, StampsNamePackets, SlotsHoldPackets, Unpublished
<1>4. ReaderDomains' /\ \A r \in Readers : ReaderInv(r)'
  BY <1>1, <1>2, ReadersUndisturbed DEF WriterTypes, Unpublished
<1> QED
  BY <1>3, <1>4 DEF SeqlockInv

-----------------------------------------------------------------------------
(* The readers' steps.                                                     *)

\* A step of reader r alone: it stores nothing in the ring and leaves the
\* other readers' variables as they are.
OnlyReader(r) ==
  /\ UNCHANGED wvars
  /\ ReaderDomains'
  /\ \A q \in Readers : q # r =>
       /\ pc'[q] = pc[q] /\ op'[q] = op[q] /\ off'[q] = off[q] /\ ptime'[q] = ptime[q]
       /\ buf'[q] = buf[q] /\ rtodo'[q] = rtodo[q] /\ rv'[q] = rv[q]

(* Such a step has to answer for reader r only.                            *)
LEMMA OneReader ==
  ASSUME SeqlockInv, NEW r \in Readers, OnlyReader(r), ReaderInv(r)'
  PROVE  SeqlockInv'
<1>1. WriterTypes /\ StampsNamePackets /\ SlotsHoldPackets /\ \A q \in Readers : ReaderInv(q)
  BY DEF SeqlockInv
<1>2. /\ slot' = slot /\ latestoffset' = latestoffset /\ wpc' = wpc /\ wpkt' = wpkt
      /\ woff' = woff /\ wtodo' = wtodo /\ last_pkttime' = last_pkttime /\ written' = written
  BY DEF OnlyReader, wvars
<1>3. WriterTypes' /\ StampsNamePackets' /\ SlotsHoldPackets'
  BY <1>1, <1>2 DEF WriterTypes, StampsNamePackets, SlotsHoldPackets
<1>4. ASSUME NEW q \in Readers, q # r
      PROVE  ReaderInv(q)'
  <2>1. /\ pc'[q] = pc[q] /\ op'[q] = op[q] /\ off'[q] = off[q] /\ ptime'[q] = ptime[q]
        /\ buf'[q] = buf[q] /\ rtodo'[q] = rtodo[q] /\ rv'[q] = rv[q]
    BY <1>4 DEF OnlyReader
  <2>2. SampleIsOld(q)' /\ HandedOut(q)'
    BY <1>1, <1>2, <2>1 DEF ReaderInv, SampleIsOld, HandedOut
  <2>3. CopyIsFaithful(q)'
    BY <1>1, <1>2, <2>1 DEF ReaderInv, CopyIsFaithful, Copied, Intact
  <2> QED
    BY <2>2, <2>3 DEF ReaderInv
<1> QED
  BY <1>3, <1>4 DEF SeqlockInv, OnlyReader

(* Nothing is claimed of a reader between its samples.                     *)
LEMMA QuietStep ==
  ASSUME SeqlockInv, NEW r \in Readers, OnlyReader(r), pc'[r] \notin Sampled \cup {"idle"}
  PROVE  SeqlockInv'
<1>1. ReaderInv(r)'
  BY DEF ReaderInv, SampleIsOld, CopyIsFaithful, HandedOut, Sampled, Copying
<1> QED
  BY <1>1, OneReader

(* A function that returns without a packet.                               *)
LEMMA CodeReturned ==
  ASSUME SeqlockInv, NEW r \in Readers, OnlyReader(r), pc'[r] = "idle", rv'[r].pkt = Blank
  PROVE  SeqlockInv'
<1>1. ReaderInv(r)'
  BY BlankPacket DEF ReaderInv, SampleIsOld, CopyIsFaithful, HandedOut, Sampled, Copying
<1> QED
  BY <1>1, OneReader

(* Returning, spelled out.                                                 *)
LEMMA ReturnEffect ==
  ASSUME SeqlockInv, NEW r \in Readers, NEW id, NEW p, Return(r, id, p), UNCHANGED wvars,
         DOMAIN op' = Readers, \A q \in Readers : q # r => op'[q] = op[q]
  PROVE  /\ OnlyReader(r) /\ pc'[r] = "idle"
         /\ rv'[r].pkt = p /\ rv'[r].off = off[r]
BY DEF SeqlockInv, ReaderDomains, Return, OnlyReader

(* The search for a packet ID and the steps that only load offsets and     *)
(* relative positions.                                                     *)
LEMMA SearchPreserves ==
  ASSUME SeqlockInv, NEW r \in Readers,
         \/ FEarliest(r) \/ FLatest(r) \/ FSample(r) \/ FId(r)
         \/ FCheckEarliest(r) \/ FCheckLatest(r) \/ FMiss(r)
         \/ RNLatest(r) \/ Found(r) \/ RNLapped(r) \/ PSResolved(r) \/ PSTime(r)
         \/ CallReadNext(r)
  PROVE  SeqlockInv'
<1>1. ReaderDomains
  BY DEF SeqlockInv
<1>2. CASE FEarliest(r) \/ FLatest(r) \/ FSample(r) \/ FId(r) \/ FCheckEarliest(r)
  BY <1>1, <1>2, QuietStep
     DEF FEarliest, FLatest, FSample, FId, FCheckEarliest, FSampleNext, Goto, OnlyReader,
         ReaderDomains, Sampled, Copying
<1>3. CASE FCheckLatest(r) \/ FMiss(r) \/ RNLatest(r) \/ Found(r)
  BY <1>1, <1>3, QuietStep
     DEF FCheckLatest, FMiss, RNLatest, Found, Goto, OnlyReader, ReaderDomains, Sampled, Copying
<1>4. CASE RNLapped(r) \/ PSResolved(r) \/ PSTime(r) \/ CallReadNext(r)
  BY <1>1, <1>4, QuietStep
     DEF RNLapped, PSResolved, PSTime, CallReadNext, Goto, OnlyReader, ReaderDomains,
         Sampled, Copying
<1> QED
  BY <1>2, <1>3, <1>4

(* Steps that return a code, always or in some of their cases.             *)
LEMMA CodePreserves ==
  ASSUME SeqlockInv, NEW r \in Readers,
         \/ RPNone(r) \/ RNEmpty(r) \/ RNCaughtUp(r) \/ RNBegin(r) \/ RNNotFound(r)
         \/ RNReposition(r) \/ RNSkip(r) \/ PSCheck(r) \/ PBDone(r) \/ NotFound(r)
  PROVE  SeqlockInv'
<1>1. ReaderDomains
  BY DEF SeqlockInv
<1>2. ASSUME NEW id, ReturnCode(r, id), UNCHANGED <<wvars, op>>
      PROVE  SeqlockInv'
  <2>1. OnlyReader(r) /\ pc'[r] = "idle" /\ rv'[r].pkt = Blank
    BY <1>1, <1>2, ReturnEffect DEF ReturnCode, ReaderDomains
  <2> QED
    BY <2>1, CodeReturned
<1>3. CASE RPNone(r) \/ RNEmpty(r) \/ RNCaughtUp(r)
  BY <1>2, <1>3 DEF RPNone, RNEmpty, RNCaughtUp
<1>4. CASE PSCheck(r) \/ PBDone(r) \/ NotFound(r)
  BY <1>2, <1>4 DEF PSCheck, PBDone, NotFound
<1>5. ASSUME Goto(r, "rn_sample") \/ Goto(r, "f_earliest"), UNCHANGED <<wvars, op, rv>>,
             UNCHANGED <<ptime, buf, rtodo>>, DOMAIN off' = Readers,
             \A q \in Readers : q # r => off'[q] = off[q]
      PROVE  SeqlockInv'
  BY <1>1, <1>5, QuietStep DEF Goto, OnlyReader, ReaderDomains, Sampled, Copying
<1>6. CASE RNReposition(r)
  BY <1>1, <1>2, <1>5, <1>6 DEF RNReposition, ReaderDomains
<1>7. CASE RNSkip(r)
  BY <1>1, <1>2, <1>5, <1>7 DEF RNSkip, ReaderDomains
<1>8. CASE RNNotFound(r)
  BY <1>1, <1>2, <1>5, <1>8 DEF RNNotFound, WaitAtLatest, ReaderDomains
<1>9. CASE RNBegin(r)
  BY <1>1, <1>2, <1>5, <1>9 DEF RNBegin, WaitAtLatest, ReaderDomains
<1> QED
  BY <1>3, <1>4, <1>6, <1>7, <1>8, <1>9

(* The client's commands.                                                  *)
LEMMA CommandPreserves ==
  ASSUME SeqlockInv, NEW r \in Readers, ClientCommand(r)
  PROVE  SeqlockInv'
<1>1. ReaderDomains
  BY DEF SeqlockInv
<1>2. ASSUME NEW name, Command(r, name), UNCHANGED wvars, NEW id, ReturnCode(r, id)
      PROVE  SeqlockInv'
  <2>1. DOMAIN op' = Readers /\ \A q \in Readers : q # r => op'[q] = op[q]
    BY <1>1, <1>2 DEF Command, ReaderDomains
  <2>2. OnlyReader(r) /\ pc'[r] = "idle" /\ rv'[r].pkt = Blank
    BY <1>2, <2>1, ReturnEffect DEF ReturnCode
  <2> QED
    BY <2>2, CodeReturned
<1>3. ASSUME NEW name, Command(r, name), UNCHANGED wvars, NEW id, NEW time, Resolve(r, id, time)
      PROVE  SeqlockInv'
  BY <1>1, <1>3, QuietStep
     DEF Command, Resolve, Goto, OnlyReader, ReaderDomains, Sampled, Copying
<1>4. ASSUME NEW id, NEW time, CallPosition(r, id, time)
      PROVE  SeqlockInv'
  BY <1>2, <1>3, <1>4 DEF CallPosition
<1>5. ASSUME NEW id, CallPositionBefore(r, id)
      PROVE  SeqlockInv'
  BY <1>2, <1>3, <1>5 DEF CallPositionBefore
<1>6. ASSUME NEW id, CallRead(r, id)
      PROVE  SeqlockInv'
  BY <1>2, <1>3, <1>6 DEF CallRead
<1> QED
  BY <1>4, <1>5, <1>6 DEF ClientCommand

(* Sampling a slot: the stamp read is in the past.                         *)
LEMMA SampledIsOld ==
  ASSUME SeqlockInv, NEW o \in Offsets, slot[o].pkttime # NSTUNSET
  PROVE  /\ slot[o].pkttime \in 0 .. last_pkttime
         /\ wpc \in Unpublished => slot[o].pkttime < last_pkttime
<1>1. slot[o] \in written \cup {Blank}
  BY DEF SeqlockInv, SlotsHoldPackets
<1>2. CASE slot[o] \in written
  BY <1>2 DEF SeqlockInv, StampsNamePackets, WriterTypes
<1>3. CASE slot[o] = Blank
  BY <1>3, BlankPacket DEF SeqlockInv, StampsNamePackets, WriterTypes
<1> QED
  BY <1>1, <1>2, <1>3

(* Taking a sample.                                                        *)
LEMMA SamplePreserves ==
  ASSUME SeqlockInv, NEW r \in Readers, RPSample(r) \/ RNSample(r)
  PROVE  SeqlockInv'
<1>1. ReaderDomains
  BY DEF SeqlockInv
<1>2. OnlyReader(r)
  BY <1>1 DEF RPSample, RNSample, Goto, OnlyReader, ReaderDomains
<1>3. /\ slot[off[r]].pkttime # NSTUNSET /\ ptime'[r] = slot[off[r]].pkttime
      /\ off' = off /\ wpc' = wpc /\ last_pkttime' = last_pkttime /\ op' = op
  BY <1>1 DEF RPSample, RNSample, Lapped, ReaderDomains, wvars
<1>4. SampleIsOld(r)'
  BY <1>3, SampledIsOld DEF SampleIsOld
<1>5. CopyIsFaithful(r)'
  <2>1. CASE RPSample(r)
    <3>1. /\ pc'[r] = "rp_copy" /\ buf'[r] = Blank
          /\ rtodo'[r] = IF op[r] = "read" THEN Whole ELSE Header
      BY <1>1, <2>1 DEF RPSample, Goto, ReaderDomains
    <3>2. Copied(r)' = rtodo'[r]
      BY <1>3, <3>1 DEF Copied
    <3> QED
      BY <3>1, <3>2, BlankPacket DEF CopyIsFaithful
  <2>2. CASE RNSample(r)
    BY <1>1, <2>2 DEF RNSample, Goto, ReaderDomains, CopyIsFaithful, Copying
  <2> QED
    BY <2>1, <2>2
<1>6. HandedOut(r)'
  BY <1>1 DEF RPSample, RNSample, Goto, ReaderDomains, HandedOut
<1> QED
  BY <1>2, <1>4, <1>5, <1>6, OneReader DEF ReaderInv

(* Recording the position, and the match of the stream ID.                 *)
LEMMA MatchPreserves ==
  ASSUME SeqlockInv, NEW r \in Readers, RNPosition(r) \/ RNMatch(r)
  PROVE  SeqlockInv'
<1>1. ReaderDomains /\ SampleIsOld(r)
  BY DEF SeqlockInv, ReaderInv
<1>2. OnlyReader(r)
  BY <1>1 DEF RNPosition, RNMatch, Goto, OnlyReader, ReaderDomains
<1>3. /\ pc[r] \in Sampled /\ pc'[r] \in {"rn_filter", "rn_copy"}
      /\ slot' = slot /\ off' = off /\ ptime' = ptime /\ wpc' = wpc
      /\ last_pkttime' = last_pkttime
  BY <1>1 DEF RNPosition, RNMatch, Goto, ReaderDomains, Sampled, wvars
<1>4. SampleIsOld(r)'
  BY <1>1, <1>3 DEF SampleIsOld
<1>5. CopyIsFaithful(r)'
  <2>1. CASE RNPosition(r)
    BY <1>1, <2>1 DEF RNPosition, Goto, ReaderDomains, CopyIsFaithful, Copying
  <2>2. CASE RNMatch(r)
    <3>1. /\ pc[r] = "rn_filter" /\ pc'[r] = "rn_copy" /\ buf'[r] = Blank /\ rtodo'[r] = Whole
          /\ \E sid \in Reads(off[r], "streamid") : sid \in Selected[r] \cup {NoStream}
      BY <1>1, <2>2 DEF RNMatch, Goto, ReaderDomains
    <3>2. Copied(r)' = rtodo'[r]
      BY <3>1 DEF Copied
    <3>3. ASSUME off[r] \in Offsets, Intact(r)
          PROVE  slot[off[r]].streamid \in Selected[r] \cup {NoStream}
      <4>1. slot[off[r]].pkttime # NSTUNSET
        BY <1>1, <1>3, <3>3 DEF SampleIsOld, Intact, NSTUNSET
      <4>2. ~InCopy(off[r], "streamid")
        BY <4>1 DEF InCopy, SeqlockInv, SlotsHoldPackets
      <4> QED
        BY <3>1, <4>2 DEF Reads
    <3>4. Intact(r)' <=> Intact(r)
      BY <1>3 DEF Intact
    <3> QED
      BY <1>3, <3>1, <3>2, <3>3, <3>4, BlankPacket DEF CopyIsFaithful
  <2> QED
    BY <2>1, <2>2
<1>6. HandedOut(r)'
  BY <1>3 DEF HandedOut
<1> QED
  BY <1>2, <1>4, <1>5, <1>6, OneReader DEF ReaderInv

(* Copying a field: garbled bytes come only from a slot that is unset.     *)
LEMMA CopyPreserves ==
  ASSUME SeqlockInv, NEW r \in Readers, NEW f \in Whole, CopyField(r, f)
  PROVE  SeqlockInv'
<1>1. ReaderDomains /\ SampleIsOld(r) /\ CopyIsFaithful(r) /\ WriterTypes
  BY DEF SeqlockInv, ReaderInv
<1>2. OnlyReader(r)
  BY <1>1 DEF CopyField, OnlyReader, ReaderDomains
<1>3. /\ pc[r] \in Copying /\ pc' = pc /\ op' = op /\ off' = off /\ ptime' = ptime
      /\ slot' = slot /\ wpc' = wpc /\ last_pkttime' = last_pkttime
      /\ rtodo'[r] = rtodo[r] \ {f}
  BY <1>1 DEF CopyField, Copying, ReaderDomains, wvars
<1>4. SampleIsOld(r)'
  BY <1>1, <1>3 DEF SampleIsOld
<1>5. HandedOut(r)'
  BY <1>3 DEF HandedOut, Copying
<1>6. CopyIsFaithful(r)'
  <2> SUFFICES ASSUME off[r] \in Offsets
               PROVE  CopyIsFaithful(r)'
    BY <1>3 DEF CopyIsFaithful
  <2>1. PICK v \in Reads(off[r], f) : buf' = [buf EXCEPT ![r][f] = v]
    BY DEF CopyField
  <2>2. buf[r] \in PacketType /\ slot[off[r]] \in PacketType
    BY <1>1, <1>3 DEF CopyIsFaithful, WriterTypes
  <2>3. Intact(r) => v = slot[off[r]][f]
    <3> SUFFICES ASSUME Intact(r)
                 PROVE  v = slot[off[r]][f]
      OBVIOUS
    <3>1. slot[off[r]].pkttime # NSTUNSET
      BY <1>1, <1>3 DEF SampleIsOld, Sampled, Intact, NSTUNSET
    <3>2. ~InCopy(off[r], f)
      BY <3>1 DEF InCopy, SeqlockInv, SlotsHoldPackets
    <3> QED
      BY <2>1, <3>2 DEF Reads
  <2>4. Copied(r)' = Copied(r) /\ (Intact(r)' <=> Intact(r))
    BY <1>3 DEF Copied, Intact
  <2>5. CASE f = "pkttime"
    <3>1. buf'[r] = [buf[r] EXCEPT !.pkttime = v]
      BY <1>1, <2>1, <2>5 DEF ReaderDomains
    <3>2. v \in Nat \cup {NSTUNSET}
      BY <2>1, <2>2, <2>5 DEF Reads, InCopy, Garbled, PacketType
    <3>3. /\ buf'[r] \in PacketType
          /\ buf'[r].pkttime = v /\ buf'[r].pktid = buf[r].pktid
          /\ buf'[r].streamid = buf[r].streamid /\ buf'[r].data = buf[r].data
      BY <2>2, <3>1, <3>2 DEF PacketType
    <3> QED
      BY <1>1, <1>3, <2>3, <2>4, <2>5, <3>3 DEF CopyIsFaithful
  <2>6. CASE f = "pktid"
    <3>1. buf'[r] = [buf[r] EXCEPT !.pktid = v]
      BY <1>1, <2>1, <2>6 DEF ReaderDomains
    <3>2. v \in PktIds \cup {NSTUNSET}
      BY <2>1, <2>2, <2>6 DEF Reads, InCopy, Garbled, PacketType
    <3>3. /\ buf'[r] \in PacketType
          /\ buf'[r].pktid = v /\ buf'[r].pkttime = buf[r].pkttime
          /\ buf'[r].streamid = buf[r].streamid /\ buf'[r].data = buf[r].data
      BY <2>2, <3>1, <3>2 DEF PacketType
    <3> QED
      BY <1>1, <1>3, <2>3, <2>4, <2>6, <3>3 DEF CopyIsFaithful
  <2>7. CASE f = "streamid"
    <3>1. buf'[r] = [buf[r] EXCEPT !.streamid = v]
      BY <1>1, <2>1, <2>7 DEF ReaderDomains
    <3>2. v \in Streams \cup {NoStream}
      BY <2>1, <2>2, <2>7 DEF Reads, Garbled, PacketType
    <3>3. /\ buf'[r] \in PacketType
          /\ buf'[r].streamid = v /\ buf'[r].pkttime = buf[r].pkttime
          /\ buf'[r].pktid = buf[r].pktid /\ buf'[r].data = buf[r].data
      BY <2>2, <3>1, <3>2 DEF PacketType
    <3> QED
      BY <1>1, <1>3, <2>3, <2>4, <2>7, <3>3 DEF CopyIsFaithful
  <2>8. CASE f = "data"
    <3>1. buf'[r] = [buf[r] EXCEPT !.data = v]
      BY <1>1, <2>1, <2>8 DEF ReaderDomains
    <3>2. v \in Nat \cup {NSTUNSET}
      BY <2>1, <2>2, <2>8 DEF Reads, Garbled, PacketType
    <3>3. /\ buf'[r] \in PacketType
          /\ buf'[r].data = v /\ buf'[r].pkttime = buf[r].pkttime
          /\ buf'[r].pktid = buf[r].pktid /\ buf'[r].streamid = buf[r].streamid
      BY <2>2, <3>1, <3>2 DEF PacketType
    <3> QED
      BY <1>1, <1>3, <2>3, <2>4, <2>8, <3>3 DEF CopyIsFaithful
  <2> QED
    BY <2>5, <2>6, <2>7, <2>8 DEF Whole
<1> QED
  BY <1>2, <1>4, <1>5, <1>6, OneReader DEF ReaderInv

(* A complete copy that passes the check is the packet in the slot.        *)
LEMMA CheckedCopy ==
  ASSUME SeqlockInv, NEW r \in Readers, pc[r] \in Copying, Copied(r) = Whole,
         rtodo[r] = {}, off[r] \in Offsets, Intact(r)
  PROVE  /\ buf[r] = slot[off[r]]
         /\ buf[r] \in written \cup {Blank}
         /\ pc[r] = "rn_copy" => buf[r].streamid \in Selected[r] \cup {NoStream}
<1>1. SampleIsOld(r) /\ CopyIsFaithful(r) /\ WriterTypes /\ SlotsHoldPackets
  BY DEF SeqlockInv, ReaderInv
<1>2. buf[r] \in PacketType /\ slot[off[r]] \in PacketType
  BY <1>1 DEF CopyIsFaithful, WriterTypes
<1>3. /\ buf[r].pkttime = slot[off[r]].pkttime /\ buf[r].pktid = slot[off[r]].pktid
      /\ buf[r].streamid = slot[off[r]].streamid /\ buf[r].data = slot[off[r]].data
      /\ pc[r] = "rn_copy" => slot[off[r]].streamid \in Selected[r] \cup {NoStream}
  BY <1>1 DEF CopyIsFaithful, Whole
<1>4. buf[r] = slot[off[r]]
  BY <1>2, <1>3, SameFields
<1>5. slot[off[r]].pkttime # NSTUNSET
  BY <1>1 DEF SampleIsOld, Sampled, Intact, NSTUNSET
<1> QED
  BY <1>1, <1>3, <1>4, <1>5 DEF SlotsHoldPackets

(* Handing out a packet.                                                   *)
LEMMA DeliverPreserves ==
  ASSUME SeqlockInv, NEW r \in Readers, RNReturn(r) \/ RDReturn(r) \/ RNWild(r)
  PROVE  SeqlockInv'
<1>1. ReaderDomains
  BY DEF SeqlockInv
<1>2. ASSUME NEW id, NEW p, Return(r, id, p), UNCHANGED <<wvars, op>>,
             off[r] \in Offsets =>
               /\ p \in written \cup {Blank}
               /\ op[r] = "next" => p.streamid \in Selected[r] \cup {NoStream}
      PROVE  SeqlockInv'
  <2>1. OnlyReader(r) /\ pc'[r] = "idle" /\ rv'[r].pkt = p /\ rv'[r].off = off[r]
    BY <1>1, <1>2, ReturnEffect DEF ReaderDomains
  <2>2. SampleIsOld(r)' /\ CopyIsFaithful(r)'
    BY <2>1 DEF SampleIsOld, CopyIsFaithful, Sampled, Copying
  <2>3. HandedOut(r)'
    BY <1>2, <2>1 DEF HandedOut, wvars
  <2> QED
    BY <2>1, <2>2, <2>3, OneReader DEF ReaderInv
<1>3. Blank \in written \cup {Blank} /\ Blank.streamid = NoStream
  BY BlankPacket
<1>4. CASE RNReturn(r)
  <2>1. pc[r] = "rn_copy" /\ rtodo[r] = {} /\ UNCHANGED <<wvars, op>>
    BY <1>4 DEF RNReturn
  <2>2. CASE Intact(r)
    <3>1. off[r] \in Offsets =>
            /\ buf[r] \in written \cup {Blank}
            /\ buf[r].streamid \in Selected[r] \cup {NoStream}
      BY <2>1, <2>2, CheckedCopy DEF Copied, Copying
    <3>2. Return(r, buf[r].pktid, buf[r])
      BY <1>4, <2>2 DEF RNReturn
    <3> QED
      BY <1>2, <2>1, <3>1, <3>2
  <2>3. CASE ~Intact(r)
    BY <1>2, <1>3, <1>4, <2>1, <2>3 DEF RNReturn, ReturnCode
  <2> QED
    BY <2>2, <2>3
<1>5. CASE RDReturn(r)
  <2>1. /\ pc[r] = "rp_copy" /\ rtodo[r] = {} /\ Intact(r) /\ op[r] = "read"
        /\ UNCHANGED <<wvars, op>>
    BY <1>5 DEF RDReturn, RPDone
  <2>2. off[r] \in Offsets => buf[r] \in written \cup {Blank}
    BY <2>1, CheckedCopy DEF Copied, Copying
  <2>3. CASE buf[r].pktid = loc[r].req
    BY <1>2, <1>5, <2>1, <2>2, <2>3 DEF RDReturn
  <2>4. CASE buf[r].pktid # loc[r].req
    BY <1>2, <1>3, <1>5, <2>1, <2>4 DEF RDReturn, ReturnCode
  <2> QED
    BY <2>3, <2>4
<1>6. CASE RNWild(r)
  <2>1. off[r] \notin Offsets /\ UNCHANGED <<wvars, op>>
    BY <1>6, ReadersAssumption DEF RNWild, Offsets
  <2>2. CASE Goto(r, "rn_reposition") /\ UNCHANGED <<reader, rv, locals>>
    BY <1>1, <2>1, <2>2, QuietStep
       DEF Goto, OnlyReader, ReaderDomains, locals, Sampled, Copying
  <2>3. CASE Return(r, RINGID_MAXIMUM, [Blank EXCEPT !.pktid = RINGID_MAXIMUM])
    BY <1>2, <2>1, <2>3
  <2> QED
    BY <1>6, <2>2, <2>3 DEF RNWild
<1> QED
  BY <1>4, <1>5, <1>6

(* Every step of a reader preserves the invariant.                         *)
LEMMA ReadStepPreserves ==
  ASSUME SeqlockInv, NEW r \in Readers, ReadStep(r)
  PROVE  SeqlockInv'
BY SearchPreserves, CodePreserves, SamplePreserves, MatchPreserves, CopyPreserves,
   DeliverPreserves DEF ReadStep

-----------------------------------------------------------------------------
(* The sequence-lock invariant holds in every reachable state.             *)
THEOREM SeqlockInvariant == Spec => []SeqlockInv
<1>1. Init => SeqlockInv
  <2> SUFFICES ASSUME Init
               PROVE  SeqlockInv
    OBVIOUS
  <2>1. WriterTypes
    BY BlankPacket, ReadersAssumption DEF Init, WriterTypes, Offsets
  <2>2. ReaderDomains
    BY DEF Init, ReaderDomains
  <2>3. StampsNamePackets
    BY DEF Init, StampsNamePackets, Unpublished
  <2>4. SlotsHoldPackets
    BY DEF Init, SlotsHoldPackets
  <2>5. ASSUME NEW r \in Readers
        PROVE  ReaderInv(r)
    <3>1. pc[r] = "idle" /\ op[r] = "none" /\ rv[r].pkt = Blank
      BY DEF Init
    <3> QED
      BY <3>1 DEF ReaderInv, SampleIsOld, CopyIsFaithful, HandedOut, Sampled, Copying
  <2> QED
    BY <2>1, <2>2, <2>3, <2>4, <2>5 DEF SeqlockInv
<1>2. SeqlockInv /\ [Next]_vars => SeqlockInv'
  <2> SUFFICES ASSUME SeqlockInv, [Next]_vars
               PROVE  SeqlockInv'
    OBVIOUS
  <2>1. CASE Write
    BY <2>1, StartPreserves, ErrorPreserves DEF Write
  <2>2. CASE Writing
    BY <2>2, InvalidatePreserves, PayloadPreserves, HeaderPreserves, PublishPreserves,
       CommitPreserves DEF Writing
  <2>3. CASE \E r \in Readers : ReadStep(r) \/ CallReadNext(r) \/ ClientCommand(r)
    BY <2>3, ReadStepPreserves, SearchPreserves, CommandPreserves
  <2>4. CASE UNCHANGED vars
    BY <2>4 DEF vars, wvars, rvars, locals, SeqlockInv, WriterTypes, ReaderDomains,
       StampsNamePackets, SlotsHoldPackets, ReaderInv, SampleIsOld, CopyIsFaithful,
       HandedOut, Copied, Intact
  <2> QED
    BY <2>1, <2>2, <2>3, <2>4 DEF Next
<1> QED
  BY <1>1, <1>2, PTL DEF Spec

(* Readers that take no lock never hand out a torn packet, whatever the    *)
(* writer does meanwhile, and RingReadNext() only packets they select.     *)
THEOREM NeverTorn == Spec => []DeliveredIntact
<1>1. SeqlockInv => DeliveredIntact
  <2> SUFFICES ASSUME SeqlockInv, NEW r \in Readers, pc[r] = "idle",
                      rv[r].off \in Offsets, rv[r].pkt # Blank
               PROVE  /\ rv[r].pkt \in written
                      /\ op[r] = "next" => rv[r].pkt.streamid \in Selected[r]
    BY DEF DeliveredIntact
  <2>1. /\ rv[r].pkt \in written
        /\ op[r] = "next" => rv[r].pkt.streamid \in Selected[r] \cup {NoStream}
    BY DEF SeqlockInv, ReaderInv, HandedOut
  <2>2. rv[r].pkt.streamid # NoStream
    BY <2>1, ReadersAssumption DEF SeqlockInv, StampsNamePackets
  <2> QED
    BY <2>1, <2>2
<1> QED
  BY <1>1, SeqlockInvariant, PTL

=============================================================================
