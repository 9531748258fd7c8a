----------------------------- MODULE RingReaders -----------------------------
(***************************************************************************)
(* The readers of ring.c, which take no lock, against a writer in the      *)
(* middle of RingWrite().  Writers are serialised by ringlock, so there is *)
(* one writer; its stores are separate steps.  Each load a reader makes    *)
(* from shared memory is a step of its own.                                *)
(*                                                                         *)
(* The acquire and release fences of ring.c order the loads and stores as  *)
(* written here.  The bytes between two fences are copied in any order,    *)
(* and a string or payload read while it is copied may come out torn.      *)
(* The clock and the stream index are in module Ring: a stamp here is the  *)
(* number of the write.  The payload of a packet is named by its stamp.    *)
(***************************************************************************)
EXTENDS Integers, FiniteSets

CONSTANTS
  Readers,        \* the client threads that read
  Streams,        \* stream IDs
  NoStream,       \* the blank stream ID of a slot never written
  Selected,       \* Selected[r]: the streams reader r's expressions select
  MaxPackets,     \* number of slots, param.maxpackets
  RINGID_MAXIMUM, \* largest packet ID
  SuppliedIds,    \* packet IDs callers of RingWrite() bring along
  SkipLimit,      \* the safety valve of RingReadNext(), 100 in the code
  Pace,           \* assumption: writes that may begin while a reader is in a call
  Calls,          \* the positioning functions clients call: "position" (RingPosition()),
                  \* "before" (RingPositionBefore()) or "read" (RingRead())
  CheckTimes,     \* packet times clients give with a packet ID to RingPosition()
  MaxTime,        \* bound: number of writes
  MaxCommands     \* bound: positioning commands of a client

ASSUME ReadersAssumption ==
  /\ NoStream \notin Streams
  /\ Selected \in [Readers -> SUBSET Streams]
  /\ MaxPackets \in Nat /\ MaxPackets >= 2
  /\ RINGID_MAXIMUM \in Nat \ {0}
  /\ SuppliedIds \subseteq 0 .. RINGID_MAXIMUM
  /\ SkipLimit \in Nat \ {0} /\ CheckTimes \subseteq Nat
  /\ Calls \subseteq {"position", "before", "read"}
  /\ Pace \in Nat /\ MaxTime \in Nat /\ MaxCommands \in Nat

VARIABLES
  slot,           \* the packets in the buffer
  earliestoffset, \* param.earliestoffset
  latestoffset,   \* param.latestoffset
  wpc,            \* the writer's next step
  wpkt,           \* the packet being written
  woff,           \* the slot being written
  wtodo,          \* header fields not yet copied into the slot
  last_pkttime,   \* the last stamp
  written,        \* history: every packet published
  pc,             \* each reader's next step
  op,             \* the ring function a reader is in
  reader,         \* RingReader: pktoffset, pktid, pkttime
  loc,            \* local variables of the ring functions
  off,            \* the slot being read
  ptime,          \* its sampled pkttime
  buf,            \* the copy of the packet
  rtodo,          \* fields not yet copied out of the slot
  rv,             \* the packet, the ID or the code a function returned
  from,           \* history: position when RingReadNext() was called
  commands        \* positioning commands issued

locals == <<loc, off, ptime, buf, rtodo>>
wvars == <<slot, earliestoffset, latestoffset, wpc, wpkt, woff, wtodo, last_pkttime, written>>
rvars == <<pc, op, reader, locals, rv, from, commands>>
vars  == <<wvars, rvars>>

Offsets == 0 .. MaxPackets - 1
PktIds  == 0 .. RINGID_MAXIMUM

NSTUNSET == -1

RINGID_NONE     == -1
RINGID_ERROR    == -2
RINGID_EARLIEST == -3
RINGID_LATEST   == -4
RINGID_NEXT     == -5

Relative == {RINGID_EARLIEST, RINGID_LATEST}

\* A mistake for NextOffset: the ring never wraps.
NextOffsetUnwrapped(o) == o + 1

NextOffset(o) == IF o + 1 > MaxPackets - 1 THEN 0 ELSE o + 1
PrevOffset(o) == IF o = 0 THEN MaxPackets - 1 ELSE o - 1

\* A slot never written, and the copy buffer before anything is copied.
Blank == [pkttime |-> 0, pktid |-> 0, streamid |-> NoStream, data |-> 0]

\* The local variables of a reader outside the ring functions.
NoLocals ==
  [eo |-> -1, lo |-> -1, latestid |-> 0, latesttime |-> 0, skipped |-> 0, began |-> 0,
   req |-> 0, chk |-> NSTUNSET, e |-> -1, l |-> -1, eid |-> 0, lid |-> 0,
   low |-> 0, high |-> 0, at |-> 0]

-----------------------------------------------------------------------------
(* The writer: RingWrite() from the stamp to the unlock.                   *)

Full ==
  /\ earliestoffset >= 0 /\ latestoffset >= 0
  /\ earliestoffset # latestoffset
  /\ NextOffset(latestoffset) = earliestoffset

TargetOffset == IF latestoffset >= 0 THEN NextOffset(latestoffset) ELSE 0

NextPktId ==
  IF latestoffset < 0 \/ slot[latestoffset].pktid + 1 > RINGID_MAXIMUM
    THEN 1
    ELSE slot[latestoffset].pktid + 1

\* A further write may begin: the bound on writes, and the assumed pace.
MayWrite ==
  /\ wpc = "idle"
  /\ last_pkttime < MaxTime
  /\ \A r \in Readers : pc[r] # "idle" => last_pkttime - loc[r].began < Pace

\* Under the locks: stamp, choose the slot, drop the earliest packet.
WStart(sid, reqid) ==
  /\ MayWrite
  /\ last_pkttime' = last_pkttime + 1
  /\ wpkt' = [pkttime |-> last_pkttime + 1,
              pktid |-> IF reqid = RINGID_NONE THEN NextPktId ELSE reqid,
              streamid |-> sid, data |-> last_pkttime + 1]
  /\ woff' = TargetOffset
  /\ earliestoffset' = IF Full THEN NextOffset(earliestoffset) ELSE earliestoffset
  /\ wpc' = "invalidate"
  /\ UNCHANGED <<slot, latestoffset, wtodo, written, rvars>>

\* No memory for the stream's index entry: the write ends here with -2.
WError ==
  /\ MayWrite
  /\ last_pkttime' = last_pkttime + 1
  /\ earliestoffset' = IF Full THEN NextOffset(earliestoffset) ELSE earliestoffset
  /\ UNCHANGED <<slot, latestoffset, wpc, wpkt, woff, wtodo, written, rvars>>

\* StorePktTime (slotpkt, NSTUNSET)
WInvalidate ==
  /\ wpc = "invalidate"
  /\ slot' = [slot EXCEPT ![woff].pkttime = NSTUNSET]
  /\ wpc' = "payload"
  /\ UNCHANGED <<earliestoffset, latestoffset, wpkt, woff, wtodo, last_pkttime, written, rvars>>

WPayload ==
  /\ wpc = "payload"
  /\ slot' = [slot EXCEPT ![woff].data = wpkt.data]
  /\ wpc' = "header"
  /\ wtodo' = {"pktid", "streamid"}
  /\ UNCHANGED <<earliestoffset, latestoffset, wpkt, woff, last_pkttime, written, rvars>>

WHeader(f) ==
  /\ wpc = "header" /\ f \in wtodo
  /\ slot' = [slot EXCEPT ![woff][f] = wpkt[f]]
  /\ wtodo' = wtodo \ {f}
  /\ UNCHANGED <<earliestoffset, latestoffset, wpc, wpkt, woff, last_pkttime, written, rvars>>

\* StorePktTime (slotpkt, pkttime)
WPublish ==
  /\ wpc = "header" /\ wtodo = {}
  /\ slot' = [slot EXCEPT ![woff].pkttime = wpkt.pkttime]
  /\ written' = written \cup {wpkt}
  /\ wpc' = "earliest"
  /\ UNCHANGED <<earliestoffset, latestoffset, wpkt, woff, wtodo, last_pkttime, rvars>>

\* The first packet of an empty ring is its earliest.
WEarliest ==
  /\ wpc = "earliest"
  /\ earliestoffset' = IF earliestoffset < 0 THEN woff ELSE earliestoffset
  /\ wpc' = "latest"
  /\ UNCHANGED <<slot, latestoffset, wpkt, woff, wtodo, last_pkttime, written, rvars>>

WLatest ==
  /\ wpc = "latest"
  /\ latestoffset' = woff
  /\ wpc' = "idle"
  /\ UNCHANGED <<slot, earliestoffset, wpkt, woff, wtodo, last_pkttime, written, rvars>>

Writing ==
  \/ WInvalidate \/ WPayload
  \/ \E f \in {"pktid", "streamid"} : WHeader(f)
  \/ WPublish \/ WEarliest \/ WLatest

-----------------------------------------------------------------------------
(* Steps shared by the reading functions.                                  *)

Header == {"pkttime", "pktid"}
Whole  == {"pkttime", "pktid", "streamid", "data"}

\* What a load of field f of slot o may yield: a payload or stream ID that
\* is being copied into the slot may come out garbled.
Garbled(f) == IF f = "streamid" THEN NoStream ELSE NSTUNSET
InCopy(o, f) ==
  /\ o = woff
  /\ \/ wpc = "payload" /\ f = "data"
     \/ wpc = "header" /\ f = "streamid" /\ f \in wtodo
Reads(o, f) == {slot[o][f]} \cup (IF InCopy(o, f) THEN {Garbled(f)} ELSE {})

Goto(r, label) == pc' = [pc EXCEPT ![r] = label]

\* The function returns; its local variables are gone.
Return(r, id, packet) ==
  /\ pc' = [pc EXCEPT ![r] = "idle"]
  /\ rv' = [rv EXCEPT ![r] = [id |-> id, pkt |-> packet, off |-> off[r]]]
  /\ loc' = [loc EXCEPT ![r] = NoLocals]
  /\ off' = [off EXCEPT ![r] = 0]
  /\ ptime' = [ptime EXCEPT ![r] = NSTUNSET]
  /\ buf' = [buf EXCEPT ![r] = Blank]
  /\ rtodo' = [rtodo EXCEPT ![r] = {}]

ReturnCode(r, id) == Return(r, id, Blank)

SetReader(r, o, id, time) ==
  reader' = [reader EXCEPT ![r] = [pktoffset |-> o, pktid |-> id, pkttime |-> time]]

\* memcpy() of a field of the slot into the caller's packet, payload last.
CopyField(r, f) ==
  /\ pc[r] \in {"rp_copy", "rn_copy"}
  /\ f \in rtodo[r]
  /\ f = "data" => rtodo[r] = {"data"}
  /\ \E v \in Reads(off[r], f) : buf' = [buf EXCEPT ![r][f] = v]
  /\ rtodo' = [rtodo EXCEPT ![r] = @ \ {f}]
  /\ UNCHANGED <<wvars, pc, op, reader, loc, off, ptime, rv, from, commands>>

\* A mistake for Intact: pkttime is not checked again after the copy.
IntactUnchecked(r) == TRUE

\* The sampled pkttime is still in the slot.
Intact(r) == slot[off[r]].pkttime = ptime[r]

-----------------------------------------------------------------------------
(* RingReadPacket(): sample pkttime, copy, check pkttime again.            *)

RPSample(r) ==
  /\ pc[r] = "rp_sample"
  /\ slot[off[r]].pkttime # NSTUNSET
  /\ ptime' = [ptime EXCEPT ![r] = slot[off[r]].pkttime]
  /\ buf' = [buf EXCEPT ![r] = Blank]
  /\ rtodo' = [rtodo EXCEPT ![r] = IF op[r] = "read" THEN Whole ELSE Header]
  /\ Goto(r, "rp_copy")
  /\ UNCHANGED <<wvars, op, reader, loc, off, rv, from, commands>>

\* RingReadPacket() returns RINGID_NONE: what its callers make of it.
RPNone(r) ==
  /\ \/ pc[r] = "rp_sample" /\ slot[off[r]].pkttime = NSTUNSET
     \/ pc[r] = "rp_copy" /\ rtodo[r] = {} /\ ~Intact(r)
  /\ ReturnCode(r, IF op[r] = "position" THEN RINGID_ERROR ELSE RINGID_NONE)
  /\ IF op[r] = "before"
       THEN SetReader(r, -1, loc[r].req, NSTUNSET)
       ELSE UNCHANGED reader
  /\ UNCHANGED <<wvars, op, from, commands>>

RPDone(r) == pc[r] = "rp_copy" /\ rtodo[r] = {} /\ Intact(r)

-----------------------------------------------------------------------------
(* FindOffsetForID(): search the slots for loc[r].req.                     *)

FEarliest(r) ==
  /\ pc[r] = "f_earliest"
  /\ loc' = [loc EXCEPT ![r].e = earliestoffset]
  /\ Goto(r, "f_latest")
  /\ UNCHANGED <<wvars, op, reader, off, ptime, buf, rtodo, rv, from, commands>>

\* The search goes on to sample slot o.
FSampleNext(r, o, label) ==
  /\ off' = [off EXCEPT ![r] = o]
  /\ Goto(r, label)
  /\ UNCHANGED <<wvars, op, reader, ptime, buf, rtodo, rv, from, commands>>

FLatest(r) ==
  /\ pc[r] = "f_latest"
  /\ loc[r].e >= 0 /\ latestoffset >= 0
  /\ loc' = [loc EXCEPT ![r].l = latestoffset]
  /\ FSampleNext(r, loc[r].e, "f_esample")

\* Sample the pkttime of the earliest (latest) packet, then read its ID.
FSample(r) ==
  /\ pc[r] \in {"f_esample", "f_lsample"}
  /\ ptime' = [ptime EXCEPT ![r] = slot[off[r]].pkttime]
  /\ Goto(r, IF pc[r] = "f_esample" THEN "f_eid" ELSE "f_lid")
  /\ UNCHANGED <<wvars, op, reader, loc, off, buf, rtodo, rv, from, commands>>

FId(r) ==
  /\ pc[r] \in {"f_eid", "f_lid"}
  /\ loc' = IF pc[r] = "f_eid" THEN [loc EXCEPT ![r].eid = slot[off[r]].pktid]
                               ELSE [loc EXCEPT ![r].lid = slot[off[r]].pktid]
  /\ Goto(r, IF pc[r] = "f_eid" THEN "f_echeck" ELSE "f_lcheck")
  /\ UNCHANGED <<wvars, op, reader, off, ptime, buf, rtodo, rv, from, commands>>

FCheckFails(r) ==
  /\ pc[r] \in {"f_echeck", "f_lcheck"}
  /\ ptime[r] = NSTUNSET \/ ~Intact(r)

FCheckEarliest(r) ==
  /\ pc[r] = "f_echeck" /\ ~FCheckFails(r)
  /\ FSampleNext(r, loc[r].l, "f_lsample")
  /\ UNCHANGED loc

\* IDs that grow from earliest to latest are searched by bisection.
Ascending(r) == loc[r].eid <= loc[r].lid
OutOfRange(r) ==
  /\ pc[r] = "f_lcheck" /\ Ascending(r)
  /\ loc[r].req < loc[r].eid \/ loc[r].req > loc[r].lid

FCheckLatest(r) ==
  /\ pc[r] = "f_lcheck" /\ ~FCheckFails(r) /\ ~OutOfRange(r)
  /\ loc' = [loc EXCEPT
       ![r].low = 0,
       ![r].high = IF loc[r].l < loc[r].e THEN loc[r].l + MaxPackets - loc[r].e
                                          ELSE loc[r].l - loc[r].e,
       ![r].at = loc[r].l]
  /\ Goto(r, IF Ascending(r) THEN "f_bisect" ELSE "f_scan")
  /\ UNCHANGED <<wvars, op, reader, off, ptime, buf, rtodo, rv, from, commands>>

\* The slot to look at next.
Middle(r) == loc[r].low + (loc[r].high - loc[r].low) \div 2
Probe(r) ==
  IF pc[r] = "f_scan" THEN loc[r].at
  ELSE IF loc[r].e + Middle(r) >= MaxPackets THEN loc[r].e + Middle(r) - MaxPackets
  ELSE loc[r].e + Middle(r)

Exhausted(r) == pc[r] = "f_bisect" /\ loc[r].low > loc[r].high

Hit(r) ==
  /\ pc[r] \in {"f_bisect", "f_scan"} /\ ~Exhausted(r)
  /\ slot[Probe(r)].pktid = loc[r].req

\* The backward scan has looked at its last slot, in vain.
ScannedAll(r) == pc[r] = "f_scan" /\ ~Hit(r) /\ loc[r].at = loc[r].e

FMiss(r) ==
  /\ pc[r] \in {"f_bisect", "f_scan"}
  /\ ~Exhausted(r) /\ ~Hit(r) /\ ~ScannedAll(r)
  /\ loc' = [loc EXCEPT ![r] =
       IF pc[r] = "f_scan" THEN [@ EXCEPT !.at = PrevOffset(loc[r].at)]
       ELSE IF slot[Probe(r)].pktid < loc[r].req THEN [@ EXCEPT !.low = Middle(r) + 1]
       ELSE [@ EXCEPT !.high = Middle(r) - 1]]
  /\ UNCHANGED <<wvars, pc, op, reader, off, ptime, buf, rtodo, rv, from, commands>>

FindFails(r) ==
  \/ pc[r] = "f_latest" /\ (loc[r].e < 0 \/ latestoffset < 0)
  \/ FCheckFails(r)
  \/ OutOfRange(r) /\ ~FCheckFails(r)
  \/ Exhausted(r)
  \/ ScannedAll(r)

-----------------------------------------------------------------------------
(* RingReadNext()                                                          *)

CallReadNext(r) ==
  /\ pc[r] = "idle"
  /\ op' = [op EXCEPT ![r] = "next"]
  /\ loc' = [loc EXCEPT ![r].eo = earliestoffset, ![r].began = last_pkttime]
  /\ from' = [from EXCEPT ![r] = reader[r]]
  /\ Goto(r, "rn_latest")
  /\ UNCHANGED <<wvars, reader, off, ptime, buf, rtodo, rv, commands>>

Unpositioned(r) == reader[r].pktoffset < 0

\* The ring is empty: a reader waiting for new data starts with the first.
RNEmpty(r) ==
  /\ pc[r] = "rn_latest" /\ latestoffset < 0
  /\ IF Unpositioned(r) /\ reader[r].pktid \in {RINGID_NEXT, RINGID_NONE}
       THEN reader' = [reader EXCEPT ![r].pktid = RINGID_EARLIEST]
       ELSE UNCHANGED reader
  /\ ReturnCode(r, RINGID_NONE)
  /\ UNCHANGED <<wvars, op, from, commands>>

\* A mistake for AtEnd: the end of the buffer is not looked for.
AtEndNever(r) == FALSE

\* The slot after the reader's position is the one after the latest packet.
AtEnd(r) == ~Unpositioned(r) /\ NextOffset(reader[r].pktoffset) = NextOffset(latestoffset)

RNCaughtUp(r) ==
  /\ pc[r] = "rn_latest" /\ latestoffset >= 0 /\ AtEnd(r)
  /\ ReturnCode(r, RINGID_NONE)
  /\ UNCHANGED <<wvars, op, reader, from, commands>>

\* Read the latest packet to bound the search.
RNLatest(r) ==
  /\ pc[r] = "rn_latest" /\ latestoffset >= 0 /\ ~AtEnd(r)
  /\ loc' = [loc EXCEPT ![r].lo = latestoffset]
  /\ off' = [off EXCEPT ![r] = latestoffset]
  /\ Goto(r, "rp_sample")
  /\ UNCHANGED <<wvars, op, reader, ptime, buf, rtodo, rv, from, commands>>

\* The reader waits at the latest packet.
WaitAtLatest(r, id, time) ==
  /\ SetReader(r, loc[r].lo, id, time)
  /\ ReturnCode(r, RINGID_NONE)

\* Where the search begins once the latest packet is known.
RNBegin(r) ==
  /\ RPDone(r) /\ op[r] = "next"
  /\ LET id == reader[r].pktid
         Begin(o) == /\ off' = [off EXCEPT ![r] = o]
                     /\ loc' = [loc EXCEPT ![r].latestid = buf[r].pktid,
                                           ![r].latesttime = buf[r].pkttime]
                     /\ Goto(r, "rn_sample")
                     /\ UNCHANGED <<reader, rv, ptime, buf, rtodo>>
     IN  \/ ~Unpositioned(r) /\ Begin(NextOffset(reader[r].pktoffset))
         \/ /\ Unpositioned(r) /\ id \in {RINGID_NEXT, RINGID_NONE}
            /\ WaitAtLatest(r, buf[r].pktid, buf[r].pkttime)
         \/ Unpositioned(r) /\ id = RINGID_LATEST /\ Begin(loc[r].lo)
         \/ Unpositioned(r) /\ id = RINGID_EARLIEST /\ Begin(loc[r].eo)
         \/ /\ Unpositioned(r) /\ id \in PktIds
            /\ loc' = [loc EXCEPT ![r].latestid = buf[r].pktid,
                                  ![r].latesttime = buf[r].pkttime, ![r].req = id]
            /\ Goto(r, "f_earliest")
            /\ UNCHANGED <<reader, rv, off, ptime, buf, rtodo>>
  /\ UNCHANGED <<wvars, op, from, commands>>

\* A mistake for FoundAt: reading starts after the requested packet.
FoundAfter(r) == NextOffset(Probe(r))

FoundAt(r) == Probe(r)

\* The packet ID is found: RingReadNext() delivers from there, RingPosition()
\* loads the packet's time, RingRead() reads the packet.
Found(r) ==
  /\ Hit(r) /\ op[r] # "before"
  /\ off' = [off EXCEPT ![r] = FoundAt(r)]
  /\ Goto(r, IF op[r] = "next" THEN "rn_sample"
             ELSE IF op[r] = "position" THEN "ps_time"
             ELSE "rp_sample")
  /\ UNCHANGED <<wvars, op, reader, loc, ptime, buf, rtodo, rv, from, commands>>

\* The packet the reader was positioned before is yet to come, or has left
\* the ring.
RNNotFound(r) ==
  /\ FindFails(r) /\ op[r] = "next"
  /\ IF loc[r].req > loc[r].latestid
       THEN WaitAtLatest(r, loc[r].latestid, loc[r].latesttime)
       ELSE /\ off' = [off EXCEPT ![r] = loc[r].eo]
            /\ Goto(r, "rn_sample")
            /\ UNCHANGED <<reader, rv, loc, ptime, buf, rtodo>>
  /\ UNCHANGED <<wvars, op, from, commands>>

\* A mistake for Lapped: the latest packet itself counts as newer.
LappedAtLatest(r) == slot[off[r]].pkttime = NSTUNSET \/ slot[off[r]].pkttime >= loc[r].latesttime

\* Sample the slot: mid-write or newer than the latest packet known is taken
\* as being lapped.
Lapped(r) == slot[off[r]].pkttime = NSTUNSET \/ slot[off[r]].pkttime > loc[r].latesttime

RNSample(r) ==
  /\ pc[r] = "rn_sample" /\ off[r] >= 0 /\ ~Lapped(r)
  /\ ptime' = [ptime EXCEPT ![r] = slot[off[r]].pkttime]
  /\ loc' = [loc EXCEPT ![r].skipped = 0]
  /\ Goto(r, "rn_position")
  /\ UNCHANGED <<wvars, op, reader, off, buf, rtodo, rv, from, commands>>

RNLapped(r) ==
  /\ pc[r] = "rn_sample" /\ off[r] >= 0 /\ Lapped(r)
  /\ Goto(r, "rn_reposition")
  /\ UNCHANGED <<wvars, op, reader, loc, off, ptime, buf, rtodo, rv, from, commands>>

RNReposition(r) ==
  /\ pc[r] = "rn_reposition"
  /\ IF loc[r].skipped + 1 >= SkipLimit
       THEN ReturnCode(r, RINGID_NONE)
       ELSE /\ off' = [off EXCEPT ![r] = earliestoffset]
            /\ loc' = [loc EXCEPT ![r].skipped = @ + 1]
            /\ Goto(r, "rn_sample")
            /\ UNCHANGED <<rv, ptime, buf, rtodo>>
  /\ UNCHANGED <<wvars, op, reader, from, commands>>

\* earliestoffset was loaded as -1 and latestoffset was not: the "slot" is
\* memory before the first one.  Its bytes are read as a packet time that is
\* taken as newer than the latest, or as a packet that is handed out.
RNWild(r) ==
  /\ pc[r] = "rn_sample" /\ off[r] < 0
  /\ \/ Goto(r, "rn_reposition") /\ UNCHANGED <<reader, rv, locals>>
     \/ /\ SetReader(r, -1, RINGID_MAXIMUM, 0)
        /\ Return(r, RINGID_MAXIMUM, [Blank EXCEPT !.pktid = RINGID_MAXIMUM])
  /\ UNCHANGED <<wvars, op, from, commands>>

RNPosition(r) ==
  /\ pc[r] = "rn_position"
  /\ SetReader(r, off[r], slot[off[r]].pktid, ptime[r])
  /\ Goto(r, "rn_filter")
  /\ UNCHANGED <<wvars, op, loc, off, ptime, buf, rtodo, rv, from, commands>>

\* A garbled stream ID may match the reader's expressions or not.
RNMatch(r) ==
  /\ pc[r] = "rn_filter"
  /\ \E sid \in Reads(off[r], "streamid") : sid \in Selected[r] \cup {NoStream}
  /\ buf' = [buf EXCEPT ![r] = Blank]
  /\ rtodo' = [rtodo EXCEPT ![r] = Whole]
  /\ Goto(r, "rn_copy")
  /\ UNCHANGED <<wvars, op, reader, loc, off, ptime, rv, from, commands>>

RNSkip(r) ==
  /\ pc[r] = "rn_filter"
  /\ \E sid \in Reads(off[r], "streamid") : sid \notin Selected[r]
  /\ IF NextOffset(off[r]) = NextOffset(loc[r].lo)
       THEN ReturnCode(r, RINGID_NONE)
       ELSE /\ off' = [off EXCEPT ![r] = NextOffset(@)]
            /\ Goto(r, "rn_sample")
            /\ UNCHANGED <<rv, loc, ptime, buf, rtodo>>
  /\ UNCHANGED <<wvars, op, reader, from, commands>>

RNReturn(r) ==
  /\ pc[r] = "rn_copy" /\ rtodo[r] = {}
  /\ IF Intact(r) THEN Return(r, buf[r].pktid, buf[r])
                  ELSE ReturnCode(r, RINGID_NONE)
  /\ UNCHANGED <<wvars, op, reader, from, commands>>

-----------------------------------------------------------------------------
(* RingPosition(), RingPositionBefore() and RingRead().  A ring that is    *)
(* not empty never becomes empty again, so the test for an empty ring and  *)
(* the load of the relative position that follows it are one step.         *)

RelativeOffset(id) == IF id = RINGID_EARLIEST THEN earliestoffset ELSE latestoffset

\* Resolve a packet ID or a relative position to a packet.
Resolve(r, id, time) ==
  /\ loc' = [loc EXCEPT ![r].req = id, ![r].chk = time, ![r].began = last_pkttime]
  /\ IF id \in Relative
       THEN Goto(r, "rp_sample") /\ off' = [off EXCEPT ![r] = RelativeOffset(id)]
       ELSE Goto(r, "f_earliest") /\ UNCHANGED off
  /\ UNCHANGED <<ptime, buf, rtodo, rv>>

Command(r, name) ==
  /\ pc[r] = "idle" /\ name \in Calls
  /\ commands[r] < MaxCommands
  /\ commands' = [commands EXCEPT ![r] = @ + 1]
  /\ op' = [op EXCEPT ![r] = name]

CallPosition(r, id, time) ==
  /\ Command(r, "position")
  /\ IF latestoffset < 0
       THEN ReturnCode(r, RINGID_NONE)
       ELSE Resolve(r, id, time)
  /\ UNCHANGED <<wvars, reader, from>>

CallPositionBefore(r, id) ==
  /\ Command(r, "before")
  /\ IF latestoffset < 0
       THEN SetReader(r, -1, id, NSTUNSET) /\ ReturnCode(r, RINGID_NONE)
       ELSE Resolve(r, id, NSTUNSET) /\ UNCHANGED reader
  /\ UNCHANGED <<wvars, from>>

CallRead(r, id) ==
  /\ Command(r, "read")
  /\ Resolve(r, id, NSTUNSET)
  /\ UNCHANGED <<wvars, reader, from>>

\* The relative position is resolved: look its packet ID up.
PSResolved(r) ==
  /\ RPDone(r) /\ op[r] = "position"
  /\ loc' = [loc EXCEPT ![r].req = buf[r].pktid]
  /\ Goto(r, "f_earliest")
  /\ UNCHANGED <<wvars, op, reader, off, ptime, buf, rtodo, rv, from, commands>>

PSTime(r) ==
  /\ pc[r] = "ps_time"
  /\ ptime' = [ptime EXCEPT ![r] = slot[off[r]].pkttime]
  /\ Goto(r, "ps_check")
  /\ UNCHANGED <<wvars, op, reader, loc, off, buf, rtodo, rv, from, commands>>

PSCheck(r) ==
  /\ pc[r] = "ps_check"
  /\ IF /\ loc[r].chk \in {NSTUNSET, ptime[r]}
        /\ slot[off[r]].pktid = loc[r].req
       THEN SetReader(r, off[r], loc[r].req, ptime[r]) /\ ReturnCode(r, loc[r].req)
       ELSE ReturnCode(r, RINGID_NONE) /\ UNCHANGED reader
  /\ UNCHANGED <<wvars, op, from, commands>>

\* RingPositionBefore() leaves the position relative, whatever it resolved.
PBDone(r) ==
  /\ op[r] = "before"
  /\ \/ RPDone(r) /\ ReturnCode(r, buf[r].pktid)
     \/ Hit(r) /\ ReturnCode(r, loc[r].req)
     \/ FindFails(r) /\ ReturnCode(r, RINGID_NONE)
  /\ SetReader(r, -1, loc[r].req, NSTUNSET)
  /\ UNCHANGED <<wvars, op, from, commands>>

RDReturn(r) ==
  /\ RPDone(r) /\ op[r] = "read"
  /\ IF buf[r].pktid = loc[r].req
       THEN /\ SetReader(r, off[r], buf[r].pktid, buf[r].pkttime)
            /\ Return(r, loc[r].req, buf[r])
       ELSE ReturnCode(r, RINGID_NONE) /\ UNCHANGED reader
  /\ UNCHANGED <<wvars, op, from, commands>>

\* RingPosition() and RingRead() of a packet ID that is not found.
NotFound(r) ==
  /\ FindFails(r) /\ op[r] \in {"position", "read"}
  /\ ReturnCode(r, RINGID_NONE)
  /\ UNCHANGED <<wvars, op, reader, from, commands>>

-----------------------------------------------------------------------------

\* A client's reader starts unpositioned, waiting for the next packet.
Init ==
  /\ slot = [o \in Offsets |-> Blank]
  /\ earliestoffset = -1 /\ latestoffset = -1
  /\ wpc = "idle" /\ wpkt = Blank /\ woff = 0 /\ wtodo = {}
  /\ last_pkttime = 0 /\ written = {}
  /\ pc = [r \in Readers |-> "idle"]
  /\ op = [r \in Readers |-> "none"]
  /\ reader = [r \in Readers |->
                 [pktoffset |-> -1, pktid |-> RINGID_NONE, pkttime |-> NSTUNSET]]
  /\ loc = [r \in Readers |-> NoLocals]
  /\ off = [r \in Readers |-> 0]
  /\ ptime = [r \in Readers |-> NSTUNSET]
  /\ buf = [r \in Readers |-> Blank]
  /\ rtodo = [r \in Readers |-> {}]
  /\ rv = [r \in Readers |-> [id |-> RINGID_NONE, pkt |-> Blank, off |-> 0]]
  /\ from = reader
  /\ commands = [r \in Readers |-> 0]

\* A step inside a ring function.
ReadStep(r) ==
  \/ \E f \in Whole : CopyField(r, f)
  \/ RPSample(r) \/ RPNone(r)
  \/ FEarliest(r) \/ FLatest(r) \/ FSample(r) \/ FId(r)
  \/ FCheckEarliest(r) \/ FCheckLatest(r) \/ FMiss(r)
  \/ RNEmpty(r) \/ RNCaughtUp(r) \/ RNLatest(r) \/ RNBegin(r) \/ Found(r)
  \/ RNNotFound(r) \/ RNSample(r) \/ RNLapped(r) \/ RNReposition(r) \/ RNWild(r)
  \/ RNPosition(r) \/ RNMatch(r) \/ RNSkip(r) \/ RNReturn(r)
  \/ PSResolved(r) \/ PSTime(r) \/ PSCheck(r)
  \/ PBDone(r) \/ RDReturn(r) \/ NotFound(r)

ClientCommand(r) ==
  \/ \E id \in PktIds \cup Relative :
       CallPosition(r, id, NSTUNSET) \/ CallPositionBefore(r, id)
  \/ \E id \in PktIds, time \in CheckTimes : CallPosition(r, id, time)
  \/ \E id \in PktIds : CallRead(r, id)

Write ==
  \/ \E sid \in Streams, reqid \in SuppliedIds \cup {RINGID_NONE} : WStart(sid, reqid)
  \/ WError

Next ==
  \/ Write
  \/ Writing
  \/ \E r \in Readers : ReadStep(r) \/ CallReadNext(r) \/ ClientCommand(r)

Spec == Init /\ [][Next]_vars

(* A write under way completes, a client thread keeps calling the ring and *)
(* its calls make progress: DLStreamPackets()/SLStreamPackets() are called *)
(* in a loop for as long as the client is connected.  Nothing makes anyone *)
(* write or send a command.                                                *)
FairSpec ==
  /\ Spec
  /\ WF_vars(Writing)
  /\ \A r \in Readers : WF_vars(ReadStep(r)) /\ WF_vars(CallReadNext(r))

-----------------------------------------------------------------------------
PacketType ==
  [pkttime : Nat \cup {NSTUNSET}, pktid : PktIds \cup {NSTUNSET},
   streamid : Streams \cup {NoStream}, data : Nat \cup {NSTUNSET}]

TypeOK ==
  /\ slot \in [Offsets -> PacketType]
  /\ earliestoffset \in Offsets \cup {-1} /\ latestoffset \in Offsets \cup {-1}
  /\ wpc \in {"idle", "invalidate", "payload", "header", "earliest", "latest"}
  /\ wpkt \in PacketType /\ woff \in Offsets /\ wtodo \subseteq {"pktid", "streamid"}
  /\ last_pkttime \in Nat
  /\ written \subseteq PacketType
  /\ reader \in [Readers -> [pktoffset : Offsets \cup {-1},
                             pktid : PktIds \cup (RINGID_NEXT .. -1),
                             pkttime : Nat \cup {NSTUNSET}]]
  /\ off \in [Readers -> Offsets \cup {-1}]
  /\ ptime \in [Readers -> Nat \cup {NSTUNSET}]
  /\ buf \in [Readers -> PacketType]
  /\ rtodo \in [Readers -> SUBSET Whole]

\* Reader r has returned from RingReadNext(); the call gave it a packet.
Returned(r)  == pc[r] = "idle" /\ op[r] = "next"
Delivered(r) == op[r] \in {"next", "read"} /\ rv[r].id \in PktIds

\* The packets written after time t, and the ones that left the ring.
After(t) == {q \in written : q.pkttime > t}
FromTime(r) == IF from[r].pktoffset >= 0 THEN from[r].pkttime ELSE NSTUNSET
Evicted(q) == earliestoffset < 0 \/ q.pkttime < slot[earliestoffset].pkttime

(* A packet handed to a client by RingReadNext() or RingRead() is one that *)
(* was written, whole: never a mixture of two packets that shared a slot;  *)
(* and RingReadNext() hands out only streams the reader selects.  (Bytes   *)
(* read from outside the slots, offset -1, are ReadsOnlySlots' matter.)    *)
DeliveredIntact ==
  \A r \in Readers :
    pc[r] = "idle" /\ rv[r].off \in Offsets /\ rv[r].pkt # Blank =>
      /\ rv[r].pkt \in written
      /\ op[r] = "next" => rv[r].pkt.streamid \in Selected[r]

(* No reader gets ahead of the writer in a ring that is filling up: a slot *)
(* nothing was ever written to (all zeroes, and not marked as unset) is    *)
(* never handed out as a packet.                                           *)
NoUnwrittenSlot ==
  \A r \in Readers :
    pc[r] = "idle" /\ Delivered(r) /\ rv[r].off \in Offsets => rv[r].pkt # Blank

(* Successive RingReadNext() calls never hand out a packet again or go     *)
(* back in time, however often the reader was lapped.                      *)
DeliveryMovesForward ==
  \A r \in Readers : Returned(r) /\ Delivered(r) => rv[r].pkt.pkttime > FromTime(r)

(* A reader that keeps up misses nothing: as long as no packet after its   *)
(* position has been evicted, RingReadNext() passes over no selected       *)
(* packet on the way to its new position.                                  *)
NoGapUnlessEvicted ==
  \A r \in Readers :
    /\ Returned(r) /\ FromTime(r) # NSTUNSET
    /\ \A q \in After(FromTime(r)) : ~Evicted(q)
    => {q \in After(FromTime(r)) : q.pkttime <= reader[r].pkttime /\ q.streamid \in Selected[r]}
         = IF Delivered(r) THEN {rv[r].pkt} ELSE {}

\* RingReadNext() returned a packet to reader r, positioned before packet q,
\* and q is still in the ring.
ReadFromBefore(r, q) ==
  /\ Returned(r) /\ Delivered(r) /\ rv[r].off \in Offsets
  /\ from[r].pktoffset < 0 /\ q.pktid = from[r].pktid /\ ~Evicted(q)

\* RingReadNext() passed over no selected packet from q on.
SkippedNone(r, q) ==
  \A p \in After(q.pkttime - 1) :
    p.pkttime < rv[r].pkt.pkttime => p.streamid \notin Selected[r]

(* A client that resumes at a packet ID loses nothing: RingReadNext()      *)
(* after RingPositionBefore() passes over no selected packet from the      *)
(* requested one on, as long as that one is in the ring, and at most one   *)
(* write began during the call.  After two the search can fail for a       *)
(* packet that is there, and reading fall back on a slot that was the      *)
(* earliest and is now the newest (ring.c, RingReadNext()).                *)
BeforeSkipsNothing ==
  [][\A r \in Readers, q \in written :
       pc[r] # "idle" /\ last_pkttime - loc[r].began <= 1 /\ ReadFromBefore(r, q)' =>
         SkippedNone(r, q)']_vars

(* RingReadNext() after RingPositionBefore() "will return that packet, or  *)
(* the first following match": never an earlier packet, and none passed    *)
(* over on the way (ring.c, comment of RingPositionBefore()).              *)
BeforeStartsThere ==
  \A r \in Readers, q \in written :
    ReadFromBefore(r, q) => rv[r].pkt.pkttime >= q.pkttime /\ SkippedNone(r, q)

(* Once writes stop, a reader that keeps calling RingReadNext() arrives at *)
(* the latest packet: it is never caught in the reposition loop for good.  *)
ReaderSettles ==
  <>[](\A r \in Readers : latestoffset < 0 \/ reader[r].pktoffset = latestoffset)

(* A lapped reader is repositioned at the earliest packet: no selected     *)
(* packet that is still in the ring is passed over (ring.c, comment of     *)
(* RingReadNext()).                                                        *)
LappedResumesAtEarliest ==
  \A r \in Readers : Returned(r) /\ FromTime(r) # NSTUNSET /\ Delivered(r) =>
    \A q \in After(FromTime(r)) :
      q.pkttime < rv[r].pkt.pkttime /\ q.streamid \in Selected[r] => Evicted(q)

(* RingReadNext() looks only at slots of the ring: a reader positioned at  *)
(* the "eventual earliest" packet finds it once there is one.              *)
ReadsOnlySlots == \A r \in Readers : pc[r] = "rn_sample" => off[r] \in Offsets

=============================================================================
