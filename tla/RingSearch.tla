----------------------------- MODULE RingSearch -----------------------------
(***************************************************************************)
(* One reader of the packet ring and the searches by data time, RingAfter() *)
(* and RingAfterRev(), which look at one packet after the other while      *)
(* packets are written.  The calls that module RingReaders takes apart     *)
(* load by load (RingReadNext(), RingRead(), RingPosition() and            *)
(* RingPositionBefore()) are single steps here: what is studied is where   *)
(* they leave the reader, for the protocols built on them.  A write is one *)
(* step, as in module Ring; packets are numbered by it without gaps, so    *)
(* that the data times of a packet are a function of its ID.               *)
(***************************************************************************)
EXTENDS Ring

CONSTANTS
  DataTimes,  \* data times of the packets: functions from ID to [start, end]
  PktLimits   \* values of (uint64_t)(timewinlimit * maxpackets)

\* IDs have 64 bits and do not wrap within a behaviour.
ASSUME SearchAssumption ==
  /\ 0 \in Instants /\ MaxTime < RINGID_MAXIMUM
  /\ \A d \in DataTimes, i \in 1 .. MaxTime : d[i].start <= d[i].end
  /\ PktLimits \subseteq 0 .. MaxPackets

VARIABLES
  datatime, \* the data times that the packets of this behaviour carry
  pktlimit, \* config.timewinlimit, in packets: MaxPackets is the value 1.0
  reader,   \* RingReader: pktoffset, pktid, pkttime
  sel,      \* its expressions: the streams allowed, forbidden, matched, rejected
  search    \* the locals of RingAfter() and RingAfterRev(); the stamps of the
            \* latest and the earliest packet when they began

ringvars == vars
rsvars == <<datatime, pktlimit, reader, sel, search>>

NSTUNSET == -1

RINGID_EARLIEST == -3
RINGID_LATEST   == -4
RINGID_NEXT     == -5

NewReader == [pktoffset |-> -1, pktid |-> RINGID_NONE, pkttime |-> NSTUNSET]

\* An expression that is not set allows and matches every stream, and
\* forbids and rejects none.
NoSelection == [allowed |-> Streams, forbidden |-> {}, match |-> Streams, reject |-> {}]

\* A mistake for Allowed: the forbidden expression is not tested.
AllowedOnly(s) == s \in sel.allowed

\* RingStreamAllowed()
Allowed(s) == s \in sel.allowed /\ s \notin sel.forbidden

\* The tests every reading and searching routine applies to a stream ID.
SelectedStream(s) == Allowed(s) /\ s \in sel.match /\ s \notin sel.reject

NoSearch ==
  [pc |-> "idle", ref |-> 0, whence |-> 0, at |-> -1, count |-> 0, found |-> -1,
   pktid |-> RINGID_NONE, pkttime |-> NSTUNSET, began |-> 0, oldest |-> 0]

SearchInit ==
  /\ Init
  /\ datatime \in DataTimes
  /\ pktlimit \in PktLimits
  /\ reader = NewReader
  /\ sel = NoSelection
  /\ search = NoSearch

DataStart(o) == datatime[slot[o].pktid].start
DataEnd(o)   == datatime[slot[o].pktid].end

PrevOffset(o) == IF o = 0 THEN MaxPackets - 1 ELSE o - 1

-----------------------------------------------------------------------------
(* Reading and positioning by packet ID.                                   *)

\* FindOffsetForID()
InRing(id) == \E o \in Live : slot[o].pktid = id
OffsetForID(id) == CHOOSE o \in Live : slot[o].pktid = id

\* The reader at the packet in slot o.
At(o) == [pktoffset |-> o, pktid |-> slot[o].pktid, pkttime |-> slot[o].pkttime]

\* The reader just before the packet with this ID.
Before(id) == [pktoffset |-> -1, pktid |-> id, pkttime |-> NSTUNSET]

\* The reader waits for packets newer than the latest one.
Waits(r) ==
  IF r.pktoffset >= 0
    THEN NextOffset(r.pktoffset) = NextOffset(latestoffset)
    ELSE \/ r.pktid \in {RINGID_NEXT, RINGID_NONE}
         \/ r.pktid \in PktIds /\ ~InRing(r.pktid) /\ r.pktid > slot[latestoffset].pktid

\* The slot RingReadNext() begins with for reader r, when it does not wait.
StartOffset(r) ==
  IF r.pktoffset >= 0 THEN NextOffset(r.pktoffset)
  ELSE IF r.pktid = RINGID_LATEST THEN latestoffset
  ELSE IF r.pktid \in PktIds /\ InRing(r.pktid) THEN OffsetForID(r.pktid)
  ELSE earliestoffset

\* The slots RingReadNext() looks at for reader r, up to the latest packet.
Ahead(r) ==
  IF latestoffset < 0 \/ Waits(r) THEN {} ELSE Between(StartOffset(r), latestoffset)

\* The first packet ahead that is selected, in ring order.
Deliverable == {o \in Ahead(reader) : SelectedStream(slot[o].streamid)}
NextPacket ==
  CHOOSE o \in Deliverable :
    \A p \in Deliverable : RankFrom(StartOffset(reader), o) <= RankFrom(StartOffset(reader), p)

\* RingReadNext() with a packet to return, in slot o.
ReadNext(o) == Deliverable # {} /\ o = NextPacket /\ reader' = At(o)

\* RingReadNext() returning RINGID_NONE: the reader has looked at every
\* packet there is, or waits for the first one.
ReadNone ==
  /\ Deliverable = {}
  /\ reader' =
       IF latestoffset >= 0
         THEN IF reader.pktoffset >= 0 /\ Waits(reader) THEN reader ELSE At(latestoffset)
         ELSE IF reader.pktoffset < 0 /\ reader.pktid \in {RINGID_NEXT, RINGID_NONE}
           THEN [reader EXCEPT !.pktid = RINGID_EARLIEST]
           ELSE reader

-----------------------------------------------------------------------------
(* RingAfter(), used when timewinlimit is 1.0, and RingAfterRev().         *)

Forward == pktlimit = MaxPackets

\* A mistake for TimeMatches: packets that begin after the time are sought.
TimeMatchesStart(o) == SelectedStream(slot[o].streamid) /\ DataStart(o) > search.ref

TimeMatches(o) == SelectedStream(slot[o].streamid) /\ DataEnd(o) > search.ref

\* The call: where the search begins, in a ring that is not empty.
BeginSearch(ref, whence) ==
  [NoSearch EXCEPT !.pc = "scan", !.ref = ref, !.whence = whence, !.began = last_pkttime,
                   !.oldest = slot[earliestoffset].pkttime,
                   !.at = IF Forward THEN earliestoffset ELSE latestoffset]

\* The packet looked at is the last one of the search.
LastForward == search.at = latestoffset \/ search.count + 1 = MaxPackets

\* A mistake for LastReverse: the limit is not looked at.
LastReverseUnlimited ==
  \/ SelectedStream(slot[search.at].streamid) /\ DataStart(search.at) < search.ref
  \/ search.at = earliestoffset

LastReverse ==
  \/ SelectedStream(slot[search.at].streamid) /\ DataStart(search.at) < search.ref
  \/ search.at = earliestoffset
  \/ search.count + 1 = pktlimit

Onward(s) ==
  [s EXCEPT !.at = IF Forward THEN NextOffset(@) ELSE PrevOffset(@), !.count = @ + 1,
            !.pc = "scan"]

Examines == search.pc = "scan" /\ (~Forward => pktlimit > 0)

\* A packet that is not selected, or whose data end before the time.
SearchSkip ==
  /\ Examines /\ ~TimeMatches(search.at)
  /\ \/ Forward /\ ~LastForward /\ search' = Onward(search)
     \/ ~Forward /\ ~LastReverse /\ search' = Onward(search)
     \/ ~Forward /\ LastReverse /\ search.found >= 0 /\ search' = [search EXCEPT !.pc = "check"]

\* The data end time matches; the slot is sampled in a step of its own.
SearchMatch ==
  /\ Examines /\ TimeMatches(search.at)
  /\ search' = [search EXCEPT !.pc = "sample"]

SearchSample ==
  /\ search.pc = "sample"
  /\ LET sampled == [search EXCEPT !.found = search.at, !.pktid = slot[search.at].pktid,
                                   !.pkttime = slot[search.at].pkttime]
     IN  search' = IF Forward \/ LastReverse THEN [sampled EXCEPT !.pc = "check"]
                                             ELSE Onward(sampled)

SearchStep ==
  /\ SearchSkip \/ SearchMatch \/ SearchSample
  /\ UNCHANGED <<ringvars, datatime, pktlimit, reader, sel>>

\* The search returns RINGID_NONE: nothing matched, or the slot found was
\* overwritten.
SearchFails ==
  \/ search.pc = "scan" /\ ~Forward /\ pktlimit = 0
  \/ Examines /\ ~TimeMatches(search.at) /\ Forward /\ LastForward
  \/ Examines /\ ~TimeMatches(search.at) /\ ~Forward /\ LastReverse /\ search.found < 0
  \/ search.pc = "check" /\ slot[search.found].pkttime # search.pkttime

\* The search returns the packet ID and sets the reader.
SearchSucceeds == search.pc = "check" /\ slot[search.found].pkttime = search.pkttime

FoundPosition ==
  IF search.whence = 0 THEN Before(search.pktid)
  ELSE [pktoffset |-> search.found, pktid |-> search.pktid, pkttime |-> search.pkttime]

-----------------------------------------------------------------------------
\* The stamp of the packet that was, when the search began, in the slot it is
\* at; and that packet has left the ring, so that the search looks at others.
Place == IF Forward THEN search.oldest + search.count ELSE search.began - search.count
Overtaken == slot[earliestoffset].pkttime > Place

\* Packet o is reached by RingAfterRev() before it stops: it is within
\* pktlimit of the latest packet of then, and no selected packet in between
\* begins before the time.
WithinReverse(o) ==
  /\ search.began - slot[o].pkttime < pktlimit
  /\ ~\E w \in Live : /\ SelectedStream(slot[w].streamid) /\ DataStart(w) < search.ref
                      /\ slot[o].pkttime < slot[w].pkttime
                      /\ slot[w].pkttime <= search.began

\* A packet that was in the ring when the search began, still is, and is one
\* that the client asks for.
Eligible(o) ==
  /\ SelectedStream(slot[o].streamid) /\ DataEnd(o) > search.ref
  /\ slot[o].pkttime <= search.began
  /\ Forward \/ WithinReverse(o)

(* Positioning by time passes over no data that were there: as long as the *)
(* writer has not overtaken the search, it ends at a packet no eligible    *)
(* one precedes, and it fails only when there is none, whatever is written *)
(* and overwritten meanwhile (ring.c, RingAfter() and RingAfterRev()).     *)
(* Overtaken, it looks at packets newer than those it is to look at: it    *)
(* can end at the newest, or fail.                                         *)
AfterSkipsNothing ==
  search.pc # "idle" /\ ~Overtaken =>
    /\ SearchSucceeds => \A o \in Live : Eligible(o) => slot[o].pkttime >= search.pkttime
    /\ SearchFails => ~\E o \in Live : Eligible(o)

=============================================================================
