--------------------------- MODULE SessionsProofs ---------------------------
(***************************************************************************)
(* The sessions of a client, for any ring, streams, clients, requests,     *)
(* archive keys and limits: what is sent is permitted, the archive's files *)
(* and what is served agree, searches by time pass over nothing, time      *)
(* windows end when they should and a client that returns continues where  *)
(* it left.                                                                *)
(***************************************************************************)
EXTENDS Sessions, RingProofs, SequenceTheorems, WellFoundedInduction

-----------------------------------------------------------------------------
(* The parts of the inductive invariant.                                   *)

\* A packet's ID is its stamp, and stamps follow each other without a gap.
Numbered ==
  /\ latestoffset < 0 => last_pkttime = 0
  /\ \A o \in Live : /\ slot[o].pktid = slot[o].pkttime
                     /\ slot[o].pkttime + RankFrom(o, latestoffset) = last_pkttime

\* The ring is sound; it is numbered as long as no write failed, which ends
\* the server.
RingSound ==
  /\ IInv
  /\ ~shutdownsig => Numbered
  /\ shutdownsig => client.protocol = "writer" /\ state = "closed"

\* The client, what was configured for it, and its reader.
ClientTypes ==
  /\ client \in Clients /\ pktlimit = client.limit /\ datatime = client.data
  /\ reader \in [pktoffset : Offsets \cup {-1},
                 pktid : PktIds \cup {RINGID_NONE, RINGID_NEXT, RINGID_EARLIEST},
                 pkttime : 0 .. MaxTime \cup {NSTUNSET}]
  /\ state \in {"closed", "COMMAND", "STATION", "RINGCONFIG", "STREAM"}
  /\ errors \in 0 .. MAX_CONSECUTIVE_ERRORS - 1

\* A search runs in the one state of each protocol that waits for its end.
Phases ==
  /\ search.pc # "idle" => \/ client.protocol = "reader" /\ state = "COMMAND"
                           \/ SLClient /\ state = "RINGCONFIG"
  /\ state = "RINGCONFIG" => SLClient /\ search.pc # "idle"

\* Nobody is configured to stream without the authentication required.
Entitled ==
  state \in {"STREAM", "RINGCONFIG"} /\ client.required => "AUTHENTICATED" \in perms

\* The locals of a search.
SearchTypes ==
  /\ DOMAIN search = DOMAIN NoSearch
  /\ search.pc \in {"idle", "scan", "sample", "check"}
  /\ search.pc # "idle" =>
       /\ search.at \in Live
       /\ search.count \in Nat /\ search.count < MaxPackets
       /\ ~Forward /\ pktlimit > 0 => search.count < pktlimit
       /\ search.began \in Nat /\ search.began <= last_pkttime
       /\ search.oldest \in Nat /\ search.began < search.oldest + MaxPackets
       /\ search.found \in Offsets \cup {-1}
       /\ search.found >= 0 => search.pktid \in PktIds /\ search.pkttime \in 0 .. MaxTime
       /\ search.pc = "check" => search.found >= 0
       /\ search.pc = "sample" /\ ~Forward => pktlimit > 0

\* The stamp of the packet the search is at, and of the earliest one.
Time == slot[search.at].pkttime
Oldest == slot[earliestoffset].pkttime
Searching == search.pc \in {"scan", "sample"}
InTime == search.pc # "idle" /\ ~Overtaken

\* Where the search is, its packet is still there or the writer has been
\* there.
AtPlace ==
  search.pc # "idle" => Time = Place \/ Time >= Place + MaxPackets

\* RingAfter(): nothing that matches precedes the packet it is at, which is
\* the one it ends with.
ForwardScan ==
  Forward /\ InTime =>
    /\ \A o \in Live : TimeMatches(o) => Place <= slot[o].pkttime
    /\ search.pc = "check" => search.found = search.at /\ search.pkttime = Place

\* RingAfterRev(): the packet found is still there, and is not older than
\* the place.
ReverseKept ==
  ~Forward /\ InTime /\ search.found >= 0 =>
    /\ search.found \in Live /\ slot[search.found].pkttime = search.pkttime
    /\ Place <= search.pkttime /\ search.pkttime <= search.began
    /\ Searching => Place < search.pkttime

\* Of the packets passed that match, the one found is the oldest.
ReverseScan ==
  ~Forward /\ InTime /\ Searching =>
    \A o \in Live : TimeMatches(o) /\ slot[o].pkttime <= search.began /\ Place < slot[o].pkttime =>
                      search.found >= 0 /\ search.pkttime <= slot[o].pkttime

\* At the end, a packet that matches and is older is out of reach.
ReverseFound ==
  ~Forward /\ InTime /\ search.pc = "check" =>
    \A o \in Live : Eligible(o) => search.pkttime <= slot[o].pkttime

\* A record is being added by a client that writes, for a key and a file of
\* that key.
PendingTypes ==
  pending # NoRecord =>
    /\ client.protocol = "writer" /\ Connected
    /\ pending.step \in {"named", "archived", "skipped"}
    /\ pending.key \in Keys /\ pending.file \in NamesOf(pending.key)

\* Of a key that is not in doubt there is one name, on disk and settled on.
NamesAgree ==
  \A f, g \in DOMAIN files \cup Settled : f.key = g.key /\ f.key \notin doubtful => f = g

\* The files open are files on disk of their keys; what was submitted is in
\* a file of its key, and what is about to be as well.
FilesOpen ==
  \A k \in DOMAIN groups : groups[k] \in DOMAIN files /\ groups[k].key = k

SubmittedArchived ==
  /\ \A i \in DOMAIN submitted :
       \E f \in DOMAIN files : f.key = submitted[i] /\ i \in files[f]
  /\ pending.step = "archived" =>
       pending.file \in DOMAIN files /\ NextPktId \in files[pending.file]

ArchiveSound ==
  /\ ArchiveTypeOK
  /\ OpenFilesExact
  /\ NamesAgree
  /\ FilesOpen
  /\ SubmittedArchived

\* What a SeedLink client has received and asked for.
StationOk(s) ==
  LET st == sl.stations[s]
  IN  /\ DOMAIN st = DOMAIN NoStation
      /\ \/ st.packetid \in {RINGID_NONE, RINGID_EARLIEST}
         \/ last[s] > 0 /\ st.datastart \in {NSTUNSET, datatime[last[s]].start}

SeedLinkTypes ==
  /\ DOMAIN sl = DOMAIN NewSLInfo
  /\ DOMAIN sl.stations \subseteq wanted
  /\ DOMAIN sl.reached \subseteq Streams
  /\ sl.reached \in [DOMAIN sl.reached -> BOOLEAN]
  /\ last \in [Streams -> Nat]
  /\ \A s \in Streams : last[s] <= last_pkttime

Negotiated ==
  ~SLStreaming => /\ SLClient => reader.pktoffset = -1
                  /\ \A s \in DOMAIN sl.stations : StationOk(s)
                  /\ DOMAIN sl.reached = {}

\* The count of the time window is the number of streams received that are
\* not past its end, and there is one.
NotReached == {s \in DOMAIN sl.reached : ~sl.reached[s]}

WindowCounted ==
  /\ sl.timewinchannels = Cardinality(NotReached)
  /\ DOMAIN sl.reached # {} => NotReached # {}

SInv ==
  /\ RingSound
  /\ ClientTypes
  /\ Phases
  /\ PendingTypes
  /\ Entitled
  /\ ReadsPermitted
  /\ SearchTypes
  /\ AtPlace
  /\ ForwardScan
  /\ ReverseKept
  /\ ReverseScan
  /\ ReverseFound
  /\ ArchiveSound
  /\ SeedLinkTypes
  /\ Negotiated
  /\ WindowCounted

-----------------------------------------------------------------------------
(* What a step can do to each part of the state.                           *)

\* The ring is left alone, gets a packet, or fails and ends the server.
RingSteps ==
  \/ UNCHANGED <<ringvars, shutdownsig>>
  \/ /\ UNCHANGED shutdownsig
     /\ client.protocol = "writer" => Connected
     /\ client.protocol # "writer" => ~shutdownsig
     /\ \E s \in Streams : RingWrite(s, 0, RINGID_NONE)
  \/ /\ shutdownsig' /\ state' = "closed" /\ client.protocol = "writer"
     /\ \E s \in Streams : RingWriteError(s, 0)

(* The commands a DataLink reader sends and the packets it is sent leave   *)
(* the ring alone.                                                         *)
LEMMA DataLinkRing ==
  ASSUME PendingTypes, DataLinkSteps
  PROVE  RingSteps /\ UNCHANGED <<client, pktlimit, datatime>>
<1>1. CASE DLAuth \/ DLUnrecognized
  BY <1>1 DEF DLAuth, DLUnrecognized, Auth, AuthSucceeds, ClientError, Closed, Handled, RingSteps,
     dlvars, rsvars
<1>2. CASE PositionEarliest \/ PositionSet \/ PositionAfterEmpty \/ PositionAfterDone \/ Match \/ Reject
  BY <1>2 DEF PositionEarliest, PositionSet, PositionAfterEmpty, PositionAfterDone, Match, Reject,
     Command, Handled, Unwritten, RingSteps, dlvars
<1>3. CASE \E t \in RefTimes : PositionAfter(t)
  BY <1>3 DEF PositionAfter, Command, Handled, Unwritten, RingSteps, dlvars
<1>4. CASE Refused \/ Read \/ ReadNothing \/ Stream \/ StreamPackets \/ WriteRefused
  BY <1>4 DEF Refused, Read, ReadNothing, Stream, StreamPackets, WriteRefused, DLClosed, Closed,
     Command, Handled, Unwritten, RingSteps, dlvars
<1>5. CASE \E key \in Keys, flags \in Flags :
             WriteNames(key.stream, key, flags) \/ WriteSkips(key.stream, key, flags)
  BY <1>5 DEF WriteNames, WriteSkips, rsvars, RingSteps, dlvars
<1>6. CASE WriteArchives \/ WriteArchiveFails
  BY <1>6 DEF WriteArchives, WriteArchiveFails, Closed, rsvars, RingSteps, dlvars
<1>7. CASE WriteRing \/ WriteRingFails
  <2>1. client.protocol = "writer" /\ Connected /\ pending.key.stream \in Streams
    BY <1>7, DataLinkAssumption DEF WriteRing, WriteRingFails, PendingTypes, NoRecord
  <2>2. CASE WriteRing
    BY <2>1, <2>2 DEF WriteRing, rsvars, RingSteps
  <2>3. CASE WriteRingFails
    BY <2>1, <2>3 DEF WriteRingFails, Closed, RingSteps
  <2> QED
    BY <1>7, <2>2, <2>3
<1> QED
  BY <1>1, <1>2, <1>3, <1>4, <1>5, <1>6, <1>7 DEF DataLinkSteps

(* A SeedLink client's commands and packets leave the ring alone.          *)
LEMMA SeedLinkRing ==
  ASSUME SeedLinkSteps
  PROVE  UNCHANGED <<ringvars, client, pktlimit, datatime>>
<1>0. ASSUME NEW i, Configure(i)
      PROVE  UNCHANGED <<ringvars, client, pktlimit, datatime>>
  BY <1>0 DEF Configure, RingConfig, SLClosed, Closed
<1>1. CASE SLProto \/ SLAuth \/ SLUnrecognized
  BY <1>1 DEF SLProto, SLAuth, SLUnrecognized, Auth, AuthSucceeds, ClientError, Closed, Handled,
     rsvars
<1>2. CASE Station \/ StationData \/ StationTime
  BY <1>2 DEF Station, StationData, StationTime, SetStation, Handled
<1>3. CASE AllData \/ AllTime \/ End
  BY <1>0, <1>3 DEF AllData, AllTime, End
<1>4. CASE SLSearchDone \/ SLStreamPacket \/ SLWindowEnd \/ SLDialupEnd \/ SLNothing
  BY <1>4 DEF SLSearchDone, SLStreamPacket, SLWindowEnd, SLDialupEnd, SLNothing, SLClosed, Closed,
     Handled
<1> QED
  BY <1>1, <1>2, <1>3, <1>4 DEF SeedLinkSteps

(* The client is the same throughout, and the ring is written as by        *)
(* RingWrite() alone.                                                      *)
LEMMA RingFrame ==
  ASSUME PendingTypes, SNext
  PROVE  RingSteps /\ UNCHANGED <<client, pktlimit, datatime>>
<1>1. CASE SConnect
  BY <1>1 DEF SConnect, Connect, RingSteps, dlvars
<1>2. CASE SLeave
  BY <1>2 DEF SLeave, Leave, Closed, RingSteps, dlvars
<1>3. CASE SSubmit
  BY <1>3 DEF SSubmit, Submit, RingSteps, dlvars, rsvars
<1>4. CASE SSearch
  BY <1>4 DEF SSearch, SearchStep, RingSteps, dlvars
<1>5. CASE SStopped
  BY <1>5 DEF SStopped, svars, rsvars, connvars, dlvars, RingSteps
<1>6. CASE DataLinkSteps
  BY <1>6, DataLinkRing
<1>7. CASE SeedLinkSteps /\ UNCHANGED <<archivevars, dlvars>>
  BY <1>7, SeedLinkRing DEF RingSteps, dlvars
<1>8. CASE SOther
  BY <1>8 DEF SOther, RingSteps, dlvars, rsvars
<1> QED
  BY <1>1, <1>2, <1>3, <1>4, <1>5, <1>6, <1>7, <1>8 DEF SNext


-----------------------------------------------------------------------------
(* The ring and its numbering.                                             *)

(* The distance from a slot to the latest packet grows by one with each    *)
(* packet written, for every slot but the one written to.                  *)
LEMMA DistanceGrows ==
  ASSUME NEW o \in Offsets, NEW l \in Offsets, NextOffset(l) # o
  PROVE  /\ RankFrom(o, NextOffset(l)) = RankFrom(o, l) + 1
         /\ RankFrom(o, l) \in Nat
BY RingAssumption DEF RankFrom, NextOffset, Offsets

(* What another packet does to a numbered ring: it gets the next number,   *)
(* the packets kept stay as they are, and no slot leaves the ring.         *)
LEMMA WriteNumbered ==
  ASSUME IInv, Numbered, NEW s \in Streams, RingWrite(s, 0, RINGID_NONE)
  PROVE  /\ IInv' /\ Numbered'
         /\ last_pkttime' = last_pkttime + 1
         /\ Live' = Kept \cup {TargetOffset} /\ Live \subseteq Live' /\ Kept \subseteq Live
         /\ TargetOffset \notin Kept
         /\ slot'[TargetOffset].pkttime = last_pkttime + 1
         /\ \A i \in Kept : /\ slot'[i].pktid = slot[i].pktid
                            /\ slot'[i].pkttime = slot[i].pkttime
                            /\ slot'[i].streamid = slot[i].streamid
<1>0. 0 \in Instants /\ RINGID_NONE \in SuppliedIds \cup {RINGID_NONE}
  BY SearchAssumption
<1>1. IInv'
  BY <1>0, WritePreserves
<1>2. /\ TargetOffset \in Offsets /\ earliestoffset' \in Offsets
      /\ latestoffset' = TargetOffset
      /\ Kept \subseteq Live /\ TargetOffset \notin Kept
      /\ Live' = Kept \cup {TargetOffset}
  BY <1>0, WriteWindow
<1>3. /\ Stamp(0) \in 0 .. MaxTime
      /\ slot'[TargetOffset] = [pktid |-> NextPktId, pkttime |-> Stamp(0), streamid |-> s,
                                nextinstream |-> -1]
      /\ \A i \in Kept : /\ slot'[i].pktid = slot[i].pktid
                         /\ slot'[i].pkttime = slot[i].pkttime
                         /\ slot'[i].streamid = slot[i].streamid
  BY <1>0, WriteSlots
<1>4. last_pkttime \in Nat /\ Stamp(0) = last_pkttime + 1
  BY RingAssumption DEF IInv, TypeOK, Stamp
<1>5. last_pkttime' = last_pkttime + 1
  BY <1>4 DEF RingWrite
<1>6. Live \subseteq Live'
  <2>1. CASE Full
    BY <2>1, <1>2 DEF Kept, Full
  <2>2. CASE ~Full
    BY <2>2, <1>2 DEF Kept
  <2> QED
    BY <2>1, <2>2
<1>7. NextPktId = last_pkttime + 1
  <2>1. CASE latestoffset < 0
    BY <2>1 DEF NextPktId, Numbered
  <2>2. CASE ~(latestoffset < 0)
    <3>1. latestoffset \in Offsets /\ earliestoffset \in Offsets
      BY <2>2, RingAssumption DEF IInv, TypeOK, EndsAgree, Offsets
    <3>2. latestoffset \in Live
      BY <3>1, BetweenMember, RingAssumption DEF Live, Offsets
    <3>3. slot[latestoffset].pktid = last_pkttime
      <4>1. RankFrom(latestoffset, latestoffset) = 0
        BY <3>1, RingAssumption DEF RankFrom, Offsets
      <4>2. slot[latestoffset].pkttime \in Nat
        BY <3>2, LiveTyped
      <4> QED
        BY <3>2, <4>1, <4>2, <1>4 DEF Numbered
    <3>4. last_pkttime + 1 <= RINGID_MAXIMUM
      BY <1>3, <1>4, SearchAssumption, RingAssumption
    <3> QED
      BY <2>2, <3>3, <3>4, <1>4, RingAssumption DEF NextPktId
  <2> QED
    BY <2>1, <2>2
<1>8. Numbered'
  <2>1. ~(latestoffset' < 0)
    BY <1>2, RingAssumption DEF Offsets
  <2>2. ASSUME NEW o \in Live'
        PROVE  /\ slot'[o].pktid = slot'[o].pkttime
               /\ slot'[o].pkttime + RankFrom(o, latestoffset') = last_pkttime'
    <3>1. CASE o = TargetOffset
      <4>1. RankFrom(o, latestoffset') = 0
        BY <3>1, <1>2, RingAssumption DEF RankFrom, Offsets
      <4> QED
        BY <3>1, <4>1, <1>3, <1>4, <1>5, <1>7
    <3>2. CASE o # TargetOffset
      <4>1. o \in Kept /\ o \in Live
        BY <3>2, <1>2
      <4>2. latestoffset >= 0 /\ o \in Offsets
        BY <4>1, LiveTyped
      <4>3. latestoffset \in Offsets /\ TargetOffset = NextOffset(latestoffset)
        BY <4>2, RingAssumption DEF IInv, TypeOK, Offsets, TargetOffset
      <4>4. /\ RankFrom(o, latestoffset') = RankFrom(o, latestoffset) + 1
            /\ RankFrom(o, latestoffset) \in Nat
        BY <3>2, <4>2, <4>3, <1>2, DistanceGrows
      <4>5. slot[o].pkttime \in Nat
        BY <4>1, LiveTyped
      <4>6. slot[o].pktid = slot[o].pkttime
            /\ slot[o].pkttime + RankFrom(o, latestoffset) = last_pkttime
        BY <4>1 DEF Numbered
      <4> QED
        BY <4>1, <4>4, <4>5, <4>6, <1>3, <1>4, <1>5
    <3> QED
      BY <3>1, <3>2
  <2>3. \A o \in Live' : /\ slot'[o].pktid = slot'[o].pkttime
                         /\ slot'[o].pkttime + RankFrom(o, latestoffset') = last_pkttime'
    BY <2>2
  <2> QED
    BY <2>1, <2>3 DEF Numbered, RankFrom
<1> QED
  BY <1>1, <1>2, <1>3, <1>4, <1>5, <1>6, <1>8

(* Every step keeps the ring sound and numbered.                           *)
LEMMA RingPreserved ==
  ASSUME SInv, SNext
  PROVE  RingSound'
<1>1. RingSteps /\ UNCHANGED <<client, pktlimit, datatime>>
  BY RingFrame DEF SInv
<1>2. IInv /\ (~shutdownsig => Numbered) /\ (shutdownsig => client.protocol = "writer" /\ state = "closed")
  BY DEF SInv, RingSound
<1>3. CASE UNCHANGED <<ringvars, shutdownsig>>
  <2>1. IInv' /\ (~shutdownsig' => Numbered')
    BY <1>2, <1>3 DEF ringvars, vars, IInv, TypeOK, EndsAgree, LivePackets, CountAgrees,
       TimesIncrease, IndexDescribesRing, IndexDescribes, ChainLinksStream, ChainLinks, Live,
       Rank, PacketsOf, IsFirst, IsLast, Numbered
  <2>2. ASSUME shutdownsig
        PROVE  state' = "closed"
    <3>1. /\ state = "closed" /\ client.protocol = "writer" /\ search.pc = "idle"
          /\ pending.step = "none"
      BY <2>2, <1>2 DEF SInv, Phases, SLClient, PendingTypes, Connected, NoRecord
    <3>2. ~DataLinkSteps
      BY <3>1 DEF DataLinkSteps, DLAuth, DLUnrecognized, PositionEarliest, PositionSet,
         PositionAfterEmpty, PositionAfter, PositionAfterDone, Match, Reject, Refused, Read,
         ReadNothing, Stream, StreamPackets, WriteRefused, WriteNames, WriteSkips,
         WriteArchives, WriteArchiveFails, WriteRing, WriteRingFails, Reading, Writing,
         Connected
    <3>3. ~SeedLinkSteps
      BY <3>1 DEF SeedLinkSteps, SLProto, SLAuth, SLUnrecognized, Station, StationData,
         StationTime, AllData, AllTime, End, SLSearchDone, SLStreamPacket, SLWindowEnd,
         SLDialupEnd, SLNothing, Agreed, Negotiating, SLStreaming, SLClient
    <3>4. ~SSearch
      BY <3>1 DEF SSearch, SearchStep, SearchSkip, SearchMatch, SearchSample, Examines
    <3>5. ~SConnect /\ ~SLeave /\ ~SSubmit /\ ~SOther
      BY <2>2, <3>1 DEF SConnect, SLeave, Leave, Connected, SSubmit, SOther
    <3>6. SStopped
      BY <3>2, <3>3, <3>4, <3>5 DEF SNext
    <3> QED
      BY <3>1, <3>6 DEF SStopped, svars, connvars
  <2> QED
    BY <1>1, <1>2, <1>3, <2>1, <2>2 DEF RingSound
<1>4. ASSUME NEW s \in Streams, RingWrite(s, 0, RINGID_NONE), UNCHANGED shutdownsig,
             client.protocol = "writer" => Connected,
             client.protocol # "writer" => ~shutdownsig
      PROVE  RingSound'
  <2>1. ~shutdownsig
    BY <1>2, <1>4 DEF Connected
  <2>2. IInv' /\ Numbered'
    BY <1>2, <1>4, <2>1, WriteNumbered
  <2> QED
    BY <1>4, <2>1, <2>2 DEF RingSound
<1>5. ASSUME NEW s \in Streams, RingWriteError(s, 0), shutdownsig', state' = "closed",
             client.protocol = "writer"
      PROVE  RingSound'
  <2>1. IInv'
    BY <1>2, <1>5, WriteErrorPreserves, SearchAssumption
  <2> QED
    BY <1>1, <1>5, <2>1 DEF RingSound
<1> QED
  BY <1>1, <1>3, <1>4, <1>5 DEF RingSteps


-----------------------------------------------------------------------------
(* Reading from the ring.                                                  *)

(* A set of numbers that is not empty has a least one.                     *)
LEMMA LeastNumber ==
  ASSUME NEW T, T \subseteq Nat, T # {}
  PROVE  \E x \in T : \A y \in T : x <= y
<1>1. PICK x \in T : \A y \in T : ~(<<y, x>> \in OpToRel(<, Nat))
  BY WFMin, NatLessThanWellFounded
<1>2. ASSUME NEW y \in T
      PROVE  x <= y
  <2>1. ~(y < x)
    BY <1>1, <1>2 DEF OpToRel
  <2> QED
    BY <2>1, <1>2
<1> QED
  BY <1>2

(* A bounded one has a greatest.                                           *)
LEMMA GreatestNumber ==
  ASSUME NEW T, NEW b \in Nat, T \subseteq 0 .. b, T # {}
  PROVE  \E x \in T : \A y \in T : y <= x
<1> DEFINE D == {b - x : x \in T}
<1>1. D \subseteq Nat /\ D # {}
  OBVIOUS
<1>2. PICK d \in D : \A y \in D : d <= y
  BY <1>1, LeastNumber
<1>3. PICK x \in T : d = b - x
  BY <1>2
<1>4. ASSUME NEW y \in T
      PROVE  y <= x
  <2>1. b - x <= b - y
    BY <1>2, <1>3, <1>4
  <2> QED
    BY <2>1, <1>3, <1>4
<1> QED
  BY <1>4

(* A reader set at a packet of the ring is of its type.                    *)
LEMMA ReaderAt ==
  ASSUME IInv, NEW o \in Live
  PROVE  At(o) \in [pktoffset : Offsets \cup {-1},
                    pktid : PktIds \cup {RINGID_NONE, RINGID_NEXT, RINGID_EARLIEST},
                    pkttime : 0 .. MaxTime \cup {NSTUNSET}]
<1>1. o \in Offsets
  BY LiveTyped
<1>2. slot[o] \in Packet
  BY <1>1 DEF IInv, TypeOK
<1>3. slot[o].pktid \in PktIds /\ slot[o].pkttime \in 0 .. MaxTime
  BY <1>2 DEF Packet
<1> QED
  BY <1>1, <1>3 DEF At

(* The ends of a ring with packets are in it.                              *)
LEMMA EndsLive ==
  ASSUME IInv, latestoffset >= 0
  PROVE  /\ earliestoffset \in Offsets /\ latestoffset \in Offsets
         /\ earliestoffset \in Live /\ latestoffset \in Live
<1>1. earliestoffset \in Offsets /\ latestoffset \in Offsets
  BY RingAssumption DEF IInv, TypeOK, EndsAgree, Offsets
<1> QED
  BY <1>1, BetweenMember, RingAssumption DEF Live, Offsets

(* RingReadNext() has a next packet whenever there is one to deliver, and  *)
(* it is one that is selected.                                             *)
LEMMA NextDeliverable ==
  ASSUME SInv, Deliverable # {}
  PROVE  /\ NextPacket \in Deliverable
         /\ SelectedStream(slot[NextPacket].streamid)
<1> DEFINE st == StartOffset(reader)
           ranks == {RankFrom(st, o) : o \in Deliverable}
<1>0. IInv /\ ClientTypes
  BY DEF SInv, RingSound
<1>1. latestoffset >= 0
  BY <1>0, RingAssumption DEF Deliverable, Ahead, IInv, TypeOK, Offsets
<1>2. earliestoffset \in Offsets /\ latestoffset \in Offsets
  BY <1>0, <1>1, EndsLive
<1>3. st \in Offsets
  <2>1. reader.pktoffset \in Offsets \cup {-1}
        /\ reader.pktid \in PktIds \cup {RINGID_NONE, RINGID_NEXT, RINGID_EARLIEST}
    BY <1>0 DEF ClientTypes
  <2>2. CASE reader.pktoffset >= 0
    BY <2>1, <2>2, NextOffsetType, RingAssumption DEF StartOffset, Offsets
  <2>3. CASE reader.pktid \in PktIds /\ InRing(reader.pktid)
    <3>1. OffsetForID(reader.pktid) \in Live
      BY <2>3 DEF InRing, OffsetForID
    <3>2. OffsetForID(reader.pktid) \in Offsets
      BY <3>1, <1>0, LiveTyped
    <3> QED
      BY <2>1, <2>2, <2>3, <3>2, <1>2 DEF StartOffset
  <2> QED
    BY <1>2, <2>2, <2>3 DEF StartOffset
<1>4. Deliverable \subseteq Offsets
  BY <1>2, <1>3, BetweenMember DEF Deliverable, Ahead
<1>5. \A o \in Deliverable : RankFrom(st, o) \in Nat
  BY <1>3, <1>4, RingAssumption DEF RankFrom, Offsets
<1>6. ranks \subseteq Nat /\ ranks # {}
  BY <1>5
<1>7. PICK r \in ranks : \A q \in ranks : r <= q
  BY <1>6, LeastNumber
<1>8. PICK o \in Deliverable : r = RankFrom(st, o)
  BY <1>7
<1>9. \A p \in Deliverable : RankFrom(st, o) <= RankFrom(st, p)
  BY <1>7, <1>8
<1>10. NextPacket \in Deliverable
  BY <1>8, <1>9 DEF NextPacket
<1> QED
  BY <1>10 DEF Deliverable

(* RingReadNext() leaves the reader at a packet or where it may wait.      *)
LEMMA ReadTyped ==
  ASSUME SInv, ReadNone \/ \E o \in Live : ReadNext(o)
  PROVE  reader' \in [pktoffset : Offsets \cup {-1},
                      pktid : PktIds \cup {RINGID_NONE, RINGID_NEXT, RINGID_EARLIEST},
                      pkttime : 0 .. MaxTime \cup {NSTUNSET}]
<1>0. IInv /\ ClientTypes
  BY DEF SInv, RingSound
<1>1. CASE \E o \in Live : ReadNext(o)
  BY <1>0, <1>1, ReaderAt DEF ReadNext
<1>2. CASE ReadNone
  <2>1. CASE latestoffset >= 0
    BY <1>0, <1>2, <2>1, EndsLive, ReaderAt DEF ReadNone, ClientTypes
  <2>2. CASE ~(latestoffset >= 0)
    BY <1>0, <1>2, <2>2 DEF ReadNone, ClientTypes
  <2> QED
    BY <2>1, <2>2
<1> QED
  BY <1>1, <1>2


-----------------------------------------------------------------------------
(* The connection: types, phases and permissions.                          *)

SessionInv == ClientTypes /\ Phases /\ Entitled /\ ReadsPermitted

ReaderType ==
  [pktoffset : Offsets \cup {-1},
   pktid : PktIds \cup {RINGID_NONE, RINGID_NEXT, RINGID_EARLIEST},
   pkttime : 0 .. MaxTime \cup {NSTUNSET}]

(* The thread's end leaves nothing of a session behind.                    *)
LEMMA ClosedSession ==
  ASSUME SInv, Closed, sent' = NoStream
  PROVE  SessionInv'
<1>1. NewReader \in ReaderType
  BY DEF NewReader, ReaderType
<1>2. ClientTypes'
  BY <1>1, ConnectionAssumption DEF SInv, ClientTypes, Closed, ReaderType
<1> QED
  BY <1>2 DEF Closed, NoSearch, SessionInv, Phases, Entitled, ReadsPermitted

(* A client error counts, and closes the connection at its limit.          *)
LEMMA ClientErrorSession ==
  ASSUME SInv, NEW st \in {"COMMAND", "STATION", "STREAM"}, ClientError(st),
         search.pc = "idle", st = "STREAM" => state = "STREAM"
  PROVE  SessionInv'
<1>1. CASE errors + 1 >= MAX_CONSECUTIVE_ERRORS
  BY <1>1, ClosedSession DEF ClientError
<1>2. CASE ~(errors + 1 >= MAX_CONSECUTIVE_ERRORS)
  <2>1. /\ errors' = errors + 1 /\ state' = st /\ sent' = NoStream
        /\ UNCHANGED <<rsvars, client, perms>>
    BY <1>2 DEF ClientError
  <2>2. ClientTypes'
    BY <1>2, <2>1, ConnectionAssumption DEF SInv, ClientTypes, rsvars
  <2> QED
    BY <2>1, <2>2 DEF SInv, SessionInv, Phases, Entitled, ReadsPermitted, rsvars, SLClient
<1> QED
  BY <1>1, <1>2

(* Authentication keeps the session's state, whether it succeeds or not.   *)
LEMMA AuthSession ==
  ASSUME SInv, NEW st \in {"COMMAND", "STATION"}, Auth(st), search.pc = "idle"
  PROVE  SessionInv'
<1>1. CASE AuthSucceeds(st)
  BY <1>1, ConnectionAssumption DEF AuthSucceeds, Handled, SInv, SessionInv, ClientTypes, Phases,
     Entitled, ReadsPermitted, SLClient
<1> QED
  BY <1>1, ClosedSession, ClientErrorSession DEF Auth

(* A search that ends well leaves the reader at or before a packet.        *)
LEMMA FoundTyped ==
  ASSUME SInv, SearchSucceeds
  PROVE  FoundPosition \in ReaderType
<1>1. /\ search.found \in Offsets /\ search.pktid \in PktIds
      /\ search.pkttime \in 0 .. MaxTime
  BY RingAssumption DEF SInv, SearchTypes, SearchSucceeds, Offsets
<1> QED
  BY <1>1 DEF FoundPosition, Before, ReaderType

(* A DataLink command that is carried out.                                 *)
LEMMA CommandSession ==
  ASSUME SInv, Command, reader' \in ReaderType,
         \/ UNCHANGED search /\ search.pc = "idle"
         \/ search' = NoSearch
         \/ client.protocol = "reader"
  PROVE  SessionInv'
<1>1. ClientTypes'
  BY ConnectionAssumption DEF SInv, ClientTypes, Command, Handled, ReaderType
<1> QED
  BY <1>1 DEF SInv, SessionInv, Phases, Entitled, ReadsPermitted, Command, Handled, NoSearch, SLClient

(* Every step of a DataLink session keeps types, phases and permissions.   *)
LEMMA DataLinkSession ==
  ASSUME SInv, DataLinkSteps, UNCHANGED slvars
  PROVE  SessionInv'
<1>0. /\ IInv /\ ClientTypes /\ Phases /\ reader \in ReaderType
      /\ Writing => search.pc = "idle"
  BY DEF SInv, RingSound, ClientTypes, ReaderType, Phases, Writing, SLClient
<1>1. CASE DLAuth \/ DLUnrecognized
  BY <1>0, <1>1, AuthSession, ClientErrorSession DEF DLAuth, DLUnrecognized, Reading
<1>2. CASE PositionEarliest
  BY <1>0, <1>2, CommandSession DEF PositionEarliest, Reading, Before, ReaderType
<1>3. CASE PositionSet
  <2>1. reader' \in ReaderType
    BY <1>0, <1>3, ReaderAt, EndsLive DEF PositionSet, ReaderType
  <2> QED
    BY <1>3, <2>1, CommandSession DEF PositionSet, Reading
<1>4. CASE PositionAfterEmpty
  <2>1. reader' \in ReaderType
    BY <1>0, <1>4 DEF PositionAfterEmpty, ReaderType
  <2> QED
    BY <1>4, <2>1, CommandSession DEF PositionAfterEmpty, Reading
<1>5. CASE \E t \in RefTimes : PositionAfter(t)
  BY <1>0, <1>5, CommandSession DEF PositionAfter, Reading
<1>6. CASE PositionAfterDone
  <2>1. reader' \in ReaderType
    BY <1>0, <1>6, FoundTyped DEF PositionAfterDone, ReaderType
  <2> QED
    BY <1>6, <2>1, CommandSession DEF PositionAfterDone
<1>7. CASE Match \/ Reject \/ ReadNothing
  BY <1>0, <1>7, CommandSession DEF Match, Reject, ReadNothing, Reading
<1>8. CASE Refused \/ WriteRefused
  BY <1>8, ClosedSession DEF Refused, WriteRefused, DLClosed
<1>9. CASE Read
  <2>1. reader' \in ReaderType
    BY <1>0, <1>9, ReaderAt DEF Read, ReaderType
  <2>2. ClientTypes'
    BY <1>0, <1>9, <2>1, ConnectionAssumption DEF Read, ClientTypes, ReaderType
  <2>3. ReadsPermitted'
    BY <1>9 DEF Read, ReadsPermitted, Allowed, AuthMissing
  <2> QED
    BY <1>0, <1>9, <2>2, <2>3 DEF Read, Reading, SessionInv, Phases, Entitled, SLClient
<1>10. CASE Stream
  <2>1. reader' \in ReaderType
    BY <1>0, <1>10 DEF Stream, ReaderType
  <2>2. ClientTypes'
    BY <1>0, <1>10, <2>1, ConnectionAssumption DEF Stream, Handled, ClientTypes, ReaderType
  <2> QED
    BY <1>0, <1>10, <2>2 DEF Stream, Reading, Handled, SessionInv, Phases, Entitled, AuthMissing,
       ReadsPermitted, SLClient
<1>11. CASE StreamPackets
  <2>1. reader' \in ReaderType
    BY <1>11, ReadTyped DEF StreamPackets, ReaderType
  <2>2. ClientTypes'
    BY <1>0, <1>11, <2>1 DEF StreamPackets, ClientTypes, ReaderType
  <2>3. ReadsPermitted'
    <3>1. CASE \E o \in Live : ReadNext(o) /\ sent' = slot[o].streamid
      <4>1. SelectedStream(sent')
        BY <3>1, NextDeliverable DEF ReadNext
      <4>2. client.required => "AUTHENTICATED" \in perms
        BY <1>11 DEF StreamPackets, SInv, Entitled
      <4> QED
        BY <1>11, <4>1, <4>2 DEF StreamPackets, ReadsPermitted, SelectedStream, Allowed
    <3> QED
      BY <1>11, <3>1 DEF StreamPackets, ReadsPermitted
  <2> QED
    BY <1>11, <2>2, <2>3 DEF SInv, StreamPackets, SessionInv, Phases, Entitled, SLClient
<1>12. CASE \E key \in Keys, flags \in Flags :
              WriteNames(key.stream, key, flags) \/ WriteSkips(key.stream, key, flags)
  BY <1>12 DEF WriteNames, WriteSkips, rsvars, SInv, SessionInv, ClientTypes, Phases,
     Entitled, ReadsPermitted, SLClient
<1>13. CASE WriteArchiveFails \/ WriteRingFails
  BY <1>13, ClosedSession DEF WriteArchiveFails, WriteRingFails
<1>14. CASE WriteArchives \/ WriteRing
  BY <1>14, ConnectionAssumption DEF WriteArchives, WriteRing, rsvars, SInv, SessionInv,
     ClientTypes, Phases, Entitled, ReadsPermitted, SLClient
<1> QED
  BY <1>1, <1>2, <1>3, <1>4, <1>5, <1>6, <1>7, <1>8, <1>9, <1>10, <1>11, <1>12,
     <1>13, <1>14 DEF DataLinkSteps


(* The reader is configured, or the search for its start time begins.      *)
LEMMA ConfigureSession ==
  ASSUME SInv, Agreed, NEW i, Configure(i)
  PROVE  SessionInv'
<1>0. /\ ClientTypes /\ reader \in ReaderType /\ search.pc = "idle"
      /\ SLClient /\ client.protocol # "reader"
  BY DEF SInv, ClientTypes, ReaderType, Phases, Agreed, Negotiating, SLClient
<1>1. CASE AuthMissing
  BY <1>1, ClosedSession DEF Configure, SLClosed
<1>2. CASE ~AuthMissing
  <2>1. RingConfig(i)
    BY <1>2 DEF Configure
  <2>2. PICK c \in Configured(i) :
          LET byall == c.startid = RINGID_EARLIEST /\ c.starttime # NSTUNSET
              id    == IF byall THEN RINGID_NONE ELSE c.startid
              bytime == c.starttime # NSTUNSET /\ id = RINGID_NONE
          IN  IF bytime /\ latestoffset >= 0
                THEN /\ search' = BeginSearch(c.starttime, 0)
                     /\ state' = "RINGCONFIG"
                     /\ UNCHANGED reader
                ELSE /\ reader' = IF id \in PktIds \cup {RINGID_EARLIEST} THEN StartPosition(id)
                                  ELSE [reader EXCEPT !.pktid = RINGID_NEXT]
                     /\ state' = "STREAM"
                     /\ UNCHANGED search
    BY <2>1 DEF RingConfig
  <2>3. /\ state' \in {"RINGCONFIG", "STREAM"}
        /\ state' = "RINGCONFIG" => search'.pc = "scan" /\ UNCHANGED reader
        /\ state' = "STREAM" => UNCHANGED search
    BY <2>2 DEF BeginSearch, NoSearch
  <2>4. reader' \in ReaderType
    BY <1>0, <2>2 DEF StartPosition, Before, ReaderType
  <2>5. /\ errors' = 0 /\ sent' = NoStream
        /\ UNCHANGED <<datatime, pktlimit, client, perms>>
    BY <2>1 DEF RingConfig
  <2>6. ClientTypes'
    BY <1>0, <2>3, <2>4, <2>5, ConnectionAssumption DEF ClientTypes, ReaderType
  <2>7. Phases'
    BY <1>0, <2>3, <2>5 DEF Phases, SLClient
  <2> QED
    BY <1>2, <2>5, <2>6, <2>7 DEF SessionInv, Entitled, ReadsPermitted, AuthMissing
<1> QED
  BY <1>1, <1>2

(* Every step of a SeedLink session keeps types, phases and permissions.   *)
LEMMA SeedLinkSession ==
  ASSUME SInv, SeedLinkSteps
  PROVE  SessionInv'
<1>0. /\ ClientTypes /\ reader \in ReaderType
      /\ Agreed \/ SLStreaming => search.pc = "idle"
      /\ Agreed => state \in {"COMMAND", "STATION"}
  BY DEF SInv, ClientTypes, ReaderType, Phases, Agreed, Negotiating, SLStreaming, SLClient
<1>1. CASE SLProto
  <2>1. ClientTypes'
    BY <1>0, <1>1, ConnectionAssumption DEF SLProto, Handled, ClientTypes
  <2> QED
    BY <1>1, <2>1 DEF SInv, SLProto, Handled, SessionInv, Phases, Entitled, ReadsPermitted, SLClient
<1>2. CASE SLAuth \/ SLUnrecognized
  BY <1>0, <1>2, AuthSession, ClientErrorSession DEF SLAuth, SLUnrecognized, SLStreaming
<1>3. CASE Station \/ StationData \/ StationTime
  <2>1. /\ Agreed /\ state' \in {"COMMAND", "STATION"} /\ Handled
        /\ UNCHANGED <<reader, sel, search, perms>>
    BY <1>3 DEF Station, StationData, StationTime, SetStation
  <2>2. ClientTypes'
    BY <1>0, <2>1, ConnectionAssumption DEF Handled, ClientTypes
  <2> QED
    BY <1>0, <2>1, <2>2 DEF Handled, SessionInv, Phases, Entitled, ReadsPermitted
<1>4. CASE AllData \/ AllTime \/ End
  BY <1>4, ConfigureSession DEF AllData, AllTime, End
<1>5. CASE SLSearchDone
  <2>1. reader' \in ReaderType
    BY <1>0, <1>5, FoundTyped DEF SLSearchDone, ReaderType
  <2>2. ClientTypes'
    BY <1>0, <1>5, <2>1, ConnectionAssumption DEF SLSearchDone, Handled, ClientTypes, ReaderType
  <2> QED
    BY <1>5, <2>2 DEF SInv, SLSearchDone, Handled, NoSearch, SessionInv, Phases, Entitled,
       ReadsPermitted
<1>6. CASE SLStreamPacket \/ SLNothing
  <2>1. reader' \in ReaderType
    BY <1>6, ReadTyped DEF SLStreamPacket, SLNothing, ReaderType
  <2>2. /\ SLStreaming
        /\ UNCHANGED <<datatime, pktlimit, sel, search, client, state, perms, errors>>
    BY <1>6 DEF SLStreamPacket, SLNothing
  <2>3. ClientTypes'
    BY <1>0, <2>1, <2>2 DEF ClientTypes, ReaderType
  <2>4. ReadsPermitted'
    <3>1. CASE sent' = NoStream
      BY <3>1 DEF ReadsPermitted
    <3>2. CASE sent' # NoStream
      <4>1. \E o \in Live : ReadNext(o) /\ sent' = slot[o].streamid
        BY <1>6, <3>2 DEF SLStreamPacket, SLNothing
      <4>2. SelectedStream(sent')
        BY <4>1, NextDeliverable DEF ReadNext
      <4>3. client.required => "AUTHENTICATED" \in perms
        BY <2>2 DEF SLStreaming, SInv, Entitled
      <4> QED
        BY <2>2, <4>2, <4>3 DEF ReadsPermitted, SelectedStream, Allowed
    <3> QED
      BY <3>1, <3>2
  <2> QED
    BY <2>2, <2>3, <2>4 DEF SInv, SessionInv, Phases, Entitled, SLClient
<1>7. CASE SLWindowEnd \/ SLDialupEnd
  BY <1>7, ClosedSession DEF SLWindowEnd, SLDialupEnd, SLClosed
<1> QED
  BY <1>1, <1>2, <1>3, <1>4, <1>5, <1>6, <1>7 DEF SeedLinkSteps

(* Whatever the order of commands, packets and other clients' writes.      *)
LEMMA SessionPreserved ==
  ASSUME SInv, SNext
  PROVE  SessionInv'
<1>1. CASE SConnect
  <2>1. ClientTypes'
    BY <1>1 DEF SInv, SConnect, Connect, ClientTypes
  <2> QED
    BY <1>1, <2>1 DEF SInv, SConnect, Connect, Connected, SessionInv, Phases, Entitled,
       ReadsPermitted, SLClient
<1>2. CASE SLeave
  BY <1>2, ClosedSession DEF SLeave, Leave
<1>3. CASE SSubmit
  BY <1>3 DEF SInv, SSubmit, Submit, SessionInv, ClientTypes, Phases, Entitled, ReadsPermitted,
     rsvars, SLClient
<1>4. CASE SSearch
  <2>1. /\ search.pc # "idle" /\ search'.pc # "idle" /\ sent' = NoStream
        /\ UNCHANGED <<client, state, perms, errors, datatime, pktlimit, reader, sel>>
    BY <1>4 DEF SInv, SearchTypes, NoSearch, SSearch, SearchStep, SearchSkip, SearchMatch, SearchSample,
       Examines, Onward
  <2> QED
    BY <2>1 DEF SInv, SessionInv, ClientTypes, Phases, Entitled, ReadsPermitted, SLClient
<1>5. CASE SStopped
  BY <1>5 DEF SStopped, svars, rsvars, connvars, SInv, SessionInv, ClientTypes, Phases, Entitled,
     ReadsPermitted, SLClient
<1>6. CASE SOther
  BY <1>6 DEF SInv, SOther, SessionInv, ClientTypes, Phases, Entitled, ReadsPermitted,
     rsvars, SLClient
<1> QED
  BY <1>1, <1>2, <1>3, <1>4, <1>5, <1>6, DataLinkSession, SeedLinkSession DEF SNext


-----------------------------------------------------------------------------
(* The archive.                                                            *)

(* Closing some of the open files takes their number off the count.        *)
LEMMA ClosedCount ==
  ASSUME NEW A, NEW B, A \subseteq Keys, B \subseteq A
  PROVE  /\ Cardinality(A) \in Nat /\ Cardinality(B) \in Nat
         /\ Cardinality(A \ B) = Cardinality(A) - Cardinality(B)
<1>1. IsFiniteSet(A) /\ IsFiniteSet(B)
  BY ArchiveAssumption, FS_Subset
<1>2. A \cap B = B
  OBVIOUS
<1> QED
  BY <1>1, <1>2, FS_Difference, FS_CardinalityType

(* The file of a key is one on disk, the record's own, or the key's name   *)
(* is in doubt.                                                            *)
LEMMA LookedFor ==
  ASSUME ArchiveSound, NEW key \in Keys, NEW flags \in Flags, NEW f \in NamesOf(key),
         Looks(key, flags, f)
  PROVE  /\ f \in FileNames /\ f.key = key
         /\ doubtful \subseteq doubtful' /\ doubtful' \subseteq Keys
         /\ key \notin doubtful' =>
              \A g \in DOMAIN files \cup Settled : g.key = key => g = f
<1>0. DOMAIN files \subseteq FileNames /\ doubtful \subseteq Keys /\ NamesAgree
  BY DEF ArchiveSound, ArchiveTypeOK
<1>1. f \in FileNames /\ f.key = key
  BY DEF NamesOf, FileNames
<1>2. doubtful \subseteq doubtful' /\ doubtful' \subseteq Keys
  BY <1>0 DEF Looks
<1>3. ASSUME key \notin doubtful', NEW g \in DOMAIN files \cup Settled, g.key = key
      PROVE  g = f
  <2>1. /\ f = FileFor(key, flags) /\ key \notin doubtful
        /\ ~(Matched(key) = {} /\ InTheMaking(key))
    BY <1>3 DEF Looks
  <2>2. Matched(key) # {}
    <3>1. g \in DOMAIN files => g \in Matched(key)
      BY <1>3 DEF Matched
    <3>2. g \notin DOMAIN files => InTheMaking(key)
      BY <1>3 DEF InTheMaking
    <3> QED
      BY <2>1, <3>1, <3>2
  <2>3. PICK h : h \in Matched(key)
    BY <2>2
  <2>4. h \in DOMAIN files /\ h.key = key
    BY <2>3 DEF Matched
  <2>5. \A m \in Matched(key) : m = h
    BY <1>0, <2>1, <2>4 DEF NamesAgree, Matched
  <2>6. h.flags \in Nat
    BY <1>0, <2>4, ArchiveAssumption DEF FileNames
  <2>7. \A m \in Matched(key) : m.flags <= h.flags
    BY <2>5, <2>6
  <2>8. f \in Matched(key)
    BY <2>1, <2>2, <2>3, <2>7 DEF FileFor
  <2>9. f = h
    BY <2>5, <2>8
  <2> QED
    BY <1>0, <1>3, <2>1, <2>4, <2>9 DEF NamesAgree
<1> QED
  BY <1>1, <1>2, <1>3

(* A file gets a record or is created; no file loses any.                  *)
LEMMA FilesGrow ==
  ASSUME ArchiveSound, NEW f \in FileNames, NEW recs, files' = FilesWith(f, recs)
  PROVE  /\ DOMAIN files' = DOMAIN files \cup {f} /\ DOMAIN files' \subseteq FileNames
         /\ \A g \in DOMAIN files : files[g] \subseteq files'[g]
         /\ recs \subseteq files'[f]
BY DEF ArchiveSound, ArchiveTypeOK, FilesWith

(* Adding a record keeps the count of open files exact, whatever is closed *)
(* for it.                                                                 *)
LEMMA ArchivedGroups ==
  ASSUME ArchiveSound, pending.key \in Keys, pending.file \in FileNames, NEW rec, Archived(rec)
  PROVE  /\ DOMAIN groups' \subseteq Keys /\ OpenFilesExact' /\ openfilecount' \in Int
         /\ \A k \in DOMAIN groups' : \/ k \in DOMAIN groups /\ groups'[k] = groups[k]
                                      \/ k = pending.key /\ groups'[k] = pending.file
<1> DEFINE key == pending.key
           f == pending.file
           open == DOMAIN groups
<1>0. open \subseteq Keys /\ openfilecount = Cardinality(open)
  BY DEF ArchiveSound, ArchiveTypeOK, OpenFilesExact
<1>1. PICK idle \in SUBSET (open \ {key}) :
        IF key \in open
          THEN /\ groups' = Restrict(groups, open \ idle)
               /\ openfilecount' = CountAfterClose(idle, {})
          ELSE \E more \in ClosedForOpen(CountAfterClose(idle, {}), open \ idle) :
                 /\ groups' = [k \in (open \ (idle \cup more)) \cup {key} |->
                                 IF k = key THEN f ELSE groups[k]]
                 /\ openfilecount' = CountAfterClose(idle, more) + 1
  BY DEF Archived
<1>2. /\ Cardinality(open) \in Nat /\ Cardinality(idle) \in Nat
      /\ Cardinality(open \ idle) = Cardinality(open) - Cardinality(idle)
  BY <1>0, ClosedCount
<1>3. CASE key \in open
  <2>1. groups' = Restrict(groups, open \ idle) /\ openfilecount' = CountAfterClose(idle, {})
    BY <1>1, <1>3
  <2>2. DOMAIN groups' = open \ idle /\ \A k \in open \ idle : groups'[k] = groups[k]
    BY <2>1 DEF Restrict
  <2>3. openfilecount' = Cardinality(open) - Cardinality(idle)
    BY <1>0, <1>2, <2>1, FS_EmptySet DEF CountAfterClose
  <2> QED
    BY <1>0, <1>2, <2>2, <2>3 DEF OpenFilesExact
<1>4. CASE key \notin open
  <2>1. PICK more \in ClosedForOpen(CountAfterClose(idle, {}), open \ idle) :
          /\ groups' = [k \in (open \ (idle \cup more)) \cup {key} |->
                          IF k = key THEN f ELSE groups[k]]
          /\ openfilecount' = CountAfterClose(idle, more) + 1
    BY <1>1, <1>4
  <2> DEFINE rest == open \ (idle \cup more)
  <2>2. more \subseteq open \ idle /\ open \ idle \subseteq Keys
    BY <1>0, <2>1 DEF ClosedForOpen
  <2>3. /\ Cardinality(more) \in Nat
        /\ Cardinality((open \ idle) \ more) = Cardinality(open \ idle) - Cardinality(more)
    BY <2>2, ClosedCount
  <2>4. rest = (open \ idle) \ more
    OBVIOUS
  <2>5. IsFiniteSet(rest)
    BY <1>0, ArchiveAssumption, FS_Subset
  <2>6. Cardinality(rest \cup {key}) = Cardinality(rest) + 1
    BY <1>4, <2>5, FS_AddElement
  <2>7. openfilecount' = Cardinality(open) - Cardinality(idle) - Cardinality(more) + 1
    BY <1>0, <2>1 DEF CountAfterClose
  <2>8. DOMAIN groups' = rest \cup {key}
    BY <2>1
  <2>9. openfilecount' = Cardinality(DOMAIN groups') /\ openfilecount' \in Int
    <3>1. Cardinality(rest) = Cardinality(open) - Cardinality(idle) - Cardinality(more)
      BY <1>2, <2>3, <2>4
    <3> HIDE DEF rest, open
    <3> QED
      BY <1>2, <2>3, <2>6, <2>7, <2>8, <3>1
  <2>10. ASSUME NEW k \in DOMAIN groups'
         PROVE  (k \in open /\ groups'[k] = groups[k]) \/ (k = key /\ groups'[k] = f)
    BY <2>1, <2>8
  <2> QED
    BY <1>0, <2>8, <2>9, <2>10 DEF OpenFilesExact
<1> QED
  BY <1>3, <1>4

(* The archive's files are closed when the thread ends.                    *)
LEMMA ShutdownArchive ==
  ASSUME ArchiveSound, ArchiveShutdown, UNCHANGED <<submitted, others, doubtful>>,
         DOMAIN files' \subseteq FileNames, DOMAIN files' \subseteq DOMAIN files \cup Settled,
         \A g \in DOMAIN files : g \in DOMAIN files' /\ files[g] \subseteq files'[g]
  PROVE  ArchiveSound'
<1>1. groups' = [k \in {} |-> {}] /\ openfilecount' = 0 /\ pending' = NoRecord
  BY DEF ArchiveShutdown
<1>2. DOMAIN groups' = {} /\ Cardinality(DOMAIN groups') = 0 /\ pending'.step = "none"
  BY <1>1, FS_EmptySet DEF NoRecord
<1>3. ArchiveTypeOK' /\ OpenFilesExact' /\ FilesOpen'
  BY <1>1, <1>2 DEF ArchiveSound, ArchiveTypeOK, OpenFilesExact, FilesOpen
<1>4. SubmittedArchived'
  BY <1>2 DEF ArchiveSound, SubmittedArchived
<1>5. NamesAgree'
  <2>1. (DOMAIN files \cup Settled)' \subseteq DOMAIN files \cup Settled
    BY <1>2 DEF Settled
  <2> QED
    BY <2>1 DEF ArchiveSound, NamesAgree
<1> QED
  BY <1>3, <1>4, <1>5 DEF ArchiveSound

(* A file is found, for a record of this client or of another.             *)
LEMMA NamedArchive ==
  ASSUME ArchiveSound, PendingTypes, NEW key \in Keys, NEW flags \in Flags,
         UNCHANGED <<ringvars, submitted>>,
         Names(key, flags) \/ OtherNames(key, flags)
  PROVE  ArchiveSound'
<1>0. NamesAgree /\ FilesOpen /\ DOMAIN files \subseteq FileNames /\ others \subseteq FileNames
  BY DEF ArchiveSound, ArchiveTypeOK
<1>1. PICK f \in NamesOf(key) :
        /\ f \in FileNames /\ f.key = key
        /\ doubtful \subseteq doubtful' /\ doubtful' \subseteq Keys
        /\ key \notin doubtful' => \A g \in DOMAIN files \cup Settled : g.key = key => g = f
        /\ \/ pending' = Pending("named", key, f) /\ UNCHANGED others
           \/ others' = others \cup {f} /\ UNCHANGED pending
  <2>1. CASE Names(key, flags)
    <3>1. PICK f \in NamesOf(key) :
            /\ IF key \in DOMAIN groups THEN f = groups[key] /\ UNCHANGED doubtful
                                        ELSE Looks(key, flags, f)
            /\ pending' = Pending("named", key, f)
      BY <2>1 DEF Names
    <3>2. UNCHANGED others
      BY <2>1 DEF Names
    <3>3. CASE key \in DOMAIN groups
      <4>1. f = groups[key] /\ UNCHANGED doubtful
        BY <3>1, <3>3
      <4>2. f \in DOMAIN files /\ f.key = key
        BY <1>0, <3>3, <4>1 DEF FilesOpen
      <4> QED
        BY <1>0, <3>1, <3>2, <4>1, <4>2 DEF NamesAgree, ArchiveSound, ArchiveTypeOK
    <3>4. CASE key \notin DOMAIN groups
      BY <3>1, <3>2, <3>4, LookedFor
    <3> QED
      BY <3>3, <3>4
  <2>2. CASE OtherNames(key, flags)
    BY <2>2, LookedFor DEF OtherNames
  <2> QED
    BY <2>1, <2>2
<1>2. UNCHANGED <<groups, openfilecount, files>>
  BY DEF Names, OtherNames
<1>3. Settled' \subseteq Settled \cup {f}
  BY <1>1 DEF Settled, Pending
<1>4. NamesAgree'
  <2>1. ASSUME NEW g \in (DOMAIN files \cup Settled)', NEW h \in (DOMAIN files \cup Settled)',
               g.key = h.key, g.key \notin doubtful'
        PROVE  g = h
    <3>1. g \in DOMAIN files \cup Settled \cup {f} /\ h \in DOMAIN files \cup Settled \cup {f}
      BY <1>2, <1>3, <2>1
    <3>2. g.key \notin doubtful
      BY <1>1, <2>1
    <3>3. CASE g = f \/ h = f
      BY <1>1, <2>1, <3>1, <3>3
    <3>4. CASE g # f /\ h # f
      BY <1>0, <2>1, <3>1, <3>2, <3>4 DEF NamesAgree
    <3> QED
      BY <3>3, <3>4
  <2> QED
    BY <2>1 DEF NamesAgree
<1>5. ArchiveTypeOK'
  <2>1. others' \subseteq FileNames
    BY <1>0, <1>1
  <2>2. \/ pending' = NoRecord
        \/ \E step \in {"named", "archived", "skipped"}, k \in Keys, g \in FileNames :
             pending' = Pending(step, k, g)
    BY <1>1 DEF ArchiveSound, ArchiveTypeOK
  <2> QED
    BY <1>1, <1>2, <2>1, <2>2 DEF ArchiveSound, ArchiveTypeOK
<1>6. OpenFilesExact' /\ FilesOpen'
  BY <1>2 DEF ArchiveSound, OpenFilesExact, FilesOpen
<1>7. SubmittedArchived'
  <2>1. NextPktId' = NextPktId
    BY DEF ringvars, vars, NextPktId
  <2>2. pending'.step = "archived" => UNCHANGED pending
    BY <1>1 DEF Pending
  <2> QED
    BY <1>2, <2>1, <2>2 DEF ArchiveSound, SubmittedArchived
<1> QED
  BY <1>4, <1>5, <1>6, <1>7 DEF ArchiveSound

(* A record is archived.                                                   *)
LEMMA WriteArchive ==
  ASSUME ArchiveSound, PendingTypes, WriteArchives
  PROVE  ArchiveSound'
<1> DEFINE f == pending.file
<1>0. pending.step = "named" /\ Archived(NextPktId) /\ UNCHANGED <<ringvars, submitted>>
  BY DEF WriteArchives, dlvars
<1>1. pending.key \in Keys /\ f \in FileNames /\ f.key = pending.key
  BY <1>0 DEF PendingTypes, NoRecord, NamesOf, FileNames
<1>2. files' = FilesWith(f, {NextPktId})
  BY <1>0 DEF Archived
<1>3. /\ DOMAIN files' = DOMAIN files \cup {f} /\ DOMAIN files' \subseteq FileNames
      /\ \A g \in DOMAIN files : files[g] \subseteq files'[g]
      /\ {NextPktId} \subseteq files'[f]
  BY <1>1, <1>2, FilesGrow
<1>4. /\ DOMAIN groups' \subseteq Keys /\ OpenFilesExact' /\ openfilecount' \in Int
      /\ \A k \in DOMAIN groups' : \/ k \in DOMAIN groups /\ groups'[k] = groups[k]
                                   \/ k = pending.key /\ groups'[k] = f
  BY <1>0, <1>1, ArchivedGroups
<1>5. PICK k \in Keys, g \in FileNames : pending = Pending("named", k, g)
  BY <1>0 DEF ArchiveSound, ArchiveTypeOK, NoRecord, Pending
<1>6. pending' = Pending("archived", k, g) /\ g = f
  BY <1>0, <1>5 DEF Archived, Pending
<1>7. UNCHANGED <<others, doubtful>>
  BY <1>0 DEF Archived
<1>8. ArchiveTypeOK'
  BY <1>1, <1>3, <1>4, <1>6, <1>7 DEF ArchiveSound, ArchiveTypeOK
<1>9. FilesOpen'
  BY <1>1, <1>3, <1>4 DEF ArchiveSound, FilesOpen
<1>10. NamesAgree'
  <2>1. f \in Settled /\ others \subseteq Settled
    BY <1>0 DEF Settled
  <2>2. Settled' = others
    BY <1>6, <1>7 DEF Settled, Pending
  <2> QED
    BY <1>3, <1>7, <2>1, <2>2 DEF ArchiveSound, NamesAgree
<1>11. SubmittedArchived'
  <2>1. NextPktId' = NextPktId
    BY <1>0 DEF ringvars, vars, NextPktId
  <2>2. pending'.file = f
    BY <1>6 DEF Pending
  <2> QED
    BY <1>0, <1>3, <2>1, <2>2 DEF ArchiveSound, SubmittedArchived
<1> QED
  BY <1>4, <1>8, <1>9, <1>10, <1>11 DEF ArchiveSound

(* Another connection opens a file it has settled on.                      *)
LEMMA OpenedArchive ==
  ASSUME ArchiveSound, NEW f \in others, OtherOpens(f), UNCHANGED <<ringvars, submitted>>
  PROVE  ArchiveSound'
<1>1. f \in FileNames /\ files' = FilesWith(f, {})
  BY DEF ArchiveSound, ArchiveTypeOK, OtherOpens
<1>2. /\ DOMAIN files' = DOMAIN files \cup {f} /\ DOMAIN files' \subseteq FileNames
      /\ \A g \in DOMAIN files : files[g] \subseteq files'[g]
  BY <1>1, FilesGrow
<1>3. UNCHANGED <<groups, openfilecount, pending, doubtful>> /\ others' \subseteq others
  BY DEF OtherOpens
<1>4. (DOMAIN files \cup Settled)' \subseteq DOMAIN files \cup Settled
  BY <1>2, <1>3 DEF Settled
<1>5. NamesAgree'
  BY <1>3, <1>4 DEF ArchiveSound, NamesAgree
<1>6. NextPktId' = NextPktId
  BY DEF ringvars, vars, NextPktId
<1>7. SubmittedArchived'
  BY <1>2, <1>3, <1>6 DEF ArchiveSound, SubmittedArchived
<1> QED
  BY <1>2, <1>3, <1>5, <1>7 DEF ArchiveSound, ArchiveTypeOK, OpenFilesExact, FilesOpen

(* The packet of an archived record is added to the ring.                  *)
LEMMA RingArchive ==
  ASSUME ArchiveSound, PendingTypes, WriteRing
  PROVE  ArchiveSound'
<1>1. /\ pending' = NoRecord /\ pending'.step = "none"
      /\ UNCHANGED <<groups, openfilecount, files, others, doubtful>>
  BY DEF WriteRing, NoRecord, diskvars
<1>2. (DOMAIN files \cup Settled)' \subseteq DOMAIN files \cup Settled
  BY <1>1 DEF Settled
<1>3. NamesAgree'
  BY <1>1, <1>2 DEF ArchiveSound, NamesAgree
<1>4. SubmittedArchived'
  <2>1. CASE pending.step = "skipped"
    BY <1>1, <2>1 DEF WriteRing, ArchiveSound, SubmittedArchived
  <2>2. CASE pending.step = "archived"
    <3>1. submitted' = [i \in DOMAIN submitted \cup {NextPktId} |->
                          IF i = NextPktId THEN pending.key ELSE submitted[i]]
      BY <2>2 DEF WriteRing
    <3>2. pending.file \in DOMAIN files /\ NextPktId \in files[pending.file]
      BY <2>2 DEF ArchiveSound, SubmittedArchived
    <3>3. pending.file.key = pending.key
      BY <2>2 DEF PendingTypes, NoRecord, NamesOf
    <3>4. ASSUME NEW i \in DOMAIN submitted'
          PROVE  \E g \in DOMAIN files : g.key = submitted'[i] /\ i \in files[g]
      <4>1. CASE i = NextPktId
        BY <3>1, <3>2, <3>3, <4>1
      <4>2. CASE i # NextPktId
        <5>1. i \in DOMAIN submitted /\ submitted'[i] = submitted[i]
          BY <3>1, <4>2
        <5> QED
          BY <5>1 DEF ArchiveSound, SubmittedArchived
      <4> QED
        BY <4>1, <4>2
    <3> QED
      BY <1>1, <3>4 DEF SubmittedArchived
  <2> QED
    BY <2>1, <2>2 DEF WriteRing
<1> QED
  BY <1>1, <1>3, <1>4 DEF ArchiveSound, ArchiveTypeOK, OpenFilesExact, FilesOpen

(* No step leaves an open file uncounted, a key with two files for no      *)
(* reason, or a packet that was accepted without its record.               *)
LEMMA ArchivePreserved ==
  ASSUME SInv, SNext
  PROVE  ArchiveSound'
<1>0. ArchiveSound /\ PendingTypes /\ DOMAIN files \subseteq FileNames
  BY DEF SInv, ArchiveSound, ArchiveTypeOK
<1>1. ASSUME UNCHANGED <<archivevars, submitted>>, NextPktId' = NextPktId \/ pending = NoRecord
      PROVE  ArchiveSound'
  <2>1. UNCHANGED <<groups, openfilecount, pending, files, others, doubtful, submitted>>
    BY <1>1 DEF archivevars, diskvars
  <2>2. Settled' = Settled
    BY <2>1 DEF Settled
  <2>3. SubmittedArchived'
    BY <1>0, <1>1, <2>1 DEF ArchiveSound, SubmittedArchived, NoRecord
  <2> QED
    BY <1>0, <2>1, <2>2, <2>3 DEF ArchiveSound, ArchiveTypeOK, OpenFilesExact, NamesAgree, FilesOpen
<1>2. ASSUME ArchiveShutdown, UNCHANGED <<diskvars, submitted>>
      PROVE  ArchiveSound'
  BY <1>0, <1>2, ShutdownArchive DEF diskvars
<1>3. ASSUME UNCHANGED ringvars
      PROVE  NextPktId' = NextPktId
  BY <1>3 DEF ringvars, vars, NextPktId
<1>4. CASE SConnect \/ SSearch \/ SStopped
  BY <1>1, <1>3, <1>4 DEF SConnect, Connect, SSearch, SearchStep, SStopped, svars, dlvars
<1>5. CASE SSubmit
  <2>1. pending = NoRecord
    BY <1>0, <1>5 DEF SSubmit, PendingTypes
  <2> QED
    BY <1>1, <1>5, <2>1 DEF SSubmit, dlvars
<1>6. CASE SLeave
  BY <1>2, <1>6 DEF SLeave, dlvars
<1>7. CASE SeedLinkSteps /\ UNCHANGED <<archivevars, dlvars>>
  BY <1>1, <1>3, <1>7, SeedLinkRing DEF dlvars
<1>8. CASE SOther
  <2>1. CASE \E key \in Keys, flags \in Flags : OtherNames(key, flags)
    BY <1>0, <1>8, <2>1, NamedArchive DEF SOther, dlvars
  <2>2. CASE \E f \in others : OtherOpens(f)
    BY <1>0, <1>8, <2>2, OpenedArchive DEF SOther, dlvars
  <2> QED
    BY <1>8, <2>1, <2>2 DEF SOther
<1>9. CASE DataLinkSteps
  <2>1. CASE DLAuth \/ DLUnrecognized
    <3>1. UNCHANGED ringvars
      BY <2>1 DEF DLAuth, DLUnrecognized, Auth, AuthSucceeds, ClientError, Handled
    <3> QED
      BY <1>1, <1>2, <1>3, <2>1, <3>1 DEF DLAuth, DLUnrecognized, dlvars
  <2>2. CASE \/ PositionEarliest \/ PositionSet \/ PositionAfterEmpty
             \/ (\E t \in RefTimes : PositionAfter(t))
             \/ PositionAfterDone \/ Match \/ Reject \/ Read \/ ReadNothing \/ Stream
             \/ StreamPackets
    <3>1. Unwritten /\ UNCHANGED ringvars
      BY <2>2 DEF PositionEarliest, PositionSet, PositionAfterEmpty, PositionAfter,
         PositionAfterDone, Match, Reject, Read, ReadNothing, Stream, StreamPackets, Command,
         Handled
    <3> QED
      BY <1>1, <1>3, <3>1 DEF Unwritten, dlvars
  <2>3. CASE Refused \/ WriteRefused
    BY <1>2, <2>3 DEF Refused, WriteRefused, DLClosed, dlvars
  <2>4. ASSUME NEW key \in Keys, NEW flags \in Flags, WriteNames(key.stream, key, flags)
        PROVE  ArchiveSound'
    BY <1>0, <2>4, NamedArchive DEF WriteNames, dlvars
  <2>5. ASSUME NEW key \in Keys, NEW flags \in Flags, WriteSkips(key.stream, key, flags)
        PROVE  ArchiveSound'
    <3>1. /\ pending' = Pending("skipped", key, FileForRecord(key, flags))
          /\ UNCHANGED <<groups, openfilecount, files, others, doubtful, submitted>>
      BY <2>5 DEF WriteSkips, diskvars, dlvars
    <3>2. FileForRecord(key, flags) \in FileNames /\ pending'.step = "skipped"
      BY <3>1 DEF FileForRecord, FileNames, Pending
    <3>3. (DOMAIN files \cup Settled)' \subseteq DOMAIN files \cup Settled
      BY <3>1, <3>2 DEF Settled
    <3>4. NamesAgree'
      BY <1>0, <3>1, <3>3 DEF ArchiveSound, NamesAgree
    <3>5. ArchiveTypeOK'
      BY <1>0, <3>1, <3>2 DEF ArchiveSound, ArchiveTypeOK
    <3> QED
      BY <1>0, <3>1, <3>2, <3>4, <3>5 DEF ArchiveSound, OpenFilesExact, FilesOpen, SubmittedArchived
  <2>6. CASE WriteArchives
    BY <1>0, <2>6, WriteArchive
  <2>7. CASE WriteArchiveFails
    <3>1. ArchiveFails /\ ArchiveShutdown /\ UNCHANGED submitted /\ pending.step = "named"
      BY <2>7 DEF WriteArchiveFails, dlvars
    <3>2. CASE files' = files
      BY <1>2, <3>1, <3>2 DEF ArchiveFails, diskvars
    <3>3. CASE files' = FilesWith(pending.file, {})
      <4>1. pending.file \in FileNames /\ pending.file \in Settled
        BY <1>0, <3>1 DEF PendingTypes, NoRecord, NamesOf, FileNames, Settled
      <4>2. /\ DOMAIN files' = DOMAIN files \cup {pending.file}
            /\ DOMAIN files' \subseteq FileNames
            /\ \A g \in DOMAIN files : files[g] \subseteq files'[g]
        BY <1>0, <3>3, <4>1, FilesGrow
      <4> QED
        BY <1>0, <3>1, <4>1, <4>2, ShutdownArchive DEF ArchiveFails
    <3> QED
      BY <3>1, <3>2, <3>3 DEF ArchiveFails
  <2>8. CASE WriteRing
    BY <1>0, <2>8, RingArchive
  <2>9. CASE WriteRingFails
    BY <1>2, <2>9 DEF WriteRingFails
  <2> QED
    BY <1>9, <2>1, <2>2, <2>3, <2>4, <2>5, <2>6, <2>7, <2>8, <2>9 DEF DataLinkSteps
<1> QED
  BY <1>4, <1>5, <1>6, <1>7, <1>8, <1>9 DEF SNext

(* A record is being added only while its writer is connected.             *)
LEMMA PendingPreserved ==
  ASSUME SInv, SNext
  PROVE  PendingTypes'
<1>0. PendingTypes /\ UNCHANGED client
  BY RingFrame DEF SInv
<1>1. ASSUME UNCHANGED pending, Connected => Connected'
      PROVE  PendingTypes'
  BY <1>0, <1>1 DEF PendingTypes
<1>2. ASSUME pending' = NoRecord
      PROVE  PendingTypes'
  BY <1>2 DEF PendingTypes
<1>3. CASE SConnect \/ SSubmit \/ SOther \/ SSearch \/ SStopped
  BY <1>1, <1>3 DEF SConnect, Connect, SSubmit, Submit, SOther, OtherNames, OtherOpens, SSearch,
     SStopped, svars, connvars, archivevars, Connected
<1>4. CASE SLeave
  BY <1>2, <1>4 DEF SLeave, ArchiveShutdown
<1>5. CASE SeedLinkSteps /\ UNCHANGED <<archivevars, dlvars>>
  <2>1. SLClient
    BY <1>5 DEF SeedLinkSteps, SLProto, SLAuth, SLUnrecognized, Station, StationData,
       StationTime, AllData, AllTime, End, SLSearchDone, SLStreamPacket, SLWindowEnd,
       SLDialupEnd, SLNothing, Agreed, Negotiating, SLStreaming
  <2>2. pending = NoRecord
    BY <1>0, <2>1 DEF PendingTypes, SLClient
  <2> QED
    BY <1>2, <1>5, <2>2 DEF archivevars
<1>6. CASE DataLinkSteps
  <2>1. CASE DLAuth \/ DLUnrecognized
    BY <1>1, <1>2, <2>1 DEF DLAuth, DLUnrecognized, Connected, ArchiveShutdown, archivevars
  <2>2. CASE \/ PositionEarliest \/ PositionSet \/ PositionAfterEmpty
             \/ (\E t \in RefTimes : PositionAfter(t))
             \/ PositionAfterDone \/ Match \/ Reject \/ ReadNothing
    <3>1. Command
      BY <2>2 DEF PositionEarliest, PositionSet, PositionAfterEmpty, PositionAfter,
         PositionAfterDone, Match, Reject, ReadNothing
    <3> QED
      BY <1>1, <3>1 DEF Command, Unwritten, archivevars, Connected
  <2>3. CASE Read \/ Stream \/ StreamPackets
    BY <1>1, <2>3 DEF Read, Stream, StreamPackets, Unwritten, archivevars, Connected
  <2>4. CASE Refused \/ WriteRefused \/ WriteArchiveFails \/ WriteRing \/ WriteRingFails
    BY <1>2, <2>4 DEF Refused, WriteRefused, DLClosed, WriteArchiveFails, WriteRing,
       WriteRingFails, ArchiveShutdown
  <2>5. ASSUME NEW key \in Keys, NEW flags \in Flags,
               WriteNames(key.stream, key, flags) \/ WriteSkips(key.stream, key, flags)
        PROVE  PendingTypes'
    <3>1. client.protocol = "writer" /\ Connected /\ UNCHANGED state
      BY <2>5 DEF WriteNames, WriteSkips, Writing
    <3>2. \E step \in {"named", "skipped"}, f \in NamesOf(key) : pending' = Pending(step, key, f)
      BY <2>5 DEF WriteNames, Names, WriteSkips, FileForRecord, NamesOf
    <3> QED
      BY <1>0, <3>1, <3>2 DEF PendingTypes, Pending, Connected
  <2>6. CASE WriteArchives
    <3>1. PICK k \in Keys, g \in FileNames : pending = Pending("named", k, g)
      BY <2>6 DEF WriteArchives, SInv, ArchiveSound, ArchiveTypeOK, NoRecord, Pending
    <3>2. pending' = Pending("archived", k, g) /\ UNCHANGED state
      BY <2>6, <3>1 DEF WriteArchives, Archived, Pending
    <3>3. client.protocol = "writer" /\ Connected /\ g \in NamesOf(k)
      BY <1>0, <3>1 DEF PendingTypes, Pending, NoRecord
    <3> QED
      BY <1>0, <3>2, <3>3 DEF PendingTypes, Pending, Connected
  <2> QED
    BY <1>6, <2>1, <2>2, <2>3, <2>4, <2>5, <2>6 DEF DataLinkSteps
<1> QED
  BY <1>3, <1>4, <1>5, <1>6 DEF SNext


-----------------------------------------------------------------------------
(* The searches by time.                                                   *)

SearchSound ==
  /\ SearchTypes
  /\ AtPlace
  /\ ForwardScan
  /\ ReverseKept
  /\ ReverseScan
  /\ ReverseFound

(* Without a search there is nothing to be said.                           *)
LEMMA IdleSearch ==
  ASSUME DOMAIN search' = DOMAIN NoSearch, search'.pc = "idle"
  PROVE  SearchSound'
BY DEF SearchSound, SearchTypes, AtPlace, ForwardScan, ReverseKept, ReverseScan, ReverseFound,
   InTime

\* Packet o' of the next state is packet o: it has its stream, ID and stamp.
SamePacket(o) ==
  /\ slot'[o].pktid = slot[o].pktid
  /\ slot'[o].pkttime = slot[o].pkttime
  /\ slot'[o].streamid = slot[o].streamid

(* A packet that stays in the ring stays one that matches, or that does    *)
(* not, and one that ends the search or does not.                          *)
LEMMA SameMatch ==
  ASSUME NEW o, SamePacket(o), UNCHANGED <<sel, datatime>>, search'.ref = search.ref
  PROVE  /\ TimeMatches(o)' <=> TimeMatches(o)
         /\ SelectedStream(slot[o].streamid)' <=> SelectedStream(slot[o].streamid)
         /\ (DataStart(o) < search.ref)' <=> DataStart(o) < search.ref
BY DEF SamePacket, TimeMatches, SelectedStream, Allowed, DataEnd, DataStart

(* The stamps in the ring span less than its size.                         *)
LEMMA RingSpan ==
  ASSUME IInv, Numbered, latestoffset >= 0
  PROVE  /\ earliestoffset \in Live /\ latestoffset \in Live
         /\ last_pkttime \in Nat /\ MaxPackets \in Nat /\ MaxPackets >= 2
         /\ slot[latestoffset].pkttime = last_pkttime
         /\ Oldest \in Nat
         /\ \A o \in Live : /\ slot[o].pkttime \in Nat /\ slot[o].pkttime <= last_pkttime
                            /\ Oldest <= slot[o].pkttime
                            /\ slot[o].pkttime < Oldest + MaxPackets
                            /\ o # earliestoffset => Oldest < slot[o].pkttime
         /\ last_pkttime < Oldest + MaxPackets
<1>1. /\ earliestoffset \in Live /\ latestoffset \in Live
      /\ earliestoffset \in Offsets /\ latestoffset \in Offsets
      /\ last_pkttime \in Nat /\ MaxPackets \in Nat /\ MaxPackets >= 2
  BY EndsLive, RingAssumption DEF IInv, TypeOK
<1>2. \A o \in Live : slot[o].pkttime \in Nat /\ slot[o].pkttime <= last_pkttime
  BY LiveTyped
<1>3. slot[latestoffset].pkttime = last_pkttime
  <2>1. RankFrom(latestoffset, latestoffset) = 0
    BY <1>1, RingAssumption DEF RankFrom, Offsets
  <2> QED
    BY <1>1, <1>2, <2>1 DEF Numbered
<1>4. Oldest \in Nat /\ last_pkttime < Oldest + MaxPackets
  <2>1. /\ RankFrom(earliestoffset, latestoffset) \in Nat
        /\ RankFrom(earliestoffset, latestoffset) < MaxPackets
    BY <1>1, RingAssumption DEF RankFrom, Offsets
  <2>2. Oldest + RankFrom(earliestoffset, latestoffset) = last_pkttime
    BY <1>1 DEF Numbered, Oldest
  <2>3. Oldest \in Nat
    BY <1>1, <1>2 DEF Oldest
  <2> QED
    BY <1>1, <2>1, <2>2, <2>3
<1>5. ASSUME NEW o \in Live
      PROVE  /\ Oldest <= slot[o].pkttime /\ slot[o].pkttime < Oldest + MaxPackets
             /\ o # earliestoffset => Oldest < slot[o].pkttime
  <2>1. o = earliestoffset \/ Oldest < slot[o].pkttime
    BY EarliestIsOldest DEF Oldest
  <2>2. slot[o].pkttime \in Nat /\ slot[o].pkttime <= last_pkttime
    BY <1>2
  <2>3. o = earliestoffset => slot[o].pkttime = Oldest
    BY DEF Oldest
  <2> QED
    BY <1>1, <1>4, <2>1, <2>2, <2>3
<1> QED
  BY <1>1, <1>2, <1>3, <1>4, <1>5

(* A packet written during a search leaves the packet the search is at, or *)
(* replaces it as the oldest of a full ring.                               *)
LEMMA WriteAtSearch ==
  ASSUME IInv, Numbered, NEW s \in Streams, RingWrite(s, 0, RINGID_NONE), latestoffset >= 0
  PROVE  /\ Oldest \in Nat /\ Oldest <= Oldest' /\ Oldest' \in Nat
         /\ \A o \in Live : \/ o \in Kept /\ slot'[o].pkttime = slot[o].pkttime
                            \/ /\ slot'[o].pkttime = slot[o].pkttime + MaxPackets
                               /\ slot[o].pkttime < Oldest'
<1>0. /\ IInv' /\ Numbered'
      /\ last_pkttime' = last_pkttime + 1
      /\ Live' = Kept \cup {TargetOffset} /\ Live \subseteq Live' /\ Kept \subseteq Live
      /\ TargetOffset \notin Kept
      /\ slot'[TargetOffset].pkttime = last_pkttime + 1
      /\ \A i \in Kept : slot'[i].pkttime = slot[i].pkttime
  BY WriteNumbered
<1>1. /\ earliestoffset \in Live /\ last_pkttime \in Nat /\ MaxPackets \in Nat
      /\ Oldest \in Nat
      /\ \A o \in Live : /\ slot[o].pkttime \in Nat /\ slot[o].pkttime <= last_pkttime
                         /\ Oldest <= slot[o].pkttime
                         /\ o # earliestoffset => Oldest < slot[o].pkttime
  BY RingSpan
<1>2. earliestoffset' \in Live'
  <2>1. latestoffset' \in Offsets /\ earliestoffset' \in Offsets
    BY SearchAssumption, WriteWindow
  <2> QED
    BY <2>1, BetweenMember, RingAssumption DEF Live, Offsets
<1>3. /\ Oldest' \in Nat /\ Oldest <= Oldest'
      /\ earliestoffset \notin Kept => Oldest < Oldest'
  <2>1. CASE earliestoffset' = TargetOffset
    <3>1. Oldest' = last_pkttime + 1
      BY <1>0, <2>1 DEF Oldest
    <3>2. Oldest <= last_pkttime
      BY <1>1 DEF Oldest
    <3> QED
      BY <1>1, <3>1, <3>2
  <2>2. CASE earliestoffset' # TargetOffset
    <3>1. /\ earliestoffset' \in Kept /\ earliestoffset' \in Live
          /\ Oldest' = slot[earliestoffset'].pkttime
      BY <1>0, <1>2, <2>2 DEF Oldest
    <3> QED
      BY <1>1, <3>1
  <2> QED
    BY <2>1, <2>2
<1>4. ASSUME NEW o \in Live, o \notin Kept
      PROVE  slot'[o].pkttime = slot[o].pkttime + MaxPackets /\ slot[o].pkttime < Oldest'
  <2>1. Full /\ o = earliestoffset /\ o = TargetOffset /\ Kept = Live \ {earliestoffset}
    BY <1>0, <1>4 DEF Kept, Full
  <2>2. earliestoffset \in Offsets /\ latestoffset \in Offsets
    BY EndsLive
  <2>3. NextOffset(latestoffset) = earliestoffset
    BY <2>1 DEF TargetOffset
  <2>4. RankFrom(o, latestoffset) = MaxPackets - 1
    BY <2>1, <2>2, <2>3, RingAssumption DEF NextOffset, RankFrom, Offsets
  <2>5. slot[o].pkttime + RankFrom(o, latestoffset) = last_pkttime
    BY DEF Numbered
  <2>6. slot[o].pkttime + MaxPackets = last_pkttime + 1
    BY <1>1, <2>4, <2>5
  <2>7. slot[o].pkttime < Oldest'
    BY <1>3, <2>1 DEF Oldest
  <2> QED
    BY <1>0, <2>1, <2>6, <2>7
<1> QED
  BY <1>0, <1>1, <1>3, <1>4

(* Packets written during a search disturb nothing it has established.     *)
LEMMA SearchWrite ==
  ASSUME SInv, Numbered, NEW s \in Streams, RingWrite(s, 0, RINGID_NONE), UNCHANGED rsvars,
         search.pc # "idle"
  PROVE  SearchSound'
<1> DEFINE at == search.at
<1>0. /\ IInv /\ SearchSound /\ SearchTypes
      /\ search' = search /\ pktlimit' = pktlimit /\ sel' = sel /\ datatime' = datatime
  BY DEF SInv, RingSound, SearchSound, rsvars
<1>1. /\ last_pkttime' = last_pkttime + 1
      /\ Live' = Kept \cup {TargetOffset} /\ Live \subseteq Live' /\ Kept \subseteq Live
      /\ slot'[TargetOffset].pkttime = last_pkttime + 1
      /\ \A i \in Kept : SamePacket(i)
  BY <1>0, WriteNumbered DEF SamePacket
<1>2. \A i \in Kept : /\ TimeMatches(i)' <=> TimeMatches(i)
                      /\ SelectedStream(slot[i].streamid)' <=> SelectedStream(slot[i].streamid)
                      /\ (DataStart(i) < search.ref)' <=> DataStart(i) < search.ref
                      /\ slot'[i].pkttime = slot[i].pkttime
  BY <1>0, <1>1, SameMatch DEF SamePacket
<1>3. /\ at \in Live /\ search.began \in Nat /\ search.began <= last_pkttime
      /\ last_pkttime \in Nat /\ MaxPackets \in Nat /\ MaxPackets >= 2
      /\ search.count \in Nat /\ search.count < MaxPackets /\ search.oldest \in Nat
      /\ latestoffset >= 0
  <2>1. at \in Live
    BY <1>0 DEF SearchTypes
  <2>2. latestoffset >= 0
    BY <1>0, <2>1, LiveTyped
  <2> QED
    BY <1>0, <2>1, <2>2, RingAssumption DEF SearchTypes, IInv, TypeOK
<1>4. /\ Oldest \in Nat /\ Oldest <= Oldest' /\ Oldest' \in Nat
      /\ \A o \in Live : \/ o \in Kept /\ slot'[o].pkttime = slot[o].pkttime
                         \/ /\ slot'[o].pkttime = slot[o].pkttime + MaxPackets
                            /\ slot[o].pkttime < Oldest'
  BY <1>0, <1>3, WriteAtSearch
<1>5. \A o \in Live : slot[o].pkttime \in Nat /\ slot[o].pkttime <= last_pkttime
  BY <1>0, LiveTyped
<1>6. (Forward' <=> Forward) /\ Place' = Place /\ Place \in Int /\ (Searching' <=> Searching)
  BY <1>0, <1>3 DEF Forward, Place, Searching
<1>7. ASSUME InTime'
      PROVE  /\ InTime /\ Oldest' <= Place
             /\ \A o \in Live : Place <= slot[o].pkttime => o \in Kept
  <2>1. Oldest' <= Place
    BY <1>4, <1>6, <1>7 DEF InTime, Overtaken, Oldest
  <2>2. Oldest <= Place
    BY <1>4, <1>6, <2>1
  <2>3. InTime
    BY <1>4, <1>6, <2>2 DEF InTime, Overtaken, Oldest
  <2>4. ASSUME NEW o \in Live, Place <= slot[o].pkttime
        PROVE  o \in Kept
    BY <1>4, <1>5, <1>6, <2>1, <2>4
  <2> QED
    BY <2>1, <2>3, <2>4
<1>8. SearchTypes'
  <2>1. search.began <= last_pkttime'
    BY <1>1, <1>3
  <2> QED
    BY <1>0, <1>1, <1>3, <1>6, <2>1 DEF SearchTypes
<1>9. AtPlace'
  <2>1. Time = Place \/ Time >= Place + MaxPackets
    BY <1>0 DEF SearchSound, AtPlace
  <2>2. Time' = Time \/ Time' = Time + MaxPackets
    BY <1>0, <1>3, <1>4 DEF Time
  <2>3. Time \in Nat
    BY <1>3, <1>5 DEF Time
  <2> QED
    BY <1>3, <1>6, <2>1, <2>2, <2>3 DEF AtPlace
<1>10. ForwardScan'
  <2> SUFFICES ASSUME Forward, InTime'
               PROVE  /\ \A o \in Live' : TimeMatches(o)' => Place <= slot'[o].pkttime
                      /\ search.pc = "check" => search.found = search.at /\ search.pkttime = Place
    BY <1>0, <1>6 DEF ForwardScan
  <2>1. InTime
    BY <1>7
  <2>2. /\ \A o \in Live : TimeMatches(o) => Place <= slot[o].pkttime
        /\ search.pc = "check" => search.found = search.at /\ search.pkttime = Place
    BY <1>0, <2>1 DEF SearchSound, ForwardScan
  <2>3. ASSUME NEW o \in Live', TimeMatches(o)'
        PROVE  Place <= slot'[o].pkttime
    <3>1. CASE o \in Kept
      BY <1>1, <1>2, <2>2, <2>3, <3>1
    <3>2. CASE o = TargetOffset
      <4>1. Place <= Time \/ Time >= Place + MaxPackets
        BY <1>0, <1>3, <1>5, <1>6 DEF SearchSound, AtPlace, Time
      <4>2. InTime => Oldest <= Place
        BY <1>4, <1>6 DEF InTime, Overtaken, Oldest
      <4>3. Oldest + MaxPackets > Time
        BY <1>0, <1>3, RingSpan DEF Time
      <4>4. Time \in Nat /\ Time <= last_pkttime
        BY <1>3, <1>5 DEF Time
      <4> QED
        BY <1>1, <1>3, <1>4, <1>6, <2>1, <3>2, <4>1, <4>2, <4>3, <4>4
    <3> QED
      BY <1>1, <2>3, <3>1, <3>2
  <2> QED
    BY <2>2, <2>3
<1>11. ReverseKept'
  <2> SUFFICES ASSUME ~Forward, InTime', search.found >= 0
               PROVE  /\ search.found \in Live' /\ slot'[search.found].pkttime = search.pkttime
                      /\ Place <= search.pkttime /\ search.pkttime <= search.began
                      /\ Searching => Place < search.pkttime
    BY <1>0, <1>6 DEF ReverseKept
  <2>1. /\ search.found \in Live /\ slot[search.found].pkttime = search.pkttime
        /\ Place <= search.pkttime /\ search.pkttime <= search.began
        /\ Searching => Place < search.pkttime
    BY <1>0, <1>7 DEF SearchSound, ReverseKept
  <2>2. search.found \in Kept
    BY <1>7, <2>1
  <2> QED
    BY <1>1, <1>2, <2>1, <2>2
<1>12. ReverseScan'
  <2> SUFFICES ASSUME ~Forward, InTime', Searching, NEW o \in Live', TimeMatches(o)',
                      slot'[o].pkttime <= search.began, Place < slot'[o].pkttime
               PROVE  search.found >= 0 /\ search.pkttime <= slot'[o].pkttime
    BY <1>0, <1>6 DEF ReverseScan
  <2>1. o \in Kept
    BY <1>1, <1>3
  <2>2. TimeMatches(o) /\ o \in Live /\ slot'[o].pkttime = slot[o].pkttime
    BY <1>1, <1>2, <2>1
  <2> QED
    BY <1>0, <1>7, <2>2 DEF SearchSound, ReverseScan
<1>13. ReverseFound'
  <2> SUFFICES ASSUME ~Forward, InTime', search.pc = "check", NEW o \in Live', Eligible(o)'
               PROVE  search.pkttime <= slot'[o].pkttime
    BY <1>0, <1>6 DEF ReverseFound
  <2>1. slot'[o].pkttime <= search.began
    BY <1>0 DEF Eligible
  <2>2. o \in Kept
    BY <1>1, <1>3, <2>1
  <2>3. o \in Live /\ slot'[o].pkttime = slot[o].pkttime
    BY <1>1, <1>2, <2>2
  <2>4. TimeMatches(o) /\ slot[o].pkttime <= search.began
    BY <1>2, <2>1, <2>2, <2>3 DEF Eligible, TimeMatches
  <2>5. WithinReverse(o)
    <3>1. WithinReverse(o)'
      BY <1>6 DEF Eligible
    <3>2. search.began - slot[o].pkttime < pktlimit
      BY <1>0, <2>3, <3>1 DEF WithinReverse
    <3>3. ASSUME NEW w \in Live, SelectedStream(slot[w].streamid), DataStart(w) < search.ref,
                 slot[o].pkttime < slot[w].pkttime, slot[w].pkttime <= search.began
          PROVE  FALSE
      <4>1. w \in Kept
        <5>1. CASE Full
          <6>1. Kept = Live \ {earliestoffset}
            BY <5>1 DEF Kept, Full
          <6>2. slot[earliestoffset].pkttime < slot[o].pkttime
            BY <1>0, <1>3, <2>2, <6>1, EarliestIsOldest
          <6>3. slot[earliestoffset].pkttime \in Nat
            BY <1>4 DEF Oldest
          <6>4. w # earliestoffset
            BY <1>5, <2>3, <3>3, <6>2, <6>3
          <6> QED
            BY <6>1, <6>4
        <5>2. CASE ~Full
          BY <5>2 DEF Kept
        <5> QED
          BY <5>1, <5>2
      <4>2. /\ w \in Live' /\ SelectedStream(slot[w].streamid)' /\ (DataStart(w) < search.ref)'
            /\ slot'[w].pkttime = slot[w].pkttime
        BY <1>1, <1>2, <3>3, <4>1
      <4> QED
        BY <1>0, <2>3, <3>1, <3>3, <4>2 DEF WithinReverse
    <3> QED
      BY <3>2, <3>3 DEF WithinReverse
  <2>6. Eligible(o)
    BY <2>4, <2>5 DEF Eligible, TimeMatches
  <2> QED
    BY <1>0, <1>7, <2>3, <2>6 DEF SearchSound, ReverseFound
<1> QED
  BY <1>8, <1>9, <1>10, <1>11, <1>12, <1>13 DEF SearchSound


(* The slot after a packet that is not the latest holds the packet with    *)
(* the next number; the slot before one that is not the earliest, the one  *)
(* with the number before.                                                 *)
LEMMA Neighbours ==
  ASSUME IInv, Numbered, NEW o \in Live
  PROVE  /\ o # latestoffset => /\ NextOffset(o) \in Live
                                /\ slot[NextOffset(o)].pkttime = slot[o].pkttime + 1
         /\ o # earliestoffset => /\ PrevOffset(o) \in Live
                                  /\ slot[PrevOffset(o)].pkttime = slot[o].pkttime - 1
<1>1. latestoffset >= 0 /\ o \in Offsets
  BY LiveTyped
<1>2. earliestoffset \in Offsets /\ latestoffset \in Offsets
  BY <1>1, EndsLive
<1>3. \A p \in Live : slot[p].pkttime \in Nat /\ slot[p].pkttime + RankFrom(p, latestoffset) = last_pkttime
  BY LiveTyped DEF Numbered
<1>4. last_pkttime \in Nat
  BY RingAssumption DEF IInv, TypeOK
<1>5. ASSUME o # latestoffset
      PROVE  NextOffset(o) \in Live /\ slot[NextOffset(o)].pkttime = slot[o].pkttime + 1
  <2>1. NextOffset(o) \in Offsets
    BY <1>1, NextOffsetType
  <2>2. NextOffset(o) \in Live
    BY <1>1, <1>2, <1>5, <2>1, BetweenMember, RingAssumption DEF Live, NextOffset, Offsets
  <2>3. /\ RankFrom(o, latestoffset) = RankFrom(NextOffset(o), latestoffset) + 1
        /\ RankFrom(NextOffset(o), latestoffset) \in Nat
    BY <1>1, <1>2, <1>5, RingAssumption DEF RankFrom, NextOffset, Offsets
  <2> DEFINE r == RankFrom(NextOffset(o), latestoffset)
             n == NextOffset(o)
  <2>4. slot[o].pkttime + (r + 1) = last_pkttime /\ slot[n].pkttime + r = last_pkttime
        /\ slot[o].pkttime \in Nat /\ slot[n].pkttime \in Nat /\ r \in Nat
    BY <1>3, <2>2, <2>3
  <2> HIDE DEF r, n
  <2>5. slot[n].pkttime = slot[o].pkttime + 1
    BY <1>4, <2>4
  <2> QED
    BY <2>2, <2>5 DEF n
<1>6. ASSUME o # earliestoffset
      PROVE  PrevOffset(o) \in Live /\ slot[PrevOffset(o)].pkttime = slot[o].pkttime - 1
  <2>1. PrevOffset(o) \in Offsets
    BY <1>1, RingAssumption DEF PrevOffset, Offsets
  <2>2. PrevOffset(o) \in Live
    BY <1>1, <1>2, <1>6, <2>1, BetweenMember, RingAssumption DEF Live, PrevOffset, Offsets
  <2>3. /\ RankFrom(PrevOffset(o), latestoffset) = RankFrom(o, latestoffset) + 1
        /\ RankFrom(o, latestoffset) \in Nat
    <3>1. PrevOffset(o) # latestoffset
      BY <1>1, <1>2, <1>6, BetweenMember, RingAssumption DEF Live, PrevOffset, Offsets
    <3> QED
      BY <1>1, <1>2, <3>1, RingAssumption DEF RankFrom, PrevOffset, Offsets
  <2> DEFINE r == RankFrom(o, latestoffset)
             n == PrevOffset(o)
  <2>4. slot[n].pkttime + (r + 1) = last_pkttime /\ slot[o].pkttime + r = last_pkttime
        /\ slot[o].pkttime \in Nat /\ slot[n].pkttime \in Nat /\ r \in Nat
    BY <1>3, <2>2, <2>3
  <2> HIDE DEF r, n
  <2>5. slot[n].pkttime = slot[o].pkttime - 1
    BY <1>4, <2>4
  <2> QED
    BY <2>2, <2>5 DEF n
<1> QED
  BY <1>5, <1>6

(* A search begins at an end of the ring.                                  *)
LEMMA SearchBegins ==
  ASSUME IInv, Numbered, pktlimit \in 0 .. MaxPackets, latestoffset >= 0, NEW ref, NEW whence,
         search' = BeginSearch(ref, whence), UNCHANGED <<ringvars, pktlimit>>
  PROVE  SearchSound'
<1>1. /\ search'.pc = "scan" /\ search'.count = 0 /\ search'.found = -1
      /\ search'.began = last_pkttime /\ search'.oldest = Oldest
      /\ search'.at = IF Forward THEN earliestoffset ELSE latestoffset
      /\ DOMAIN search' = DOMAIN NoSearch
  BY DEF BeginSearch, NoSearch, Oldest
<1>2. /\ earliestoffset \in Live /\ latestoffset \in Live
      /\ last_pkttime \in Nat /\ MaxPackets \in Nat /\ MaxPackets >= 2
      /\ slot[latestoffset].pkttime = last_pkttime
      /\ Oldest \in Nat
      /\ \A o \in Live : /\ slot[o].pkttime \in Nat /\ slot[o].pkttime <= last_pkttime
                         /\ Oldest <= slot[o].pkttime
      /\ last_pkttime < Oldest + MaxPackets
  BY RingSpan
<1>3. /\ slot' = slot /\ Live' = Live /\ last_pkttime' = last_pkttime /\ (Forward' <=> Forward)
      /\ pktlimit' = pktlimit
  BY DEF ringvars, vars, Live, Forward
<1>4. SearchTypes'
  BY <1>1, <1>2, <1>3 DEF SearchTypes
<1>5. Place' = IF Forward THEN Oldest ELSE last_pkttime
  BY <1>1, <1>2, <1>3 DEF Place
<1>6. Time' = Place'
  BY <1>1, <1>2, <1>3, <1>5 DEF Time, Oldest
<1>7. AtPlace'
  BY <1>6 DEF AtPlace
<1>8. ForwardScan'
  <2>1. CASE Forward
    <3>1. \A o \in Live' : Place' <= slot'[o].pkttime
      BY <1>2, <1>3, <1>5, <2>1
    <3> QED
      BY <1>1, <3>1 DEF ForwardScan
  <2>2. CASE ~Forward
    BY <1>3, <2>2 DEF ForwardScan
  <2> QED
    BY <2>1, <2>2
<1>9. ReverseScan'
  <2>1. CASE ~Forward
    <3>1. \A o \in Live' : ~(Place' < slot'[o].pkttime)
      BY <1>2, <1>3, <1>5, <2>1
    <3> QED
      BY <3>1 DEF ReverseScan
  <2>2. CASE Forward
    BY <1>3, <2>2 DEF ReverseScan
  <2> QED
    BY <2>1, <2>2
<1>10. ReverseKept' /\ ReverseFound'
  BY <1>1 DEF ReverseKept, ReverseFound
<1> QED
  BY <1>4, <1>7, <1>8, <1>9, <1>10 DEF SearchSound


\* A search in a ring that is sound.
SearchState ==
  /\ IInv /\ Numbered /\ SearchSound
  /\ pktlimit \in 0 .. MaxPackets
  /\ search.pc # "idle"

\* What the steps of a search have in common.
SearchFrame ==
  /\ SearchState
  /\ UNCHANGED <<ringvars, datatime, pktlimit, sel>>
  /\ DOMAIN search' = DOMAIN NoSearch
  /\ search'.began = search.began /\ search'.ref = search.ref /\ search'.oldest = search.oldest
  /\ search.pc \in {"scan", "sample"}

(* A search that is not overtaken is at the packet that was there when it  *)
(* began.                                                                  *)
LEMMA StateFacts ==
  ASSUME SearchState
  PROVE  /\ \A o \in Live : /\ slot[o].pkttime \in Nat /\ slot[o].pkttime <= last_pkttime
                            /\ Oldest <= slot[o].pkttime
                            /\ slot[o].pkttime < Oldest + MaxPackets
         /\ slot[latestoffset].pkttime = last_pkttime /\ Oldest \in Nat
         /\ search.at \in Live /\ search.began \in Nat /\ search.began <= last_pkttime
         /\ search.oldest \in Nat /\ search.began < search.oldest + MaxPackets
         /\ search.count \in Nat /\ search.count < MaxPackets
         /\ ~Forward /\ pktlimit > 0 => search.count < pktlimit
         /\ search.found \in Offsets \cup {-1}
         /\ search.found >= 0 => search.pktid \in PktIds /\ search.pkttime \in 0 .. MaxTime
         /\ MaxPackets \in Nat /\ last_pkttime \in Nat /\ MaxTime \in Nat /\ pktlimit \in Nat
         /\ \A o, p \in Live : slot[o].pkttime = slot[p].pkttime => o = p
         /\ Time \in Nat /\ Place \in Int
         /\ InTime <=> Time = Place
         /\ InTime <=> Oldest <= Place
<1>1. SearchTypes /\ AtPlace /\ IInv /\ Numbered
  BY DEF SearchState, SearchSound
<1>2. /\ search.at \in Live /\ search.began \in Nat /\ search.began <= last_pkttime
      /\ search.oldest \in Nat /\ search.began < search.oldest + MaxPackets
      /\ search.count \in Nat /\ search.count < MaxPackets
      /\ ~Forward /\ pktlimit > 0 => search.count < pktlimit
      /\ search.found \in Offsets \cup {-1}
      /\ search.found >= 0 => search.pktid \in PktIds /\ search.pkttime \in 0 .. MaxTime
  BY <1>1 DEF SearchState, SearchTypes
<1>3. latestoffset >= 0
  BY <1>1, <1>2, LiveTyped
<1>4. /\ last_pkttime \in Nat /\ MaxPackets \in Nat
      /\ slot[latestoffset].pkttime = last_pkttime
      /\ Oldest \in Nat
      /\ \A o \in Live : /\ slot[o].pkttime \in Nat /\ slot[o].pkttime <= last_pkttime
                         /\ Oldest <= slot[o].pkttime
                         /\ slot[o].pkttime < Oldest + MaxPackets
  BY <1>1, <1>3, RingSpan
<1>5. \A o, p \in Live : slot[o].pkttime = slot[p].pkttime => o = p
  BY <1>1, StampsDiffer
<1>6. Time \in Nat /\ Place \in Int
  BY <1>2, <1>4 DEF Time, Place
<1>7. Time = Place \/ Time >= Place + MaxPackets
  BY <1>1 DEF SearchState, AtPlace
<1>8. InTime <=> Oldest <= Place
  BY <1>4, <1>6 DEF SearchState, InTime, Overtaken, Oldest
<1>9. Oldest <= Time /\ Time < Oldest + MaxPackets
  BY <1>2, <1>4 DEF Time
<1>10. InTime <=> Time = Place
  BY <1>4, <1>6, <1>7, <1>8, <1>9
<1>11. MaxTime \in Nat /\ pktlimit \in Nat
  BY <1>4, RingAssumption DEF SearchState
<1> QED
  BY <1>2, <1>4, <1>5, <1>6, <1>8, <1>10, <1>11

(* A search looks at the same ring from step to step.                      *)
LEMMA FrameFacts ==
  ASSUME SearchFrame
  PROVE  /\ slot' = slot /\ Live' = Live /\ last_pkttime' = last_pkttime /\ Oldest' = Oldest
         /\ pktlimit' = pktlimit /\ (Forward' <=> Forward)
         /\ \A o : /\ TimeMatches(o)' <=> TimeMatches(o)
                   /\ Eligible(o)' <=> Eligible(o)
         /\ InTime' => ~(Oldest > Place')
         /\ search.at \in Offsets /\ search.at >= 0
         /\ slot[search.at].pktid \in PktIds /\ slot[search.at].pkttime \in 0 .. MaxTime
         /\ Time = slot[search.at].pkttime
<1>0. SearchState /\ IInv
  BY DEF SearchFrame, SearchState
<1>1. /\ slot' = slot /\ Live' = Live /\ last_pkttime' = last_pkttime /\ sel' = sel
      /\ datatime' = datatime /\ earliestoffset' = earliestoffset /\ pktlimit' = pktlimit
      /\ search'.began = search.began /\ search'.ref = search.ref
  BY DEF SearchFrame, ringvars, vars, Live
<1>2. \A o : SamePacket(o)
  BY <1>1 DEF SamePacket
<1>3. \A o : /\ TimeMatches(o)' <=> TimeMatches(o)
             /\ SelectedStream(slot[o].streamid)' <=> SelectedStream(slot[o].streamid)
             /\ (DataStart(o) < search.ref)' <=> DataStart(o) < search.ref
  BY <1>1, <1>2, SameMatch
<1>4. Forward' <=> Forward
  BY <1>1 DEF Forward
<1>5. \A o : Eligible(o)' <=> Eligible(o)
  <2>1. \A o : WithinReverse(o)' <=> WithinReverse(o)
    BY <1>1, <1>3 DEF WithinReverse
  <2> QED
    BY <1>1, <1>3, <1>4, <2>1 DEF Eligible, TimeMatches
<1>6. Oldest' = Oldest
  BY <1>1 DEF Oldest
<1>7. InTime' => ~(Oldest > Place')
  BY <1>6 DEF InTime, Overtaken, Oldest
<1>8. /\ search.at \in Offsets /\ search.at >= 0
      /\ slot[search.at].pktid \in PktIds /\ slot[search.at].pkttime \in 0 .. MaxTime
  <2>1. search.at \in Offsets /\ search.at >= 0
    BY <1>0, StateFacts, LiveTyped, RingAssumption DEF Offsets
  <2>2. slot[search.at] \in Packet
    BY <1>0, <2>1 DEF IInv, TypeOK
  <2> QED
    BY <2>1, <2>2 DEF Packet
<1> QED
  BY <1>1, <1>3, <1>4, <1>5, <1>6, <1>7, <1>8 DEF Time

(* RingAfter() goes on to the next packet.                                 *)
LEMMA ForwardOnward ==
  ASSUME SearchFrame, Forward, search.pc = "scan", ~TimeMatches(search.at), ~LastForward,
         search' = Onward(search)
  PROVE  SearchSound'
<1> DEFINE n == NextOffset(search.at)
<1> USE StateFacts, FrameFacts
<1>s. SearchState
  BY DEF SearchFrame
<1>0. /\ search'.at = n /\ search'.count = search.count + 1 /\ search'.pc = "scan"
      /\ search'.found = search.found /\ search'.pktid = search.pktid
      /\ search'.pkttime = search.pkttime /\ search'.began = search.began
      /\ search'.oldest = search.oldest /\ DOMAIN search' = DOMAIN NoSearch
  BY DEF SearchFrame, SearchState, SearchSound, SearchTypes, NoSearch, Onward
<1>1. n \in Live /\ slot[n].pkttime = Time + 1
  BY <1>s, Neighbours DEF SearchState, LastForward
<1>2. SearchTypes'
  <2>1. search.count + 1 \in Nat /\ search.count + 1 < MaxPackets
    BY <1>s DEF LastForward
  <2> QED
    BY <1>s, <1>0, <1>1, <2>1 DEF SearchTypes
<1>3. Time' = Time + 1 /\ Place' = Place + 1
  <2>1. Place = search.oldest + search.count /\ Place' = search.oldest + (search.count + 1)
    BY <1>0 DEF Place
  <2> QED
    BY <1>s, <1>0, <1>1, <2>1 DEF Time
<1>4. AtPlace'
  <2>1. Time = Place \/ Time >= Place + MaxPackets
    BY <1>s DEF SearchState, SearchSound, AtPlace
  <2> QED
    BY <1>s, <1>3, <2>1 DEF AtPlace
<1>5. ASSUME InTime'
      PROVE  InTime /\ Time = Place
  <2>1. Time + 1 < Oldest + MaxPackets
    BY <1>s, <1>1
  <2>2. Time = Place \/ Time >= Place + MaxPackets
    BY <1>s DEF SearchState, SearchSound, AtPlace
  <2>3. Oldest <= Place + 1
    BY <1>s, <1>3, <1>5
  <2> QED
    BY <1>s, <2>1, <2>2, <2>3
<1>6. ForwardScan'
  <2> SUFFICES ASSUME InTime', NEW o \in Live, TimeMatches(o)
               PROVE  Place + 1 <= slot[o].pkttime
    BY <1>0, <1>3 DEF ForwardScan
  <2>1. Place <= slot[o].pkttime
    BY <1>s, <1>5 DEF SearchState, SearchSound, ForwardScan
  <2>2. slot[o].pkttime # Time
    BY <1>s
  <2> QED
    BY <1>s, <1>5, <2>1, <2>2
<1> QED
  BY <1>0, <1>2, <1>4, <1>6 DEF SearchSound, ReverseKept, ReverseScan, ReverseFound

(* RingAfterRev() goes on to the packet before, having passed over a       *)
(* packet that does not match or having sampled one that does.             *)
LEMMA ReverseOnward ==
  ASSUME SearchFrame, ~Forward, ~LastReverse, pktlimit > 0,
         search'.at = PrevOffset(search.at), search'.count = search.count + 1,
         search'.pc = "scan",
         \/ /\ ~TimeMatches(search.at)
            /\ search'.found = search.found /\ search'.pkttime = search.pkttime
            /\ search'.pktid = search.pktid
         \/ /\ search'.found = search.at /\ search'.pkttime = slot[search.at].pkttime
            /\ search'.pktid = slot[search.at].pktid
  PROVE  SearchSound'
<1> DEFINE n == PrevOffset(search.at)
<1> USE StateFacts, FrameFacts
<1>s. SearchState /\ search'.began = search.began /\ search'.oldest = search.oldest /\ Searching
  BY DEF SearchFrame, Searching
<1>1. n \in Live /\ slot[n].pkttime = Time - 1
  BY <1>s, Neighbours DEF SearchState, LastReverse
<1>2. SearchTypes'
  <2>1. search.count + 1 # pktlimit /\ pktlimit <= MaxPackets /\ search.count < pktlimit
    BY <1>s DEF LastReverse, SearchState
  <2>2. search.count + 1 \in Nat /\ search.count + 1 < MaxPackets /\ search.count + 1 < pktlimit
    BY <1>s, <2>1
  <2>3. /\ search'.found \in Offsets \cup {-1}
        /\ search'.found >= 0 => search'.pktid \in PktIds /\ search'.pkttime \in 0 .. MaxTime
    BY <1>s
  <2> QED
    BY <1>s, <1>1, <2>2, <2>3 DEF SearchTypes, SearchFrame
<1>3. Time' = Time - 1 /\ Place' = Place - 1
  <2>1. Place = search.began - search.count /\ Place' = search.began - (search.count + 1)
    BY <1>s DEF Place
  <2> QED
    BY <1>s, <1>1, <2>1 DEF Time
<1>4. AtPlace'
  <2>1. Time = Place \/ Time >= Place + MaxPackets
    BY <1>s DEF SearchState, SearchSound, AtPlace
  <2> QED
    BY <1>s, <1>3, <2>1 DEF AtPlace
<1>5. ASSUME InTime'
      PROVE  InTime /\ Time = Place
  <2>1. Oldest <= Place - 1
    BY <1>s, <1>3, <1>5
  <2> QED
    BY <1>s, <2>1
<1>6. Place <= search.began
  BY <1>s DEF Place
<1>7. ReverseKept'
  <2> SUFFICES ASSUME InTime', search'.found >= 0
               PROVE  /\ search'.found \in Live /\ slot[search'.found].pkttime = search'.pkttime
                      /\ search'.pkttime <= search.began /\ Place <= search'.pkttime
    <3>1. ASSUME NEW x \in 0 .. MaxTime, Place <= x
          PROVE  Place - 1 <= x /\ Place - 1 < x
      BY <1>s, <3>1
    <3>2. search'.found >= 0 => search'.pkttime \in 0 .. MaxTime
      BY <1>2 DEF SearchTypes
    <3> QED
      BY <1>s, <1>3, <3>1, <3>2 DEF ReverseKept
  <2>1. CASE search'.found = search.found /\ search'.pkttime = search.pkttime
    BY <1>s, <1>5, <2>1 DEF SearchState, SearchSound, ReverseKept
  <2>2. CASE search'.found = search.at /\ search'.pkttime = slot[search.at].pkttime
    BY <1>s, <1>5, <1>6, <2>2
  <2> QED
    BY <2>1, <2>2
<1>8. ReverseScan'
  <2> SUFFICES ASSUME InTime', NEW o \in Live, TimeMatches(o),
                      slot[o].pkttime <= search.began, Place - 1 < slot[o].pkttime
               PROVE  search'.found >= 0 /\ search'.pkttime <= slot[o].pkttime
    BY <1>s, <1>3 DEF ReverseScan
  <2>0. Place <= slot[o].pkttime
    BY <1>s
  <2>1. CASE /\ ~TimeMatches(search.at)
             /\ search'.found = search.found /\ search'.pkttime = search.pkttime
    <3>1. slot[o].pkttime # Time
      BY <1>s, <2>1
    <3>2. Place < slot[o].pkttime
      BY <1>s, <1>5, <2>0, <3>1
    <3> QED
      BY <1>s, <1>5, <2>1, <3>2 DEF SearchState, SearchSound, ReverseScan
  <2>2. CASE search'.found = search.at /\ search'.pkttime = slot[search.at].pkttime
    BY <1>s, <1>5, <2>0, <2>2
  <2> QED
    BY <2>1, <2>2
<1> QED
  BY <1>2, <1>4, <1>7, <1>8 DEF SearchSound, ForwardScan, ReverseFound

(* A packet eligible is not older than the last one RingAfterRev() looks   *)
(* at.                                                                     *)
LEMMA ReverseStops ==
  ASSUME SearchState, InTime, ~Forward, LastReverse, NEW o \in Live, Eligible(o)
  PROVE  Place <= slot[o].pkttime
<1> USE StateFacts
<1>1. SUFFICES ASSUME slot[o].pkttime < Place
               PROVE  FALSE
  OBVIOUS
<1>2. /\ search.began - slot[o].pkttime < pktlimit
      /\ ~\E w \in Live : /\ SelectedStream(slot[w].streamid) /\ DataStart(w) < search.ref
                          /\ slot[o].pkttime < slot[w].pkttime
                          /\ slot[w].pkttime <= search.began
  BY DEF Eligible, WithinReverse
<1>3. slot[search.at].pkttime = Place /\ Place = search.began - search.count
  BY DEF Time, Place
<1>4. CASE SelectedStream(slot[search.at].streamid) /\ DataStart(search.at) < search.ref
  <2>1. Place <= search.began
    BY <1>3
  <2> QED
    BY <1>1, <1>2, <1>3, <1>4, <2>1
<1>5. CASE search.at = earliestoffset
  BY <1>1, <1>3, <1>5 DEF Oldest
<1>6. CASE search.count + 1 = pktlimit
  BY <1>1, <1>2, <1>3, <1>6
<1> QED
  BY <1>4, <1>5, <1>6 DEF LastReverse

(* RingAfterRev() ends with the packet found last, or with the one it is   *)
(* at.                                                                     *)
LEMMA ReverseEnds ==
  ASSUME SearchFrame, ~Forward, LastReverse, pktlimit > 0, search'.pc = "check",
         search'.at = search.at, search'.count = search.count,
         \/ /\ ~TimeMatches(search.at) /\ search.found >= 0
            /\ search'.found = search.found /\ search'.pkttime = search.pkttime
            /\ search'.pktid = search.pktid
         \/ /\ search'.found = search.at /\ search'.pkttime = slot[search.at].pkttime
            /\ search'.pktid = slot[search.at].pktid
  PROVE  SearchSound'
<1> USE StateFacts, FrameFacts
<1>s. SearchState /\ search'.began = search.began /\ search'.oldest = search.oldest /\ Searching
  BY DEF SearchFrame, Searching
<1>1. SearchTypes'
  <2>1. /\ search'.found \in Offsets \cup {-1} /\ search'.found >= 0
        /\ search'.pktid \in PktIds /\ search'.pkttime \in 0 .. MaxTime
    BY <1>s
  <2> QED
    BY <1>s, <2>1 DEF SearchTypes, SearchFrame
<1>2. Time' = Time /\ Place' = Place /\ (InTime' => InTime /\ Time = Place)
  <2>1. Time' = Time /\ Place' = Place
    BY <1>s DEF Time, Place
  <2> QED
    BY <1>s, <2>1
<1>3. AtPlace'
  BY <1>s, <1>2 DEF SearchState, SearchSound, AtPlace
<1>4. Place <= search.began
  BY <1>s DEF Place
<1>5. ReverseKept'
  <2> SUFFICES ASSUME InTime'
               PROVE  /\ search'.found \in Live /\ slot[search'.found].pkttime = search'.pkttime
                      /\ search'.pkttime <= search.began /\ Place <= search'.pkttime
    BY <1>s, <1>2 DEF ReverseKept, Searching
  <2>1. CASE search.found >= 0 /\ search'.found = search.found /\ search'.pkttime = search.pkttime
    BY <1>s, <1>2, <2>1 DEF SearchState, SearchSound, ReverseKept
  <2>2. CASE search'.found = search.at /\ search'.pkttime = slot[search.at].pkttime
    BY <1>s, <1>2, <1>4, <2>2
  <2> QED
    BY <2>1, <2>2
<1>6. ReverseFound'
  <2> SUFFICES ASSUME InTime', NEW o \in Live, Eligible(o)
               PROVE  search'.pkttime <= slot[o].pkttime
    BY DEF ReverseFound
  <2>1. Place <= slot[o].pkttime
    BY <1>s, <1>2, ReverseStops
  <2>2. CASE /\ ~TimeMatches(search.at) /\ search.found >= 0
             /\ search'.found = search.found /\ search'.pkttime = search.pkttime
    <3>1. TimeMatches(o) /\ slot[o].pkttime <= search.began
      BY DEF Eligible, TimeMatches
    <3>2. slot[o].pkttime # Time
      BY <1>s, <2>2, <3>1
    <3>3. Place < slot[o].pkttime
      BY <1>s, <1>2, <2>1, <3>2
    <3> QED
      BY <1>s, <1>2, <2>2, <3>1, <3>3 DEF SearchState, SearchSound, ReverseScan
  <2>3. CASE search'.found = search.at /\ search'.pkttime = slot[search.at].pkttime
    BY <1>s, <1>2, <2>1, <2>3
  <2> QED
    BY <2>2, <2>3
<1> QED
  BY <1>1, <1>3, <1>5, <1>6 DEF SearchSound, ForwardScan, ReverseScan, Searching

(* RingAfter() samples the packet it has found.                            *)
LEMMA ForwardEnds ==
  ASSUME SearchFrame, Forward, search'.pc = "check", search'.at = search.at,
         search'.count = search.count, search'.found = search.at,
         search'.pkttime = slot[search.at].pkttime, search'.pktid = slot[search.at].pktid
  PROVE  SearchSound'
<1> USE StateFacts, FrameFacts
<1>s. SearchState /\ search'.began = search.began /\ search'.oldest = search.oldest /\ Searching
  BY DEF SearchFrame, Searching
<1>1. SearchTypes'
  BY <1>s DEF SearchTypes, SearchFrame
<1>2. Time' = Time /\ Place' = Place /\ (InTime' => InTime /\ Time = Place)
  <2>1. Time' = Time /\ Place' = Place
    BY <1>s DEF Time, Place
  <2> QED
    BY <1>s, <2>1
<1>3. AtPlace'
  BY <1>s, <1>2 DEF SearchState, SearchSound, AtPlace
<1>4. ForwardScan'
  BY <1>s, <1>2 DEF SearchState, SearchSound, ForwardScan
<1> QED
  BY <1>1, <1>3, <1>4 DEF SearchSound, ReverseKept, ReverseScan, ReverseFound

(* A packet matches; it is sampled in the next step.                       *)
LEMMA MatchFound ==
  ASSUME SearchFrame, Examines, search' = [search EXCEPT !.pc = "sample"]
  PROVE  SearchSound'
<1> USE StateFacts, FrameFacts
<1>s. SearchState /\ Searching
  BY DEF SearchFrame, Searching
<1>0. /\ search'.at = search.at /\ search'.count = search.count /\ search'.pc = "sample"
      /\ search'.found = search.found /\ search'.pktid = search.pktid
      /\ search'.pkttime = search.pkttime /\ search'.began = search.began
      /\ search'.oldest = search.oldest /\ DOMAIN search' = DOMAIN NoSearch
  BY DEF SearchFrame, SearchState, SearchSound, SearchTypes, NoSearch
<1>1. SearchTypes'
  BY <1>s, <1>0 DEF SearchTypes, Examines
<1>2. Time' = Time /\ Place' = Place /\ (InTime' => InTime) /\ Searching'
  <2>1. Time' = Time /\ Place' = Place /\ Searching'
    BY <1>s, <1>0 DEF Time, Place, Searching
  <2> QED
    BY <1>s, <2>1
<1>3. AtPlace'
  BY <1>s, <1>2 DEF SearchState, SearchSound, AtPlace
<1>4. ForwardScan' /\ ReverseKept' /\ ReverseScan'
  BY <1>s, <1>0, <1>2 DEF SearchState, SearchSound, ForwardScan, ReverseKept, ReverseScan
<1> QED
  BY <1>0, <1>1, <1>3, <1>4 DEF SearchSound, ReverseFound

(* The steps of both searches.                                             *)
LEMMA SearchStepSound ==
  ASSUME SInv, SearchStep
  PROVE  SearchSound'
<1>0. /\ search.pc \in {"scan", "sample"} /\ DOMAIN search = DOMAIN NoSearch
      /\ UNCHANGED <<ringvars, datatime, pktlimit, sel>>
  BY DEF SearchStep, SearchSkip, SearchMatch, SearchSample, Examines, SInv, SearchTypes
<1>1. IInv /\ Numbered /\ SearchSound /\ pktlimit \in 0 .. MaxPackets
  <2>1. ~shutdownsig
    BY <1>0 DEF SInv, RingSound, Phases, SLClient
  <2>2. pktlimit \in PktLimits
    BY ConnectionAssumption DEF SInv, ClientTypes
  <2> QED
    BY <2>1, <2>2, SearchAssumption DEF SInv, RingSound, SearchSound
<1>2. CASE SearchSkip /\ Forward
  <2>1. Examines /\ ~TimeMatches(search.at) /\ ~LastForward /\ search' = Onward(search)
    BY <1>2 DEF SearchSkip
  <2>2. SearchFrame
    BY <1>0, <1>1, <2>1 DEF SearchFrame, SearchState, Onward, NoSearch
  <2> QED
    BY <1>2, <2>1, <2>2, ForwardOnward DEF Examines
<1>3. CASE SearchSkip /\ ~Forward /\ ~LastReverse
  <2>1. Examines /\ ~TimeMatches(search.at) /\ search' = Onward(search) /\ pktlimit > 0
    BY <1>3 DEF SearchSkip, Examines
  <2>2. SearchFrame
    BY <1>0, <1>1, <2>1 DEF SearchFrame, SearchState, Onward, NoSearch
  <2>3. /\ search'.at = PrevOffset(search.at) /\ search'.count = search.count + 1
        /\ search'.pc = "scan" /\ search'.found = search.found
        /\ search'.pkttime = search.pkttime /\ search'.pktid = search.pktid
    BY <1>0, <1>3, <2>1 DEF Onward, NoSearch
  <2> QED
    BY <1>3, <2>1, <2>2, <2>3, ReverseOnward
<1>4. CASE SearchSkip /\ ~Forward /\ LastReverse
  <2>1. /\ Examines /\ ~TimeMatches(search.at) /\ search.found >= 0 /\ pktlimit > 0
        /\ search' = [search EXCEPT !.pc = "check"]
    BY <1>4 DEF SearchSkip, Examines
  <2>2. SearchFrame
    BY <1>0, <1>1, <2>1 DEF SearchFrame, SearchState, NoSearch
  <2>3. /\ search'.at = search.at /\ search'.count = search.count /\ search'.pc = "check"
        /\ search'.found = search.found
        /\ search'.pkttime = search.pkttime /\ search'.pktid = search.pktid
    BY <1>0, <2>1 DEF NoSearch
  <2> QED
    BY <1>4, <2>1, <2>2, <2>3, ReverseEnds
<1>5. CASE SearchMatch
  <2>1. SearchFrame
    BY <1>0, <1>1, <1>5 DEF SearchMatch, SearchFrame, SearchState, NoSearch
  <2> QED
    BY <1>5, <2>1, MatchFound DEF SearchMatch
<1>6. CASE SearchSample
  <2> DEFINE sampled == [search EXCEPT !.found = search.at, !.pktid = slot[search.at].pktid,
                                       !.pkttime = slot[search.at].pkttime]
  <2>0. /\ search.pc = "sample"
        /\ search' = IF Forward \/ LastReverse THEN [sampled EXCEPT !.pc = "check"]
                                               ELSE Onward(sampled)
    BY <1>6 DEF SearchSample
  <2>1. SearchFrame
    BY <1>0, <1>1, <2>0 DEF SearchFrame, SearchState, Onward, NoSearch
  <2>2. /\ search'.found = search.at /\ search'.pkttime = slot[search.at].pkttime
        /\ search'.pktid = slot[search.at].pktid
    BY <1>0, <2>0 DEF Onward, NoSearch
  <2>3. ~Forward => pktlimit > 0
    BY <2>0 DEF SInv, SearchTypes
  <2>4. CASE Forward \/ LastReverse
    <3>1. /\ search'.at = search.at /\ search'.count = search.count /\ search'.pc = "check"
      BY <1>0, <2>0, <2>4 DEF NoSearch
    <3> QED
      BY <2>1, <2>2, <2>3, <2>4, <3>1, ForwardEnds, ReverseEnds
  <2>5. CASE ~Forward /\ ~LastReverse
    <3>1. /\ search'.at = PrevOffset(search.at) /\ search'.count = search.count + 1
          /\ search'.pc = "scan"
      BY <1>0, <2>0, <2>5 DEF Onward, NoSearch
    <3> QED
      BY <2>1, <2>2, <2>3, <2>5, <3>1, ReverseOnward
  <2> QED
    BY <2>4, <2>5
<1> QED
  BY <1>2, <1>3, <1>4, <1>5, <1>6 DEF SearchStep


(* Where a search can begin, go on and end.                                *)
LEMMA SearchCases ==
  ASSUME SInv, SNext
  PROVE  \/ search' = NoSearch
         \/ search' = search /\ search.pc = "idle"
         \/ UNCHANGED rsvars /\ ~shutdownsig /\ \E s \in Streams : RingWrite(s, 0, RINGID_NONE)
         \/ SearchStep
         \/ /\ latestoffset >= 0 /\ client.protocol # "writer"
            /\ UNCHANGED <<ringvars, pktlimit>>
            /\ \E ref, whence : search' = BeginSearch(ref, whence)
         \/ UNCHANGED svars
<1>0. /\ Reading => search.pc = "idle" /\ client.protocol # "writer"
      /\ Writing => search.pc = "idle"
      /\ Agreed \/ SLStreaming => search.pc = "idle" /\ client.protocol # "writer"
      /\ pending # NoRecord => search.pc = "idle"
  BY DEF SInv, Phases, PendingTypes, Reading, Writing, Agreed, Negotiating, SLStreaming, SLClient
<1>1. CASE SConnect
  BY <1>1 DEF SConnect, Connect, SInv, Phases, Connected
<1>2. CASE SLeave
  BY <1>2 DEF SLeave, Leave, Closed
<1>3. CASE SSubmit
  BY <1>3 DEF SSubmit, Submit
<1>4. CASE SSearch \/ SStopped
  BY <1>4 DEF SSearch, SStopped
<1>7. CASE SOther
  BY <1>7 DEF SOther, SInv, Phases, SLClient, rsvars
<1>5. CASE DataLinkSteps
  <2>1. CASE DLAuth \/ DLUnrecognized
    BY <1>0, <2>1 DEF DLAuth, DLUnrecognized, Auth, AuthSucceeds, ClientError, Closed, rsvars
  <2>2. CASE PositionEarliest \/ PositionSet \/ PositionAfterEmpty \/ Match \/ Reject \/ Read
             \/ ReadNothing \/ Stream \/ StreamPackets
    BY <1>0, <2>2 DEF PositionEarliest, PositionSet, PositionAfterEmpty, Match, Reject, Read,
       ReadNothing, Stream, StreamPackets
  <2>3. CASE \E t \in RefTimes : PositionAfter(t)
    BY <1>0, <2>3 DEF PositionAfter, Command, Handled
  <2>4. CASE PositionAfterDone \/ Refused \/ WriteRefused
    BY <2>4 DEF PositionAfterDone, Refused, WriteRefused, DLClosed, Closed
  <2>5. ASSUME NEW key \in Keys, NEW flags \in Flags,
               WriteNames(key.stream, key, flags) \/ WriteSkips(key.stream, key, flags)
        PROVE  search' = search /\ search.pc = "idle"
    BY <1>0, <2>5 DEF WriteNames, WriteSkips, rsvars
  <2>6. CASE WriteArchiveFails \/ WriteRingFails
    BY <2>6 DEF WriteArchiveFails, WriteRingFails, Closed
  <2>7. CASE WriteArchives \/ WriteRing
    BY <1>0, <2>7 DEF WriteArchives, WriteRing, rsvars, NoRecord
  <2> QED
    BY <1>5, <2>1, <2>2, <2>3, <2>4, <2>5, <2>6, <2>7 DEF DataLinkSteps
<1>6. CASE SeedLinkSteps
  <2>1. CASE SLProto \/ SLAuth \/ SLUnrecognized
    BY <1>0, <2>1 DEF SLProto, SLAuth, SLUnrecognized, Auth, AuthSucceeds, ClientError, Closed, rsvars,
       Agreed, Negotiating, SLClient, SInv, Phases
  <2>2. CASE Station \/ StationData \/ StationTime
    BY <1>0, <2>2 DEF Station, StationData, StationTime, SetStation
  <2>3. ASSUME NEW i, Configure(i), Agreed
        PROVE  \/ search' = NoSearch
               \/ search' = search /\ search.pc = "idle"
               \/ /\ latestoffset >= 0 /\ client.protocol # "writer"
                  /\ UNCHANGED <<ringvars, pktlimit>>
                  /\ \E ref, whence : search' = BeginSearch(ref, whence)
    <3>1. CASE AuthMissing
      BY <2>3, <3>1 DEF Configure, SLClosed, Closed
    <3>2. CASE ~AuthMissing
      BY <1>0, <2>3, <3>2 DEF Configure, RingConfig
    <3> QED
      BY <3>1, <3>2
  <2>4. CASE AllData \/ AllTime \/ End
    BY <2>3, <2>4 DEF AllData, AllTime, End
  <2>5. CASE SLSearchDone \/ SLWindowEnd \/ SLDialupEnd
    BY <2>5 DEF SLSearchDone, SLWindowEnd, SLDialupEnd, SLClosed, Closed
  <2>6. CASE SLStreamPacket \/ SLNothing
    BY <1>0, <2>6 DEF SLStreamPacket, SLNothing
  <2> QED
    BY <1>6, <2>1, <2>2, <2>4, <2>5, <2>6 DEF SeedLinkSteps
<1> QED
  BY <1>1, <1>2, <1>3, <1>4, <1>5, <1>6, <1>7 DEF SNext

(* Every step keeps what a search has established.                         *)
LEMMA SearchPreserved ==
  ASSUME SInv, SNext
  PROVE  SearchSound'
<1>0. /\ IInv /\ SearchSound /\ DOMAIN search = DOMAIN NoSearch
      /\ client.protocol # "writer" => Numbered
      /\ ~shutdownsig => Numbered
  BY DEF SInv, RingSound, SearchSound, SearchTypes
<1>1. CASE search' = NoSearch
  BY <1>1, IdleSearch DEF NoSearch
<1>2. CASE search' = search /\ search.pc = "idle"
  BY <1>0, <1>2, IdleSearch
<1>3. ASSUME NEW s \in Streams, RingWrite(s, 0, RINGID_NONE), UNCHANGED rsvars, ~shutdownsig
      PROVE  SearchSound'
  <2>1. CASE search.pc = "idle"
    BY <1>0, <1>3, <2>1, IdleSearch DEF rsvars
  <2>2. CASE search.pc # "idle"
    BY <1>0, <1>3, <2>2, SearchWrite
  <2> QED
    BY <2>1, <2>2
<1>4. CASE SearchStep
  BY <1>4, SearchStepSound
<1>5. ASSUME latestoffset >= 0, client.protocol # "writer", UNCHANGED <<ringvars, pktlimit>>,
             NEW ref, NEW whence, search' = BeginSearch(ref, whence)
      PROVE  SearchSound'
  <2>1. pktlimit \in 0 .. MaxPackets
    BY ConnectionAssumption, SearchAssumption DEF SInv, ClientTypes
  <2> QED
    BY <1>0, <1>5, <2>1, SearchBegins
<1>6. CASE UNCHANGED svars
  <2>1. UNCHANGED <<slot, earliestoffset, latestoffset, last_pkttime, search, sel, datatime, pktlimit>>
    BY <1>6 DEF svars, ringvars, vars, rsvars
  <2> QED
    BY <1>0, <2>1 DEF SearchSound, SearchTypes, AtPlace, ForwardScan, ReverseKept, ReverseScan,
       ReverseFound, Searching, InTime, Overtaken, Place, Time, Eligible, WithinReverse, Forward,
       Live, TimeMatches, SelectedStream, Allowed, DataEnd, DataStart
<1> QED
  BY <1>1, <1>2, <1>3, <1>4, <1>5, <1>6, SearchCases


-----------------------------------------------------------------------------
(* SeedLink: requests and time windows.                                    *)

SeedLinkSound == SeedLinkTypes /\ Negotiated /\ WindowCounted

(* The stamp never goes back.                                              *)
LEMMA StampGrows ==
  ASSUME SInv, SNext
  PROVE  last_pkttime \in Nat /\ last_pkttime' >= last_pkttime
<1>1. last_pkttime \in Nat
  BY RingAssumption DEF SInv, RingSound, IInv, TypeOK
<1>2. CASE UNCHANGED ringvars
  BY <1>1, <1>2 DEF ringvars, vars
<1>3. CASE \E s \in Streams : RingWrite(s, 0, RINGID_NONE) \/ RingWriteError(s, 0)
  BY <1>1, <1>3 DEF RingWrite, RingWriteError, Stamp
<1> QED
  BY <1>1, <1>2, <1>3, RingFrame DEF RingSteps, SInv

(* Nothing asked for and nothing received: the end of a session.           *)
LEMMA NewSLInfoSound ==
  ASSUME SInv, SNext, sl' = NewSLInfo, UNCHANGED <<last, client>>, state' = "closed",
         reader' = NewReader
  PROVE  SeedLinkSound'
<1>1. last_pkttime \in Nat /\ last_pkttime' \in Nat /\ last_pkttime' >= last_pkttime
  BY StampGrows, RingPreserved, RingAssumption DEF RingSound, IInv, TypeOK
<1>2. /\ DOMAIN sl' = DOMAIN NewSLInfo
      /\ DOMAIN sl'.stations = {} /\ DOMAIN sl'.reached = {}
      /\ sl'.reached \in [{} -> BOOLEAN] /\ sl'.timewinchannels = 0
  BY DEF NewSLInfo
<1>3. SeedLinkTypes'
  <2>1. \A s \in Streams : last[s] <= last_pkttime'
    BY <1>1 DEF SInv, SeedLinkTypes
  <2> QED
    BY <1>2, <2>1 DEF SInv, SeedLinkTypes
<1>4. Negotiated'
  BY <1>2 DEF Negotiated, SLStreaming, NewReader
<1>5. WindowCounted'
  <2>1. NotReached' = {}
    BY <1>2 DEF NotReached
  <2> QED
    BY <1>2, <2>1, FS_EmptySet DEF WindowCounted
<1> QED
  BY <1>3, <1>4, <1>5 DEF SeedLinkSound

(* What a session keeps when SLInfo is not touched.                        *)
LEMMA SameSLInfoSound ==
  ASSUME SInv, SNext, UNCHANGED <<sl, last, client, datatime>>,
         ~SLStreaming' => ~SLStreaming /\ (SLClient => reader'.pktoffset = -1)
  PROVE  SeedLinkSound'
<1>1. last_pkttime \in Nat /\ last_pkttime' \in Nat /\ last_pkttime' >= last_pkttime
  BY StampGrows, RingPreserved, RingAssumption DEF RingSound, IInv, TypeOK
<1>2. SeedLinkTypes'
  <2>1. \A s \in Streams : last[s] <= last_pkttime'
    BY <1>1 DEF SInv, SeedLinkTypes
  <2> QED
    BY <2>1 DEF SInv, SeedLinkTypes, wanted
<1>3. Negotiated'
  <2>1. CASE SLStreaming'
    BY <2>1 DEF Negotiated
  <2>2. CASE ~SLStreaming'
    BY <2>2 DEF SInv, Negotiated, StationOk, SLClient
  <2> QED
    BY <2>1, <2>2
<1>4. WindowCounted'
  BY DEF SInv, WindowCounted, NotReached
<1> QED
  BY <1>2, <1>3, <1>4 DEF SeedLinkSound

(* SLInfo changes during negotiation: its stations are still sound, and no *)
(* packet was received.                                                    *)
LEMMA NegotiationSound ==
  ASSUME SInv, SNext, ~SLStreaming, UNCHANGED <<last, client, datatime>>,
         DOMAIN sl' = DOMAIN NewSLInfo, sl'.reached = sl.reached,
         sl'.timewinchannels = sl.timewinchannels,
         DOMAIN sl'.stations \subseteq wanted,
         ~SLStreaming' => /\ SLClient => reader'.pktoffset = -1
                          /\ \A s \in DOMAIN sl'.stations : StationOk(s)'
  PROVE  SeedLinkSound'
<1>1. last_pkttime \in Nat /\ last_pkttime' \in Nat /\ last_pkttime' >= last_pkttime
  BY StampGrows, RingPreserved, RingAssumption DEF RingSound, IInv, TypeOK
<1>2. SeedLinkTypes'
  <2>1. \A s \in Streams : last[s] <= last_pkttime'
    BY <1>1 DEF SInv, SeedLinkTypes
  <2> QED
    BY <2>1 DEF SInv, SeedLinkTypes, wanted
<1>3. Negotiated'
  BY DEF SInv, Negotiated, SLClient
<1>4. WindowCounted'
  BY DEF SInv, WindowCounted, NotReached
<1> QED
  BY <1>2, <1>3, <1>4 DEF SeedLinkSound

(* Configuring the reader changes the times and the start alone.           *)
LEMMA ConfiguredShape ==
  ASSUME NEW i, DOMAIN i = DOMAIN NewSLInfo, NEW c \in Configured(i)
  PROVE  /\ DOMAIN c = DOMAIN NewSLInfo
         /\ c.stations = i.stations /\ c.reached = i.reached
         /\ c.timewinchannels = i.timewinchannels
BY DEF Configured, NewSLInfo


(* A request is complete: the reader is configured for it.                 *)
LEMMA ConfigureSound ==
  ASSUME SInv, SNext, Agreed, NEW i, Configure(i), DOMAIN i = DOMAIN NewSLInfo,
         i.stations = sl.stations, i.reached = sl.reached,
         i.timewinchannels = sl.timewinchannels
  PROVE  SeedLinkSound'
<1>0. UNCHANGED <<client, datatime>> /\ ~SLStreaming
  BY RingFrame DEF SInv, Agreed, Negotiating, SLStreaming
<1>1. CASE AuthMissing
  BY <1>0, <1>1, NewSLInfoSound DEF Configure, SLClosed, Closed
<1>2. CASE ~AuthMissing
  <2>1. RingConfig(i)
    BY <1>2 DEF Configure
  <2>2. PICK c \in Configured(i) :
          /\ sl' = [c EXCEPT !.startid = IF c.startid = RINGID_EARLIEST /\ c.starttime # NSTUNSET
                                           THEN RINGID_NONE ELSE c.startid]
          /\ (state' = "RINGCONFIG" /\ UNCHANGED reader) \/ state' = "STREAM"
    BY <2>1 DEF RingConfig
  <2>3. /\ DOMAIN c = DOMAIN NewSLInfo
        /\ c.stations = i.stations /\ c.reached = i.reached
        /\ c.timewinchannels = i.timewinchannels
    BY <2>2, ConfiguredShape
  <2>4. /\ DOMAIN sl' = DOMAIN NewSLInfo /\ sl'.stations = sl.stations
        /\ sl'.reached = sl.reached /\ sl'.timewinchannels = sl.timewinchannels
    BY <2>2, <2>3 DEF NewSLInfo
  <2>5. last' = last
    BY <2>1 DEF RingConfig
  <2>6. ~SLStreaming' => /\ SLClient => reader'.pktoffset = -1
                         /\ \A s \in DOMAIN sl'.stations : StationOk(s)'
    <3> SUFFICES ASSUME ~SLStreaming'
                 PROVE  /\ SLClient => reader'.pktoffset = -1
                        /\ \A s \in DOMAIN sl'.stations : StationOk(s)'
      OBVIOUS
    <3>1. state' # "STREAM"
      BY <1>0 DEF SLStreaming, SLClient, Agreed, Negotiating
    <3>2. UNCHANGED reader
      BY <2>2, <3>1
    <3> QED
      BY <1>0, <2>4, <2>5, <3>2 DEF SInv, Negotiated, StationOk
  <2>7. DOMAIN sl'.stations \subseteq wanted
    BY <2>4 DEF SInv, SeedLinkTypes
  <2> QED
    BY <1>0, <2>4, <2>5, <2>6, <2>7, NegotiationSound
<1> QED
  BY <1>1, <1>2

(* A station's request is stored.                                          *)
LEMMA SetStationSound ==
  ASSUME SInv, SNext, Agreed, NEW station, NEW fetch, SetStation(station, fetch),
         sl.reqstaid \in DOMAIN sl.stations =>
           /\ DOMAIN station = DOMAIN NoStation
           /\ \/ station.packetid \in {RINGID_NONE, RINGID_EARLIEST}
              \/ /\ last[sl.reqstaid] > 0
                 /\ station.datastart \in {NSTUNSET, datatime[last[sl.reqstaid]].start}
  PROVE  SeedLinkSound'
<1>0. UNCHANGED <<client, datatime>> /\ ~SLStreaming
  BY RingFrame DEF SInv, Agreed, Negotiating, SLStreaming
<1>1. /\ sl' = [sl EXCEPT !.stations = [sl.stations EXCEPT ![sl.reqstaid] = station],
                          !.reqstaid = NoStream, !.dialup = sl.dialup \/ fetch]
      /\ UNCHANGED <<last, reader>>
  BY DEF SetStation
<1>2. DOMAIN sl = DOMAIN NewSLInfo
  BY DEF SInv, SeedLinkTypes
<1>3. /\ DOMAIN sl' = DOMAIN NewSLInfo /\ sl'.reached = sl.reached
      /\ sl'.timewinchannels = sl.timewinchannels
      /\ sl'.stations = [sl.stations EXCEPT ![sl.reqstaid] = station]
  BY <1>1, <1>2 DEF NewSLInfo
<1>4. DOMAIN sl'.stations = DOMAIN sl.stations
  BY <1>3
<1>5. ASSUME NEW s \in DOMAIN sl'.stations
      PROVE  StationOk(s)'
  <2>1. CASE s = sl.reqstaid
    <3>1. sl'.stations[s] = station
      BY <1>3, <1>4, <2>1
    <3> QED
      BY <1>0, <1>1, <1>4, <2>1, <3>1 DEF StationOk
  <2>2. CASE s # sl.reqstaid
    <3>1. sl'.stations[s] = sl.stations[s] /\ StationOk(s)
      BY <1>0, <1>3, <1>4, <2>2 DEF SInv, Negotiated
    <3> QED
      BY <1>0, <1>1, <3>1 DEF StationOk
  <2> QED
    BY <2>1, <2>2
<1>6. SLClient => reader'.pktoffset = -1
  BY <1>0, <1>1 DEF SInv, Negotiated
<1>7. DOMAIN sl'.stations \subseteq wanted
  BY <1>4 DEF SInv, SeedLinkTypes
<1> QED
  BY <1>0, <1>1, <1>3, <1>5, <1>6, <1>7, NegotiationSound

(* A request names what the client has.                                    *)
LEMMA RequestOk ==
  ASSUME NEW id, NEW r \in DataRequests(id), id \in Nat
  PROVE  \/ r.packetid = RINGID_EARLIEST
         \/ id > 0 /\ r.starttime \in {NSTUNSET, datatime[id].start}
<1>1. CASE \E i \in {id} \ {0}, t \in {NSTUNSET} \cup {datatime[j].start : j \in {id} \ {0}} :
             r = [packetid |-> ResumeID(i), starttime |-> t, endtime |-> NSTUNSET]
  BY <1>1
<1>2. CASE \E t \in SLRefTimes, e \in EndTimes \cup {NSTUNSET} :
             r = [packetid |-> RINGID_EARLIEST, starttime |-> t, endtime |-> e]
  BY <1>2
<1>3. CASE r = [packetid |-> RINGID_EARLIEST, starttime |-> NSTUNSET, endtime |-> NSTUNSET]
  BY <1>3
<1> QED
  BY <1>1, <1>2, <1>3 DEF DataRequests

(* A packet of a time window is read: the count of the streams that are    *)
(* not past its end is kept.                                               *)
LEMMA WindowStep ==
  ASSUME SeedLinkTypes, WindowCounted, NEW s \in Streams, NEW beyond \in BOOLEAN,
         sl'.reached = [t \in DOMAIN sl.reached \cup {s} |->
                          IF t = s THEN beyond \/ EndReached(s) ELSE sl.reached[t]],
         sl'.timewinchannels = WindowCount(s, beyond), WindowCount(s, beyond) > 0
  PROVE  /\ WindowCounted'
         /\ sl'.reached \in [DOMAIN sl'.reached -> BOOLEAN]
         /\ DOMAIN sl'.reached \subseteq Streams
<1>0. /\ IsFiniteSet(NotReached) /\ Cardinality(NotReached) \in Nat
      /\ sl.timewinchannels = Cardinality(NotReached)
  <2>1. NotReached \subseteq Streams /\ IsFiniteSet(Streams)
    BY RingAssumption DEF NotReached, SeedLinkTypes
  <2> QED
    BY <2>1, FS_Subset, FS_CardinalityType DEF WindowCounted
<1>1. /\ DOMAIN sl'.reached = DOMAIN sl.reached \cup {s}
      /\ sl'.reached[s] <=> (beyond \/ EndReached(s))
      /\ \A t \in DOMAIN sl.reached : t # s => sl'.reached[t] = sl.reached[t]
  OBVIOUS
<1>2. sl'.reached \in [DOMAIN sl'.reached -> BOOLEAN]
  <2>1. \A t \in DOMAIN sl.reached : sl.reached[t] \in BOOLEAN
    BY DEF SeedLinkTypes
  <2>2. (beyond \/ EndReached(s)) \in BOOLEAN
    OBVIOUS
  <2> QED
    BY <2>1, <2>2
<1>3. NotReached' = {t \in DOMAIN sl.reached \cup {s} : ~sl'.reached[t]}
  BY <1>1 DEF NotReached
<1>4. sl'.timewinchannels = Cardinality(NotReached')
  <2>1. CASE s \notin DOMAIN sl.reached
    <3>1. ~EndReached(s) /\ s \notin NotReached
      BY <2>1 DEF EndReached, NotReached
    <3>2. CASE beyond
      <4>1. NotReached' = NotReached
        BY <1>1, <1>3, <2>1, <3>2 DEF NotReached
      <4> QED
        BY <1>0, <2>1, <3>1, <3>2, <4>1 DEF WindowCount
    <3>3. CASE ~beyond
      <4>1. NotReached' = NotReached \cup {s}
        BY <1>1, <1>3, <2>1, <3>1, <3>3 DEF NotReached
      <4>2. Cardinality(NotReached \cup {s}) = Cardinality(NotReached) + 1
        BY <1>0, <3>1, FS_AddElement
      <4> QED
        BY <1>0, <2>1, <3>1, <3>3, <4>1, <4>2 DEF WindowCount
    <3> QED
      BY <3>2, <3>3
  <2>2. CASE s \in DOMAIN sl.reached /\ (EndReached(s) \/ ~beyond)
    <3>1. NotReached' = NotReached
      BY <1>1, <1>3, <2>2 DEF NotReached, EndReached
    <3> QED
      BY <1>0, <2>2, <3>1 DEF WindowCount
  <2>3. CASE s \in DOMAIN sl.reached /\ ~EndReached(s) /\ beyond
    <3>1. NotReached' = NotReached \ {s} /\ s \in NotReached
      BY <1>1, <1>3, <2>3 DEF NotReached, EndReached
    <3>2. Cardinality(NotReached \ {s}) = Cardinality(NotReached) - 1
      BY <1>0, <3>1, FS_RemoveElement
    <3> QED
      BY <1>0, <2>3, <3>1, <3>2 DEF WindowCount
  <2> QED
    BY <2>1, <2>2, <2>3
<1>5. NotReached' # {}
  BY <1>4, FS_EmptySet
<1>6. DOMAIN sl'.reached \subseteq Streams
  BY <1>1 DEF SeedLinkTypes
<1> QED
  BY <1>2, <1>4, <1>5, <1>6 DEF WindowCounted


(* Commands of a negotiation that store nothing but the protocol, or a     *)
(* station to ask about next.                                              *)
LEMMA StationStepSound ==
  ASSUME SInv, SNext, SLProto \/ Station
  PROVE  SeedLinkSound'
<1>0. /\ UNCHANGED <<client, datatime>> /\ ~SLStreaming
      /\ UNCHANGED <<last, reader>>
      /\ DOMAIN sl = DOMAIN NewSLInfo /\ DOMAIN sl.stations \subseteq wanted
      /\ SLClient => reader.pktoffset = -1
      /\ \A s \in DOMAIN sl.stations : StationOk(s)
  <2>1. ~SLStreaming /\ UNCHANGED <<last, reader>>
    BY DEF SLProto, Station, Agreed, Negotiating, SLStreaming
  <2> QED
    BY <2>1, RingFrame DEF SInv, Negotiated, SeedLinkTypes
<1>1. CASE SLProto
  <2>1. /\ DOMAIN sl' = DOMAIN NewSLInfo /\ sl'.reached = sl.reached
        /\ sl'.timewinchannels = sl.timewinchannels /\ sl'.stations = sl.stations
    BY <1>0, <1>1 DEF SLProto, NewSLInfo
  <2>2. \A s \in DOMAIN sl'.stations : StationOk(s)'
    BY <1>0, <2>1 DEF StationOk
  <2> QED
    BY <1>0, <2>1, <2>2, NegotiationSound
<1>2. CASE Station
  <2>1. wanted \ DOMAIN sl.stations # {}
    BY <1>2 DEF Station
  <2>2. PICK s \in wanted \ DOMAIN sl.stations :
          sl' = [sl EXCEPT !.reqstaid = s,
                           !.stations = [t \in DOMAIN sl.stations \cup {s} |->
                                           IF t \in DOMAIN sl.stations THEN sl.stations[t]
                                           ELSE NoStation]]
    BY <1>2, <2>1 DEF Station
  <2>3. /\ DOMAIN sl' = DOMAIN NewSLInfo /\ sl'.reached = sl.reached
        /\ sl'.timewinchannels = sl.timewinchannels
        /\ sl'.stations = [t \in DOMAIN sl.stations \cup {s} |->
                             IF t \in DOMAIN sl.stations THEN sl.stations[t] ELSE NoStation]
    BY <1>0, <2>2 DEF NewSLInfo
  <2>4. DOMAIN sl'.stations = DOMAIN sl.stations \cup {s}
    BY <2>3
  <2>5. ASSUME NEW t \in DOMAIN sl'.stations
        PROVE  StationOk(t)'
    <3>1. CASE t \in DOMAIN sl.stations
      <4>1. sl'.stations[t] = sl.stations[t] /\ StationOk(t)
        BY <1>0, <2>3, <2>4, <3>1
      <4> QED
        BY <1>0, <4>1 DEF StationOk
    <3>2. CASE t \notin DOMAIN sl.stations
      <4>1. sl'.stations[t] = NoStation
        BY <2>3, <2>4, <3>2
      <4> QED
        BY <4>1 DEF StationOk, NoStation
    <3> QED
      BY <3>1, <3>2
  <2> QED
    BY <1>0, <2>3, <2>4, <2>5, NegotiationSound
<1> QED
  BY <1>1, <1>2

(* DATA, FETCH and TIME for a station.                                     *)
LEMMA StationRequestSound ==
  ASSUME SInv, SNext, StationData \/ StationTime
  PROVE  SeedLinkSound'
<1>0. /\ Agreed /\ ~SLStreaming /\ DOMAIN sl.stations \subseteq wanted
      /\ \A s \in DOMAIN sl.stations : StationOk(s)
      /\ client \in Clients /\ last \in [Streams -> Nat]
  <2>1. Agreed /\ ~SLStreaming
    BY DEF StationData, StationTime, Agreed, Negotiating, SLStreaming
  <2> QED
    BY <2>1 DEF SInv, Negotiated, SeedLinkTypes, ClientTypes
<1>1. sl.reqstaid \in DOMAIN sl.stations => last[sl.reqstaid] \in Nat
  BY <1>0, ConnectionAssumption DEF wanted
<1>2. ASSUME NEW fetch, SetStation(sl.stations[sl.reqstaid], fetch)
      PROVE  SeedLinkSound'
  BY <1>0, <1>2, SetStationSound DEF StationOk
<1>3. ASSUME NEW fetch, NEW r \in DataRequests(last[sl.reqstaid]),
             SetStation([packetid |-> r.packetid, datastart |-> r.starttime,
                         starttime |-> r.starttime, endtime |-> r.endtime], fetch)
      PROVE  SeedLinkSound'
  <2> DEFINE station == [packetid |-> r.packetid, datastart |-> r.starttime,
                         starttime |-> r.starttime, endtime |-> r.endtime]
  <2>1. /\ DOMAIN station = DOMAIN NoStation
        /\ station.packetid = r.packetid /\ station.datastart = r.starttime
    BY DEF NoStation
  <2>2. SetStation(station, fetch)
    BY <1>3
  <2>3. sl.reqstaid \in DOMAIN sl.stations =>
          \/ r.packetid = RINGID_EARLIEST
          \/ /\ last[sl.reqstaid] > 0
             /\ r.starttime \in {NSTUNSET, datatime[last[sl.reqstaid]].start}
    BY <1>1, <1>3, RequestOk
  <2> HIDE DEF station
  <2> QED
    BY <1>0, <2>1, <2>2, <2>3, SetStationSound
<1>4. ASSUME NEW r \in TimeRequests,
             SetStation([sl.stations[sl.reqstaid] EXCEPT !.starttime = r.starttime,
                                                         !.endtime = r.endtime], FALSE)
      PROVE  SeedLinkSound'
  <2> DEFINE old == sl.stations[sl.reqstaid]
             station == [old EXCEPT !.starttime = r.starttime, !.endtime = r.endtime]
  <2>1. DOMAIN old = DOMAIN NoStation =>
          /\ DOMAIN station = DOMAIN NoStation
          /\ station.packetid = old.packetid /\ station.datastart = old.datastart
    BY DEF NoStation
  <2>2. SetStation(station, FALSE)
    BY <1>4
  <2>3. sl.reqstaid \in DOMAIN sl.stations =>
          /\ DOMAIN old = DOMAIN NoStation
          /\ \/ old.packetid \in {RINGID_NONE, RINGID_EARLIEST}
             \/ /\ last[sl.reqstaid] > 0
                /\ old.datastart \in {NSTUNSET, datatime[last[sl.reqstaid]].start}
    BY <1>0 DEF StationOk
  <2> HIDE DEF station, old
  <2> QED
    BY <1>0, <2>1, <2>2, <2>3, SetStationSound
<1> QED
  BY <1>2, <1>3, <1>4 DEF StationData, StationTime

(* DATA, TIME and END complete the request: the stations are as they were  *)
(* asked for, all of them or none.                                         *)
LEMMA Completed ==
  ASSUME SInv, AllData \/ AllTime \/ End
  PROVE  /\ Agreed
         /\ \E i : /\ Configure(i) /\ DOMAIN i = DOMAIN NewSLInfo
                  /\ i.stations = sl.stations /\ i.reached = sl.reached
                  /\ i.timewinchannels = sl.timewinchannels
         /\ wanted = {} \/ DOMAIN sl.stations = wanted
<1>0. Agreed /\ DOMAIN sl = DOMAIN NewSLInfo /\ (wanted = {} \/ DOMAIN sl.stations = wanted)
  BY DEF AllData, AllTime, End, SInv, SeedLinkTypes
<1>1. \E i : /\ Configure(i) /\ DOMAIN i = DOMAIN NewSLInfo
           /\ i.stations = sl.stations /\ i.reached = sl.reached
           /\ i.timewinchannels = sl.timewinchannels
  <2>1. CASE AllData
    <3>1. PICK fetch \in FetchOrData :
            LET i == [sl EXCEPT !.dialup = @ \/ fetch]
            IN  \/ Configure(i)
                \/ Configure([i EXCEPT !.startid = RINGID_NEXT])
                \/ \E r \in DataRequests(Newest({last[s] : s \in Streams})) :
                     Configure([i EXCEPT !.startid = r.packetid, !.starttime = r.starttime,
                                         !.endtime = r.endtime])
      BY <2>1 DEF AllData
    <3> DEFINE d == [sl EXCEPT !.dialup = @ \/ fetch]
    <3>2. /\ DOMAIN d = DOMAIN NewSLInfo /\ d.stations = sl.stations
          /\ d.reached = sl.reached /\ d.timewinchannels = sl.timewinchannels
      BY <1>0 DEF NewSLInfo
    <3>3. \/ Configure(d)
          \/ Configure([d EXCEPT !.startid = RINGID_NEXT])
          \/ \E r \in DataRequests(Newest({last[s] : s \in Streams})) :
               Configure([d EXCEPT !.startid = r.packetid, !.starttime = r.starttime,
                                   !.endtime = r.endtime])
      BY <3>1
    <3> HIDE DEF d
    <3>4. CASE Configure(d)
      BY <3>2, <3>4
    <3>5. CASE Configure([d EXCEPT !.startid = RINGID_NEXT])
      BY <3>2, <3>5 DEF NewSLInfo
    <3>6. CASE \E r \in DataRequests(Newest({last[s] : s \in Streams})) :
                 Configure([d EXCEPT !.startid = r.packetid, !.starttime = r.starttime,
                                     !.endtime = r.endtime])
      <4>1. PICK r : Configure([d EXCEPT !.startid = r.packetid, !.starttime = r.starttime,
                                         !.endtime = r.endtime])
        BY <3>6
      <4> DEFINE e == [d EXCEPT !.startid = r.packetid, !.starttime = r.starttime,
                                !.endtime = r.endtime]
      <4>2. /\ DOMAIN e = DOMAIN NewSLInfo /\ e.stations = sl.stations
            /\ e.reached = sl.reached /\ e.timewinchannels = sl.timewinchannels
        BY <3>2 DEF NewSLInfo
      <4>3. Configure(e)
        BY <4>1
      <4> HIDE DEF e
      <4> QED
        BY <4>2, <4>3
    <3> QED
      BY <3>3, <3>4, <3>5, <3>6
  <2>2. CASE AllTime
    <3>1. PICK r \in TimeRequests :
            Configure([sl EXCEPT !.starttime = r.starttime, !.endtime = r.endtime])
      BY <2>2 DEF AllTime
    <3> DEFINE e == [sl EXCEPT !.starttime = r.starttime, !.endtime = r.endtime]
    <3>2. /\ DOMAIN e = DOMAIN NewSLInfo /\ e.stations = sl.stations
          /\ e.reached = sl.reached /\ e.timewinchannels = sl.timewinchannels
      BY <1>0 DEF NewSLInfo
    <3>3. Configure(e)
      BY <3>1
    <3> HIDE DEF e
    <3> QED
      BY <3>2, <3>3
  <2>3. CASE End
    BY <1>0, <2>3 DEF End, NewSLInfo
  <2> QED
    BY <2>1, <2>2, <2>3
<1> QED
  BY <1>0, <1>1

(* What the completed request leaves of the invariant.                     *)
LEMMA CompletedSound ==
  ASSUME SInv, SNext, AllData \/ AllTime \/ End
  PROVE  SeedLinkSound'
<1>1. Agreed
  BY Completed
<1>2. PICK i : /\ Configure(i) /\ DOMAIN i = DOMAIN NewSLInfo
               /\ i.stations = sl.stations /\ i.reached = sl.reached
               /\ i.timewinchannels = sl.timewinchannels
  BY Completed
<1> QED
  BY <1>1, <1>2, ConfigureSound

(* A packet is read and, unless it is past the end of the time window,     *)
(* sent.                                                                   *)
LEMMA StreamPacketSound ==
  ASSUME SInv, SNext, SLStreamPacket
  PROVE  SeedLinkSound'
<1>0. SLStreaming /\ UNCHANGED <<client, state, datatime, last_pkttime>>
  BY DEF SLStreamPacket, ringvars, vars
<1>1. PICK o \in Live :
        LET s    == slot[o].streamid
            past == Windowed /\ (DataStart(o) > sl.endtime \/ EndReached(s))
            n    == WindowCount(s, DataStart(o) > sl.endtime)
        IN  /\ Windowed => n > 0
            /\ sl' = IF ~Windowed THEN sl
                     ELSE [sl EXCEPT !.reached = [t \in DOMAIN @ \cup {s} |->
                                                    IF t = s THEN past ELSE @[t]],
                                     !.timewinchannels = n]
            /\ last' = IF past THEN last ELSE [last EXCEPT ![s] = slot[o].pktid]
  BY DEF SLStreamPacket
<1> DEFINE s == slot[o].streamid
           beyond == DataStart(o) > sl.endtime
<1>2. s \in Streams /\ slot[o].pktid \in Nat /\ slot[o].pktid <= last_pkttime
  <2>1. IInv /\ Numbered
    BY <1>0 DEF SInv, RingSound, SLStreaming, SLClient
  <2>2. s \in Streams /\ slot[o].pkttime \in Nat /\ o \in Offsets
    BY <2>1, LiveTyped
  <2>3. latestoffset \in Offsets
    BY <2>1, LiveTyped, RingAssumption DEF IInv, TypeOK, Offsets
  <2>4. RankFrom(o, latestoffset) \in Nat
    BY <2>2, <2>3, RingAssumption DEF RankFrom, Offsets
  <2>5. slot[o].pktid = slot[o].pkttime /\ slot[o].pkttime + RankFrom(o, latestoffset) = last_pkttime
    BY <2>1 DEF Numbered
  <2>6. last_pkttime \in Nat
    BY <2>1, RingAssumption DEF IInv, TypeOK
  <2> QED
    BY <2>2, <2>4, <2>5, <2>6
<1>3. last' \in [Streams -> Nat] /\ \A t \in Streams : last'[t] <= last_pkttime'
  <2>1. last \in [Streams -> Nat] /\ \A t \in Streams : last[t] <= last_pkttime
    BY DEF SInv, SeedLinkTypes
  <2>2. last' = last \/ last' = [last EXCEPT ![s] = slot[o].pktid]
    BY <1>1
  <2> HIDE DEF s
  <2> QED
    BY <1>0, <1>2, <2>1, <2>2
<1>4. DOMAIN sl = DOMAIN NewSLInfo /\ DOMAIN sl.stations \subseteq wanted
  BY DEF SInv, SeedLinkTypes
<1>5. SLStreaming'
  BY <1>0 DEF SLStreaming, SLClient
<1>6. CASE ~Windowed
  <2>1. sl' = sl
    BY <1>1, <1>6
  <2>2. SeedLinkTypes' /\ WindowCounted'
    BY <1>0, <1>3, <2>1 DEF SInv, SeedLinkTypes, WindowCounted, NotReached, wanted
  <2> QED
    BY <1>5, <2>2 DEF SeedLinkSound, Negotiated
<1>7. CASE Windowed
  <2>1. /\ WindowCount(s, beyond) > 0
        /\ sl' = [sl EXCEPT !.reached = [t \in DOMAIN sl.reached \cup {s} |->
                                           IF t = s THEN beyond \/ EndReached(s) ELSE sl.reached[t]],
                            !.timewinchannels = WindowCount(s, beyond)]
    BY <1>1, <1>7
  <2>2. /\ DOMAIN sl' = DOMAIN NewSLInfo /\ sl'.stations = sl.stations
        /\ sl'.reached = [t \in DOMAIN sl.reached \cup {s} |->
                            IF t = s THEN beyond \/ EndReached(s) ELSE sl.reached[t]]
        /\ sl'.timewinchannels = WindowCount(s, beyond)
    BY <1>4, <2>1 DEF NewSLInfo
  <2>3. beyond \in BOOLEAN
    OBVIOUS
  <2> HIDE DEF s, beyond
  <2>4. SeedLinkTypes /\ WindowCounted
    BY DEF SInv
  <2>5. /\ WindowCounted'
        /\ sl'.reached \in [DOMAIN sl'.reached -> BOOLEAN]
        /\ DOMAIN sl'.reached \subseteq Streams
    BY <1>2, <2>1, <2>2, <2>3, <2>4, WindowStep
  <2>6. SeedLinkTypes'
    BY <1>0, <1>3, <1>4, <2>2, <2>5 DEF SeedLinkTypes, wanted
  <2> QED
    BY <1>5, <2>5, <2>6 DEF SeedLinkSound, Negotiated
<1> QED
  BY <1>6, <1>7

(* Every step of a session keeps what SeedLink's request and window are.   *)
LEMMA SeedLinkPreserved ==
  ASSUME SInv, SNext
  PROVE  SeedLinkSound'
<1>0. UNCHANGED <<client, datatime>>
  BY RingFrame DEF SInv
<1>1. ASSUME UNCHANGED <<sl, last, reader, state>>
      PROVE  SeedLinkSound'
  BY <1>0, <1>1, SameSLInfoSound DEF SInv, Negotiated, SLStreaming, SLClient
<1>2. ASSUME SLClosed
      PROVE  SeedLinkSound'
  BY <1>0, <1>2, NewSLInfoSound DEF SLClosed, Closed
<1>3. CASE SConnect
  <2>1. UNCHANGED <<sl, last, reader>> /\ ~SLStreaming
    BY <1>3 DEF SConnect, Connect, Connected, SLStreaming, slvars
  <2> QED
    BY <1>0, <2>1, SameSLInfoSound DEF SInv, Negotiated
<1>4. CASE SLeave
  BY <1>0, <1>4, NewSLInfoSound DEF SLeave, Leave, Closed
<1>5. CASE SSubmit \/ SOther \/ SSearch \/ SStopped
  BY <1>1, <1>5 DEF SSubmit, Submit, SOther, SSearch, SearchStep, SStopped, svars, slvars, rsvars, connvars
<1>6. CASE DataLinkSteps /\ UNCHANGED slvars
  <2>1. ~SLClient
    BY <1>6 DEF SInv, PendingTypes, NoRecord, SLClient, DataLinkSteps, DLAuth, DLUnrecognized, PositionEarliest, PositionSet,
       PositionAfterEmpty, PositionAfter, PositionAfterDone, Match, Reject, Refused, Read,
       ReadNothing, Stream, StreamPackets, WriteRefused, WriteNames, WriteSkips,
       WriteArchives, WriteArchiveFails, WriteRing, WriteRingFails, Reading, Writing
  <2>2. ~SLStreaming
    BY <2>1 DEF SLStreaming
  <2> QED
    BY <1>0, <1>6, <2>1, <2>2, SameSLInfoSound DEF slvars
<1>7. CASE SLAuth \/ SLUnrecognized
  <2>1. last' = last
    BY <1>7 DEF SLAuth, SLUnrecognized
  <2>2. CASE state' = "closed"
    <3>1. sl' = NewSLInfo
      BY <1>7, <2>2 DEF SLAuth, SLUnrecognized
    <3>2. state # "closed"
      BY <1>7 DEF SLAuth, SLUnrecognized, Agreed, Negotiating, SLStreaming
    <3>3. reader' = NewReader
      BY <1>7, <2>2, <3>2 DEF SLAuth, SLUnrecognized, Auth, AuthSucceeds, ClientError, Closed
    <3> QED
      BY <1>0, <2>1, <2>2, <3>1, <3>3, NewSLInfoSound
  <2>3. CASE state' # "closed"
    <3>1. UNCHANGED <<sl, reader, state>>
      BY <1>7, <2>3 DEF SLAuth, SLUnrecognized, Auth, AuthSucceeds, ClientError, Closed, rsvars
    <3> QED
      BY <1>1, <2>1, <3>1
  <2> QED
    BY <2>2, <2>3
<1>8. CASE SLProto \/ Station
  BY <1>8, StationStepSound
<1>9. CASE StationData \/ StationTime
  BY <1>9, StationRequestSound
<1>10. CASE AllData \/ AllTime \/ End
  BY <1>10, CompletedSound
<1>11. CASE SLSearchDone
  BY <1>0, <1>11, SameSLInfoSound DEF SLSearchDone, slvars, SLStreaming, SLClient
<1>12. CASE SLStreamPacket
  BY <1>12, StreamPacketSound
<1>13. CASE SLWindowEnd \/ SLDialupEnd
  BY <1>2, <1>13 DEF SLWindowEnd, SLDialupEnd
<1>14. CASE SLNothing
  BY <1>0, <1>14, SameSLInfoSound DEF SLNothing, slvars, SLStreaming, SLClient
<1> QED
  BY <1>3, <1>4, <1>5, <1>6, <1>7, <1>8, <1>9, <1>10, <1>11, <1>12, <1>13, <1>14
     DEF SNext, SeedLinkSteps

-----------------------------------------------------------------------------
(* The invariant.                                                          *)

(* A server that has just started, without a connection.                   *)
LEMMA SInitSatisfies == SInit => SInv
<1> SUFFICES ASSUME SInit
             PROVE  SInv
  OBVIOUS
<1> USE DEF SInit, ConnectionInit, SearchInit
<1>1. IInv
  BY InitSatisfies
<1>2. RingSound
  <2>1. Live = {}
    BY RingAssumption DEF Init, Live, Between, Offsets
  <2>2. Numbered
    BY <2>1 DEF Numbered, Init
  <2>3. ~shutdownsig
    BY DEF DataLinkInit
  <2> QED
    BY <1>1, <2>2, <2>3 DEF RingSound
<1>3. ClientTypes
  BY ConnectionAssumption, RingAssumption DEF ClientTypes, NewReader
<1>4. Phases /\ Entitled /\ ReadsPermitted
  BY DEF Phases, Entitled, ReadsPermitted, NoSearch
<1>5. SearchTypes
  BY DEF SearchTypes, NoSearch
<1>6. AtPlace /\ ForwardScan /\ ReverseKept /\ ReverseScan /\ ReverseFound
  BY DEF AtPlace, ForwardScan, ReverseKept, ReverseScan, ReverseFound, InTime, NoSearch
<1>7. ArchiveSound
  <2>1. /\ DOMAIN groups = {} /\ openfilecount = 0 /\ pending = NoRecord /\ DOMAIN files = {}
        /\ others = {} /\ doubtful = {} /\ DOMAIN submitted = {}
    BY DEF DataLinkInit, ArchiveInit
  <2>2. ArchiveTypeOK /\ OpenFilesExact
    BY <2>1, FS_EmptySet DEF ArchiveTypeOK, OpenFilesExact
  <2>3. NamesAgree /\ SubmittedArchived
    BY <2>1 DEF NamesAgree, Settled, SubmittedArchived, NoRecord
  <2>4. FilesOpen
    BY <2>1 DEF FilesOpen
  <2> QED
    BY <2>2, <2>3, <2>4 DEF ArchiveSound
<1>9. PendingTypes
  BY DEF PendingTypes, DataLinkInit, ArchiveInit
<1>8. SeedLinkTypes /\ Negotiated /\ WindowCounted
  <2>1. last \in [Streams -> Nat] /\ \A s \in Streams : last[s] = 0
    BY DEF SeedLinkInit
  <2>2. last_pkttime = 0
    BY DEF Init
  <2>3. /\ DOMAIN sl = DOMAIN NewSLInfo
        /\ DOMAIN sl.stations = {} /\ DOMAIN sl.reached = {}
        /\ sl.reached \in [{} -> BOOLEAN] /\ sl.timewinchannels = 0
    BY DEF SeedLinkInit, NewSLInfo
  <2>4. NotReached = {}
    BY <2>3 DEF NotReached
  <2> QED
    BY <2>1, <2>2, <2>3, <2>4, FS_EmptySet DEF SeedLinkTypes, Negotiated, WindowCounted, NewReader
<1> QED
  BY <1>2, <1>3, <1>4, <1>5, <1>6, <1>7, <1>8, <1>9 DEF SInv

(* Every step keeps every part of the invariant.                           *)
LEMMA SNextPreserves ==
  ASSUME SInv, SNext
  PROVE  SInv'
<1>1. RingSound'
  BY RingPreserved
<1>2. SessionInv'
  BY SessionPreserved
<1>3. SearchSound'
  BY SearchPreserved
<1>4. ArchiveSound'
  BY ArchivePreserved
<1>5. SeedLinkSound'
  BY SeedLinkPreserved
<1>6. PendingTypes'
  BY PendingPreserved
<1> QED
  BY <1>1, <1>2, <1>3, <1>4, <1>5, <1>6 DEF SInv, SessionInv, SearchSound, SeedLinkSound

(* SInv is an invariant.                                                   *)
THEOREM SessionsInvariant == SSpec => []SInv
<1>1. SInit => SInv
  BY SInitSatisfies
<1>2. ASSUME SInv, [SNext]_svars
      PROVE  SInv'
  <2>1. CASE SNext
    BY <2>1, <1>2, SNextPreserves
  <2>2. CASE UNCHANGED svars
    <3> USE <1>2, <2>2 DEF svars, ringvars, vars, rsvars, connvars, archivevars, diskvars,
         dlvars, slvars, SInv
    <3>1. RingSound'
      BY DEF RingSound, IInv, TypeOK, EndsAgree, LivePackets, CountAgrees, TimesIncrease,
         IndexDescribesRing, IndexDescribes, ChainLinksStream, ChainLinks, Live, Rank, PacketsOf,
         IsFirst, IsLast, Numbered
    <3>2. ClientTypes' /\ Phases' /\ Entitled' /\ ReadsPermitted'
      BY DEF ClientTypes, Phases, SLClient, Entitled, ReadsPermitted
    <3>3. SearchTypes' /\ AtPlace' /\ ForwardScan' /\ ReverseKept' /\ ReverseScan' /\ ReverseFound'
      BY DEF SearchTypes, AtPlace, ForwardScan, ReverseKept, ReverseScan, ReverseFound,
         Searching, InTime, Overtaken, Place, Time, Eligible, WithinReverse, Forward, Live,
         TimeMatches, SelectedStream, Allowed, DataEnd, DataStart
    <3>4. ArchiveSound' /\ PendingTypes'
      BY DEF ArchiveSound, ArchiveTypeOK, OpenFilesExact, NamesAgree, Settled, FilesOpen,
         SubmittedArchived, NextPktId, PendingTypes, Connected
    <3>5. SeedLinkTypes' /\ Negotiated' /\ WindowCounted'
      BY DEF SeedLinkTypes, wanted, Negotiated, SLStreaming, SLClient, StationOk, WindowCounted,
         NotReached
    <3> QED
      BY <3>1, <3>2, <3>3, <3>4, <3>5
  <2> QED
    BY <1>2, <2>1, <2>2
<1> QED
  BY <1>1, <1>2, PTL DEF SSpec

(* The types hold, and a search stays within the ring and the number of    *)
(* packets it may look at (RingAfter(), RingAfterRev()).                   *)
THEOREM SessionsTypeCorrect == SSpec => []STypeOK
<1>1. SInv => STypeOK
  <2> SUFFICES ASSUME SInv
               PROVE  STypeOK
    OBVIOUS
  <2>1. search.pc # "idle" => search.at \in Offsets /\ search.count < MaxPackets
    <3>1. IInv /\ SearchTypes
      BY DEF SInv, RingSound
    <3> QED
      BY <3>1, LiveTyped DEF SearchTypes
  <2>2. ClientTypes /\ Phases /\ ArchiveTypeOK /\ SeedLinkTypes
    BY DEF SInv, ArchiveSound
  <2> QED
    BY <2>1, <2>2 DEF STypeOK, ClientTypes, Phases, SeedLinkTypes
<1> QED
  BY <1>1, SessionsInvariant, PTL

(* Positioning by time passes over no data that were there: as long as the *)
(* writer has not overtaken the search, it ends at a packet no eligible    *)
(* one precedes, and fails only when there is none (ring.c, RingAfter()    *)
(* and RingAfterRev()).                                                    *)
THEOREM SearchSkipsNothing == SSpec => []AfterSkipsNothing
<1>1. SInv => AfterSkipsNothing
  <2> SUFFICES ASSUME SInv, search.pc # "idle", ~Overtaken, NEW o \in Live, Eligible(o)
               PROVE  /\ SearchSucceeds => slot[o].pkttime >= search.pkttime
                      /\ ~SearchFails
    BY DEF AfterSkipsNothing
  <2> USE StateFacts
  <2>1. SearchState
    <3>1. ~shutdownsig
      BY DEF SInv, RingSound, Phases, SLClient
    <3>2. pktlimit \in PktLimits
      BY ConnectionAssumption DEF SInv, ClientTypes
    <3> QED
      BY <3>1, <3>2, SearchAssumption DEF SInv, RingSound, SearchSound, SearchState
  <2>2. InTime /\ Time = Place /\ slot[o].pkttime \in Nat /\ slot[o].pkttime <= search.began
    BY <2>1 DEF InTime, Eligible
  <2>3. TimeMatches(o)
    BY DEF Eligible, TimeMatches
  <2>4. search.pc = "check" => /\ search.found >= 0 /\ search.pkttime \in Nat
                               /\ search.pkttime <= slot[o].pkttime
                               /\ slot[search.found].pkttime = search.pkttime
    <3> SUFFICES ASSUME search.pc = "check"
                 PROVE  /\ search.found >= 0 /\ search.pkttime \in Nat
                        /\ search.pkttime <= slot[o].pkttime
                        /\ slot[search.found].pkttime = search.pkttime
      OBVIOUS
    <3>1. search.found >= 0 /\ search.pkttime \in Nat
      BY <2>1, RingAssumption DEF SInv, SearchTypes
    <3>2. CASE Forward
      BY <2>2, <2>3, <3>1, <3>2 DEF SInv, ForwardScan, Time
    <3>3. CASE ~Forward
      BY <2>2, <3>1, <3>3 DEF SInv, ReverseKept, ReverseFound
    <3> QED
      BY <3>1, <3>2, <3>3
  <2>5. ASSUME search.pc = "scan", ~Forward, pktlimit = 0
        PROVE  FALSE
    BY <2>1, <2>2, <2>5 DEF Eligible, WithinReverse
  <2>6. ASSUME Examines, ~TimeMatches(search.at)
        PROVE  slot[o].pkttime # Place
    BY <2>1, <2>2, <2>3, <2>6 DEF Time
  <2>7. ASSUME Examines, ~TimeMatches(search.at), Forward, LastForward
        PROVE  FALSE
    <3>1. Place <= slot[o].pkttime
      BY <2>2, <2>3, <2>7 DEF SInv, ForwardScan
    <3>2. Place < slot[o].pkttime
      BY <2>1, <2>2, <2>6, <2>7, <3>1
    <3>3. CASE search.at = latestoffset
      BY <2>1, <2>2, <3>2, <3>3 DEF Time
    <3>4. CASE search.count + 1 = MaxPackets
      <4>1. Place = search.oldest + search.count
        BY <2>7 DEF Place
      <4> QED
        BY <2>1, <2>2, <3>2, <3>4, <4>1
    <3> QED
      BY <2>7, <3>3, <3>4 DEF LastForward
  <2>8. ASSUME Examines, ~TimeMatches(search.at), ~Forward, LastReverse, search.found < 0
        PROVE  FALSE
    <3>1. Place <= slot[o].pkttime
      BY <2>1, <2>2, <2>8, ReverseStops
    <3>2. Place < slot[o].pkttime
      BY <2>1, <2>2, <2>6, <2>8, <3>1
    <3>3. search.found >= 0
      BY <2>2, <2>3, <2>8, <3>2 DEF SInv, ReverseScan, Searching, Examines
    <3> QED
      BY <2>1, <2>8, <3>3, RingAssumption DEF Offsets
  <2>9. ~SearchFails
    BY <2>4, <2>5, <2>7, <2>8 DEF SearchFails
  <2> QED
    BY <2>2, <2>4, <2>9 DEF SearchSucceeds
<1> QED
  BY <1>1, SessionsInvariant, PTL

(* A packet is sent only if its stream is allowed and not forbidden at     *)
(* that time, and authentication is given where it is required             *)
(* (dlclient.c, HandleRead(); slclient.c; ring.c, RingReadNext(); auth.c). *)
THEOREM OnlyPermittedReads == SSpec => []ReadsPermitted
<1>1. SInv => ReadsPermitted
  BY DEF SInv
<1> QED
  BY <1>1, SessionsInvariant, PTL

(* The count of open archive files is exact, whatever is closed for being  *)
(* idle and for the limit (dsarchive.c, ds_openfile() and ds_closeidle()). *)
THEOREM OpenFilesCounted == SSpec => []OpenFilesExact
<1>1. SInv => OpenFilesExact
  BY DEF SInv, ArchiveSound
<1> QED
  BY <1>1, SessionsInvariant, PTL

(* All records of a key are in one file, also with other connections that  *)
(* archive, unless a name was made in ignorance of the files: glob()       *)
(* failed, or two connections were about to create the file (dsarchive.c,  *)
(* ds_getstream()).                                                        *)
THEOREM OneFileForKey == SSpec => []OneFilePerKey
<1>1. SInv => OneFilePerKey
  BY DEF SInv, ArchiveSound, NamesAgree, OneFilePerKey
<1> QED
  BY <1>1, SessionsInvariant, PTL

(* A packet whose data are a miniSEED record can be read only when the     *)
(* record is whole in an archive file of its key, although the record is   *)
(* archived and the packet added in separate steps, each of which can fail *)
(* (dlclient.c, HandleWrite()).                                            *)
THEOREM ServedIsArchived == SSpec => []ArchivedBeforeServed
<1>1. SInv => ArchivedBeforeServed
  BY DEF SInv, ArchiveSound, SubmittedArchived, ArchivedBeforeServed
<1> QED
  BY <1>1, SessionsInvariant, PTL

(* A time window is over exactly when every stream received is past its    *)
(* end (slclient.c, SLStreamPackets()).                                    *)
THEOREM WindowEnds == SSpec => []WindowEndsExactly
<1>1. SInv => WindowEndsExactly
  <2> SUFFICES ASSUME SInv, SLStreaming, Windowed
               PROVE  /\ DOMAIN sl.reached # {} => \E s \in DOMAIN sl.reached : ~sl.reached[s]
                      /\ ENDNext => \A s \in DOMAIN sl.reached \cup {slot[NextPacket].streamid} :
                                      EndReached(s) \/ (s = slot[NextPacket].streamid
                                                        /\ DataStart(NextPacket) > sl.endtime)
    BY DEF WindowEndsExactly
  <2>1. DOMAIN sl.reached # {} => NotReached # {}
    BY DEF SInv, WindowCounted
  <2>2. ASSUME ENDNext, NEW t \in DOMAIN sl.reached \cup {slot[NextPacket].streamid}
        PROVE  EndReached(t) \/ (t = slot[NextPacket].streamid
                                 /\ DataStart(NextPacket) > sl.endtime)
    <3> DEFINE s == slot[NextPacket].streamid
               beyond == DataStart(NextPacket) > sl.endtime
    <3>1. WindowCount(s, beyond) <= 0
      BY <2>2 DEF ENDNext
    <3>2. /\ IsFiniteSet(NotReached) /\ Cardinality(NotReached) \in Nat
          /\ sl.timewinchannels = Cardinality(NotReached)
      <4>1. NotReached \subseteq Streams /\ IsFiniteSet(Streams)
        BY RingAssumption DEF NotReached, SInv, SeedLinkTypes
      <4> QED
        BY <4>1, FS_Subset, FS_CardinalityType DEF SInv, WindowCounted
    <3>3. t \in DOMAIN sl.reached \/ t = s
      OBVIOUS
    <3> HIDE DEF s, beyond
    <3>4. Cardinality(NotReached) = 0 => NotReached = {}
      BY <3>2, FS_EmptySet
    <3>5. CASE s \notin DOMAIN sl.reached
      <4>1. beyond /\ Cardinality(NotReached) = 0
        BY <3>1, <3>2, <3>5 DEF WindowCount
      <4> QED
        BY <2>1, <3>3, <3>4, <4>1 DEF s, beyond
    <3>6. CASE s \in DOMAIN sl.reached
      <4>1. Cardinality(NotReached) # 0
        BY <2>1, <3>2, <3>6, FS_EmptySet
      <4>2. beyond /\ ~EndReached(s) /\ Cardinality(NotReached) = 1
        BY <3>1, <3>2, <3>6, <4>1 DEF WindowCount
      <4>3. s \in NotReached
        BY <3>6, <4>2 DEF EndReached, NotReached
      <4>4. NotReached \ {s} = {}
        <5>1. /\ IsFiniteSet(NotReached \ {s})
              /\ Cardinality(NotReached \ {s}) = Cardinality(NotReached) - 1
          BY <3>2, <4>3, FS_RemoveElement
        <5> QED
          BY <4>2, <5>1, FS_EmptySet
      <4>5. t # s => EndReached(t)
        BY <3>3, <4>4 DEF NotReached, EndReached
      <4> QED
        BY <4>2, <4>5 DEF s, beyond
    <3> QED
      BY <3>5, <3>6
  <2> QED
    BY <2>1, <2>2 DEF NotReached
<1> QED
  BY <1>1, SessionsInvariant, PTL

-----------------------------------------------------------------------------
(* A client that returns.                                                  *)

(* The slots from one in the ring to the latest packet are the slots of    *)
(* the ring no further from the latest packet than that one.               *)
LEMMA RangeByDistance ==
  ASSUME NEW e \in Offsets, NEW l \in Offsets, NEW x \in Between(e, l), NEW o
  PROVE  o \in Between(x, l) <=> o \in Between(e, l) /\ RankFrom(o, l) <= RankFrom(x, l)
<1>1. x \in Offsets
  BY BetweenMember
<1>2. o \in Between(x, l) <=> o \in Offsets /\ IF x <= l THEN x <= o /\ o <= l ELSE o <= l \/ x <= o
  BY <1>1, BetweenMember
<1>3. o \in Between(e, l) <=> o \in Offsets /\ IF e <= l THEN e <= o /\ o <= l ELSE o <= l \/ e <= o
  BY BetweenMember
<1>4. IF e <= l THEN e <= x /\ x <= l ELSE x <= l \/ e <= x
  BY BetweenMember
<1>5. CASE o \in Offsets
  BY <1>1, <1>2, <1>3, <1>4, <1>5, RingAssumption DEF RankFrom, Offsets
<1> QED
  BY <1>2, <1>3, <1>5

(* What a reader set just before a packet will be given, when that packet  *)
(* or the one before it is in the ring: all packets from that one on.      *)
LEMMA AheadOfID ==
  ASSUME IInv, Numbered, NEW id \in PktIds, reader = Before(id),
         NEW w \in Live, slot[w].pktid \in {id, id - 1}
  PROVE  \A o : o \in Ahead(reader) <=> o \in Live /\ slot[o].pktid >= id
<1>1. latestoffset >= 0
  BY LiveTyped
<1>2. earliestoffset \in Offsets /\ latestoffset \in Offsets /\ latestoffset \in Live
  BY <1>1, EndsLive
<1>3. /\ reader.pktoffset = -1 /\ reader.pktid = id
      /\ ~(latestoffset < 0) /\ ~(reader.pktoffset >= 0)
  BY <1>1, <1>2, RingAssumption DEF Before, Offsets
<1>4. id \in Nat /\ id # RINGID_NONE /\ id # RINGID_NEXT /\ id # RINGID_LATEST
  BY RingAssumption DEF PktIds, RINGID_NONE, RINGID_NEXT, RINGID_LATEST
<1>5. last_pkttime \in Nat
  BY RingAssumption DEF IInv, TypeOK
<1>6. \A o \in Live : /\ slot[o].pktid \in Nat /\ RankFrom(o, latestoffset) \in Nat
                      /\ slot[o].pktid + RankFrom(o, latestoffset) = last_pkttime
  <2> TAKE o \in Live
  <2>1. o \in Offsets /\ slot[o].pkttime \in Nat
    BY LiveTyped
  <2>2. RankFrom(o, latestoffset) \in Nat
    BY <1>2, <2>1, RingAssumption DEF RankFrom, Offsets
  <2> QED
    BY <2>1, <2>2 DEF Numbered
<1>7. CASE InRing(id)
  <2> DEFINE x == OffsetForID(id)
  <2>1. x \in Live /\ slot[x].pktid = id
    BY <1>7 DEF InRing, OffsetForID
  <2>2. Ahead(reader) = Between(x, latestoffset)
    BY <1>3, <1>4, <1>7 DEF Ahead, Waits, StartOffset
  <2> HIDE DEF x
  <2>3. \A o : o \in Between(x, latestoffset) <=>
                 o \in Live /\ RankFrom(o, latestoffset) <= RankFrom(x, latestoffset)
    BY <1>2, <2>1, RangeByDistance DEF Live
  <2>4. ASSUME NEW o \in Live
        PROVE  RankFrom(o, latestoffset) <= RankFrom(x, latestoffset) <=> slot[o].pktid >= id
    <3> DEFINE p == slot[o].pktid
               q == RankFrom(o, latestoffset)
               r == RankFrom(x, latestoffset)
    <3>1. p \in Nat /\ q \in Nat /\ r \in Nat /\ p + q = last_pkttime /\ id + r = last_pkttime
      BY <1>6, <2>1
    <3> HIDE DEF p, q, r
    <3>2. q <= r <=> p >= id
      BY <1>4, <1>5, <3>1
    <3> QED
      BY <3>2 DEF p, q, r
  <2> QED
    BY <2>2, <2>3, <2>4
<1>8. CASE ~InRing(id)
  <2>1. slot[w].pktid = id - 1 /\ slot[w].pktid # id
    BY <1>8 DEF InRing
  <2>2. w = latestoffset
    <3> SUFFICES ASSUME w # latestoffset
                 PROVE  FALSE
      OBVIOUS
    <3>1. NextOffset(w) \in Live /\ slot[NextOffset(w)].pkttime = slot[w].pkttime + 1
      BY Neighbours
    <3>2. slot[NextOffset(w)].pktid = slot[w].pktid + 1
      BY <3>1 DEF Numbered
    <3>3. slot[NextOffset(w)].pktid = id
      BY <2>1, <3>2, <1>4
    <3> QED
      BY <1>8, <3>1, <3>3 DEF InRing
  <2>3. id > slot[latestoffset].pktid
    BY <1>4, <2>1, <2>2
  <2>4. Ahead(reader) = {}
    BY <1>3, <1>8, <2>3 DEF Ahead, Waits
  <2>5. ASSUME NEW o \in Live
        PROVE  ~(slot[o].pktid >= id)
    <3>1. slot[o].pktid <= slot[latestoffset].pktid
      <4>1. RankFrom(latestoffset, latestoffset) = 0
        BY <1>2, RingAssumption DEF RankFrom, Offsets
      <4>2. slot[latestoffset].pktid = last_pkttime
        BY <1>2, <1>6, <4>1
      <4> QED
        BY <1>5, <1>6, <4>2
    <3> QED
      BY <1>2, <1>4, <1>6, <2>3, <3>1
  <2> QED
    BY <2>4, <2>5
<1> QED
  BY <1>7, <1>8

(* A reader set before the earliest packet will be given every packet.     *)
LEMMA AheadOfEarliest ==
  ASSUME IInv, reader = Before(RINGID_EARLIEST), Live # {}
  PROVE  Ahead(reader) = Live
<1>1. latestoffset >= 0
  BY LiveTyped
<1>2. earliestoffset \in Offsets /\ latestoffset \in Offsets
  BY <1>1, EndsLive
<1>3. /\ reader.pktoffset = -1 /\ reader.pktid = RINGID_EARLIEST
      /\ ~(latestoffset < 0) /\ ~(reader.pktoffset >= 0)
  BY <1>1, <1>2, RingAssumption DEF Before, Offsets
<1>4. /\ RINGID_EARLIEST \notin PktIds
      /\ RINGID_EARLIEST # RINGID_NONE /\ RINGID_EARLIEST # RINGID_NEXT
      /\ RINGID_EARLIEST # RINGID_LATEST
  BY RingAssumption DEF PktIds, RINGID_NONE, RINGID_NEXT, RINGID_LATEST, RINGID_EARLIEST
<1> QED
  BY <1>3, <1>4 DEF Ahead, Waits, StartOffset, Live

(* The newest of a bounded set of numbers.                                 *)
LEMMA NewestIsGreatest ==
  ASSUME NEW T, NEW b \in Nat, T \subseteq 0 .. b, T # {}
  PROVE  Newest(T) \in T /\ \A y \in T : y <= Newest(T)
BY GreatestNumber DEF Newest

(* ValidateResumePoint(): when no station asks for a packet after id, and  *)
(* one that asks for id gives what the server can confirm, the resume      *)
(* point chosen is id or, confirmed by the same packet, the one before.    *)
LEMMA ResumePointsSound ==
  ASSUME IInv, NEW S, NEW had \in Nat, had + 1 \in PktIds,
         \A s \in DOMAIN S : S[s].packetid \in PktIds => S[s].packetid <= had + 1,
         NEW m \in DOMAIN S, S[m].packetid = had + 1,
         S[m].datastart \in {NSTUNSET, datatime[had].start},
         InRing(had) \/ (InRing(had + 1) /\ S[m].datastart = NSTUNSET)
  PROVE  /\ ResumePoints(S) # {}
         /\ \A id \in ResumePoints(S) : /\ id \in PktIds /\ id \in {had, had + 1}
                                        /\ InRing(id) \/ InRing(id - 1)
<1> DEFINE next == had + 1
           valid == {s \in DOMAIN S : Validates(S[s].packetid, S[s].datastart)}
           W == {Witness(S[s].packetid) : s \in valid}
<1>0. next \in Nat /\ next - 1 = had /\ next \in PktIds /\ S[m].packetid = next
      /\ (InRing(had) \/ (InRing(next) /\ S[m].datastart = NSTUNSET))
      /\ next = had + 1
  OBVIOUS
<1> HIDE DEF next
<1>1. m \in valid
  <2>1. Validates(next, S[m].datastart)
    BY <1>0 DEF Validates
  <2> QED
    BY <1>0, <2>1
<1>2. ASSUME NEW s \in valid
      PROVE  /\ S[s].packetid \in PktIds /\ S[s].packetid \in Nat /\ S[s].packetid <= next
             /\ Witness(S[s].packetid) \in {S[s].packetid, S[s].packetid - 1}
             /\ InRing(Witness(S[s].packetid))
  <2>1. Validates(S[s].packetid, S[s].datastart) /\ s \in DOMAIN S
    BY <1>2
  <2>2. S[s].packetid \in PktIds /\ S[s].packetid \in Nat /\ S[s].packetid <= next
    BY <1>0, <2>1, RingAssumption DEF Validates, PktIds
  <2>3. CASE InRing(S[s].packetid - 1)
    BY <2>2, <2>3 DEF Witness
  <2>4. CASE ~InRing(S[s].packetid - 1)
    BY <2>1, <2>2, <2>4 DEF Witness, Validates
  <2> QED
    BY <2>2, <2>3, <2>4
<1>3. W \subseteq 0 .. next /\ W # {}
  <2>1. ASSUME NEW s \in valid
        PROVE  Witness(S[s].packetid) \in 0 .. next
    <3>1. PICK o \in Live : slot[o].pktid = Witness(S[s].packetid)
      BY <1>2, <2>1 DEF InRing
    <3>2. slot[o] \in Packet
      BY LiveTyped DEF IInv, TypeOK
    <3>3. Witness(S[s].packetid) \in Nat
      BY <3>1, <3>2, RingAssumption DEF Packet, PktIds
    <3> QED
      BY <1>0, <1>2, <2>1, <3>3
  <2> QED
    BY <1>1, <2>1
<1>4. PICK x \in W : \A y \in W : y <= x
  BY <1>0, <1>3, GreatestNumber
<1>5. ResumePoints(S) = {S[s].packetid : s \in {t \in valid : \A u \in valid :
         Witness(S[u].packetid) <= Witness(S[t].packetid)}}
  BY DEF ResumePoints
<1>6. ResumePoints(S) # {}
  <2>1. PICK s \in valid : x = Witness(S[s].packetid)
    BY <1>4
  <2>2. \A u \in valid : Witness(S[u].packetid) <= Witness(S[s].packetid)
    BY <1>4, <2>1
  <2> QED
    BY <1>5, <2>2
<1>7. ASSUME NEW id \in ResumePoints(S)
      PROVE  id \in PktIds /\ id \in {had, next} /\ (InRing(id) \/ InRing(id - 1))
  <2>1. PICK t \in valid : /\ id = S[t].packetid
                          /\ \A u \in valid : Witness(S[u].packetid) <= Witness(S[t].packetid)
    BY <1>5, <1>7
  <2>2. /\ id \in PktIds /\ id \in Nat /\ id <= next
        /\ Witness(id) \in {id, id - 1} /\ InRing(Witness(id))
    BY <1>2, <2>1
  <2>3. Witness(next) <= Witness(id)
    BY <1>0, <1>1, <2>1
  <2>4. CASE InRing(had)
    <3>1. Witness(next) = had
      BY <1>0, <2>4 DEF Witness
    <3> QED
      BY <1>0, <2>2, <2>3, <3>1
  <2>5. CASE ~InRing(had)
    <3>1. Witness(next) = next
      BY <1>0, <2>5 DEF Witness
    <3> QED
      BY <1>0, <2>2, <2>3, <3>1
  <2> QED
    BY <2>4, <2>5
<1> QED
  BY <1>0, <1>6, <1>7

(* Streaming begins right after negotiation only with a request completed. *)
LEMMA StreamingBegins ==
  ASSUME SInv, SNext, SLClient, state \in {"COMMAND", "STATION"}, state' = "STREAM"
  PROVE  /\ AllData \/ AllTime \/ End
         /\ UNCHANGED <<ringvars, client, datatime, shutdownsig>>
<1>1. ~DataLinkSteps
  BY DEF SInv, PendingTypes, NoRecord, SLClient, DataLinkSteps, DLAuth, DLUnrecognized, PositionEarliest, PositionSet,
     PositionAfterEmpty, PositionAfter, PositionAfterDone, Match, Reject, Refused, Read,
     ReadNothing, Stream, StreamPackets, WriteRefused, WriteNames, WriteSkips,
     WriteArchives, WriteArchiveFails, WriteRing, WriteRingFails, Reading, Writing
<1>2. ~SConnect /\ ~SLeave /\ ~SSubmit /\ ~SOther /\ ~SSearch /\ ~SStopped
  BY DEF SConnect, Connect, SLeave, Leave, Closed, SSubmit, Submit, SOther, SSearch, SStopped, svars,
     connvars
<1>3. ~SLProto /\ ~SLAuth /\ ~SLUnrecognized
  BY DEF SLProto, SLAuth, SLUnrecognized, Auth, AuthSucceeds, ClientError, Closed
<1>4. ~Station /\ ~StationData /\ ~StationTime
  BY DEF Station, StationData, StationTime, SetStation
<1>5. ~SLSearchDone /\ ~SLStreamPacket /\ ~SLWindowEnd /\ ~SLDialupEnd /\ ~SLNothing
  BY DEF SLSearchDone, SLStreamPacket, SLWindowEnd, SLDialupEnd, SLNothing, SLStreaming
<1>6. SeedLinkSteps /\ UNCHANGED <<archivevars, dlvars>>
  BY <1>1, <1>2 DEF SNext
<1> QED
  BY <1>3, <1>4, <1>5, <1>6, SeedLinkRing DEF SeedLinkSteps, dlvars

(* The reader configured without a search: where the request says, or for  *)
(* the packets to come.                                                    *)
LEMMA ConfiguredReader ==
  ASSUME NEW i, DOMAIN i = DOMAIN NewSLInfo, Configure(i), state' = "STREAM", latestoffset >= 0
  PROVE  \E c \in Configured(i) :
           /\ DOMAIN c = DOMAIN NewSLInfo /\ c.stations = i.stations
           /\ sl'.stations = i.stations /\ sl'.startid = c.startid
           /\ c.startid \in PktIds \cup {RINGID_EARLIEST} => reader' = Before(c.startid)
           /\ last' = last
<1>1. RingConfig(i)
  BY DEF Configure, SLClosed, Closed
<1>2. PICK c \in Configured(i) :
        LET byall == c.startid = RINGID_EARLIEST /\ c.starttime # NSTUNSET
            id    == IF byall THEN RINGID_NONE ELSE c.startid
            bytime == c.starttime # NSTUNSET /\ id = RINGID_NONE
        IN  /\ sl' = [c EXCEPT !.startid = id]
            /\ IF bytime /\ latestoffset >= 0
                 THEN state' = "RINGCONFIG"
                 ELSE reader' = IF id \in PktIds \cup {RINGID_EARLIEST} THEN StartPosition(id)
                                ELSE [reader EXCEPT !.pktid = RINGID_NEXT]
  BY <1>1 DEF RingConfig
<1>3. DOMAIN c = DOMAIN NewSLInfo /\ c.stations = i.stations
  BY <1>2, ConfiguredShape
<1>4. ~(c.startid = RINGID_EARLIEST /\ c.starttime # NSTUNSET)
  BY <1>2
<1>5. /\ sl' = [c EXCEPT !.startid = c.startid]
      /\ c.startid \in PktIds \cup {RINGID_EARLIEST} => reader' = Before(c.startid)
  <2>1. ~(c.starttime # NSTUNSET /\ c.startid = RINGID_NONE)
    BY <1>2, <1>4
  <2> QED
    BY <1>2, <1>4, <2>1 DEF StartPosition
<1>6. sl'.stations = i.stations /\ sl'.startid = c.startid
  BY <1>3, <1>5 DEF NewSLInfo
<1> QED
  BY <1>1, <1>2, <1>3, <1>5, <1>6 DEF RingConfig

(* The newest packet a client has is one it was sent.                      *)
LEMMA NewestHadSound ==
  ASSUME SInv, Live # {}
  PROVE  /\ NewestHad \in Nat /\ NewestHad + 1 \in PktIds
         /\ \E m \in Requested : last[m] = NewestHad
         /\ \A s \in Requested : last[s] \in Nat /\ last[s] <= NewestHad
         /\ wanted \subseteq Streams
<1> DEFINE T == {last[s] : s \in Requested}
<1>1. wanted \subseteq Streams
  BY ConnectionAssumption DEF SInv, ClientTypes, wanted
<1>2. Requested \subseteq Streams /\ Requested # {}
  <2>1. Streams # {}
    BY LiveTyped DEF SInv, RingSound
  <2> QED
    BY <1>1, <2>1 DEF Requested
<1>3. last_pkttime \in 0 .. MaxTime
  BY DEF SInv, RingSound, IInv, TypeOK
<1>4. \A s \in Requested : last[s] \in 0 .. last_pkttime
  BY <1>2, <1>3, RingAssumption DEF SInv, SeedLinkTypes
<1>5. T \subseteq 0 .. last_pkttime /\ T # {} /\ last_pkttime \in Nat
  BY <1>2, <1>3, <1>4, RingAssumption
<1>6. Newest(T) \in T /\ \A y \in T : y <= Newest(T)
  BY <1>5, NewestIsGreatest
<1>7. NewestHad = Newest(T)
  BY DEF NewestHad
<1>8. NewestHad \in T /\ \A y \in T : y <= NewestHad
  BY <1>6, <1>7
<1>9. NewestHad \in 0 .. last_pkttime
  BY <1>5, <1>8
<1>10. NewestHad \in Nat /\ NewestHad + 1 \in PktIds
  <2> HIDE DEF T
  <2> QED
    BY <1>3, <1>9, SearchAssumption, RingAssumption DEF PktIds
<1> QED
  BY <1>1, <1>4, <1>8, <1>10

(* Where a returning client's reader is set: before the packet after its   *)
(* newest one or before that one itself, with a packet in the ring to find *)
(* the place by; or, when a station asks for it, before everything.        *)
LEMMA ResumePlace ==
  ASSUME SInv, SNext, SLClient, state \in {"COMMAND", "STATION"}, state' = "STREAM",
         NewestHad > 0, Resumes', ResumePointKnown'
  PROVE  /\ Live # {}
         /\ \/ \E id \in PktIds : /\ reader' = Before(id)
                                  /\ id \in {NewestHad, NewestHad + 1}
                                  /\ InRing(id) \/ InRing(id - 1)
            \/ reader' = Before(RINGID_EARLIEST) /\ ~OnlyResumes'
<1>0. IInv
  BY DEF SInv, RingSound
<1>1. (AllData \/ AllTime \/ End) /\ UNCHANGED <<ringvars, client, datatime>>
  BY StreamingBegins
<1>2. PICK i : /\ Configure(i) /\ DOMAIN i = DOMAIN NewSLInfo /\ i.stations = sl.stations
               /\ wanted = {} \/ DOMAIN sl.stations = wanted
  BY <1>1, Completed
<1>3. last' = last
  BY <1>2 DEF Configure, SLClosed, RingConfig
<1>4. /\ Live' = Live /\ slot' = slot
      /\ wanted' = wanted /\ NewestHad' = NewestHad
  BY <1>1, <1>3 DEF ringvars, vars, Live, wanted, NewestHad, Requested
<1> DEFINE had == NewestHad
<1>5. \/ InRing(had)
      \/ InRing(had + 1) /\ \A s \in wanted : last[s] = had => sl'.stations[s].datastart = NSTUNSET
  BY <1>3, <1>4 DEF ResumePointKnown, InRing
<1>6. Live # {}
  BY <1>5 DEF InRing
<1>7. latestoffset >= 0
  BY <1>0, <1>6, LiveTyped
<1>8. PICK c \in Configured(i) :
           /\ c.stations = i.stations
           /\ sl'.stations = i.stations /\ sl'.startid = c.startid
           /\ c.startid \in PktIds \cup {RINGID_EARLIEST} => reader' = Before(c.startid)
  BY <1>2, <1>7, ConfiguredReader
<1> DEFINE id == c.startid
           S == sl.stations
<1>9. S = i.stations /\ S = sl'.stations
  BY <1>2, <1>8
<1>10. /\ had \in Nat /\ had + 1 \in PktIds
       /\ \E m \in Requested : last[m] = had
       /\ \A s \in Requested : last[s] \in Nat /\ last[s] <= had
       /\ wanted \subseteq Streams
  BY <1>6, NewestHadSound
<1>11. IF wanted = {} THEN id = had + 1
       ELSE \A s \in wanted : last[s] > 0 => S[s].packetid = last[s] + 1
  BY <1>3, <1>4, <1>8, <1>9 DEF Resumes
<1>12. \/ id \in PktIds /\ id \in {had, had + 1} /\ (InRing(id) \/ InRing(id - 1))
       \/ id = RINGID_EARLIEST /\ ~OnlyResumes'
  <2>1. CASE wanted = {}
    <3>1. id = had + 1
      BY <1>11, <2>1
    <3>2. id - 1 = had
      BY <1>10, <3>1
    <3> HIDE DEF had, id
    <3> QED
      BY <1>5, <1>10, <3>1, <3>2
  <2>2. CASE wanted # {}
    <3>1. DOMAIN S = wanted /\ Requested = wanted
      BY <1>2, <2>2 DEF Requested
    <3>2. id \in StationStarts(S)
      <4>1. PICK q \in StationStarts(i.stations) : c.startid = q
        BY <1>2, <1>8, <1>9, <2>2, <3>1 DEF Configured, NewSLInfo
      <4> QED
        BY <1>9, <4>1
    <3>3. CASE \E s \in DOMAIN S : S[s].packetid = RINGID_EARLIEST /\ S[s].starttime = NSTUNSET
      <4>1. id = RINGID_EARLIEST
        BY <3>2, <3>3 DEF StationStarts
      <4>2. ~OnlyResumes'
        BY <1>9, <3>3 DEF OnlyResumes
      <4> QED
        BY <4>1, <4>2
    <3>4. CASE ~(\E s \in DOMAIN S : S[s].packetid = RINGID_EARLIEST /\ S[s].starttime = NSTUNSET)
      <4>1. PICK m \in wanted : last[m] = had
        BY <1>10, <3>1
      <4>2. \A s \in DOMAIN S : StationOk(s)
        BY DEF SInv, Negotiated, SLStreaming
      <4>3. S[m].packetid = had + 1 /\ had + 1 \notin {RINGID_NONE, RINGID_EARLIEST}
        BY <1>10, <1>11, <2>2, <4>1 DEF RINGID_NONE, RINGID_EARLIEST
      <4>4. S[m].datastart \in {NSTUNSET, datatime[had].start}
        BY <3>1, <4>1, <4>2, <4>3 DEF StationOk
      <4>5. ASSUME NEW s \in DOMAIN S, S[s].packetid \in PktIds
            PROVE  S[s].packetid <= had + 1
        <5>1. S[s].packetid \notin {RINGID_NONE, RINGID_EARLIEST}
          BY <4>5, RingAssumption DEF PktIds, RINGID_NONE, RINGID_EARLIEST
        <5>2. last[s] > 0
          BY <4>2, <4>5, <5>1 DEF StationOk
        <5>3. S[s].packetid = last[s] + 1 /\ last[s] \in Nat /\ last[s] <= had
          BY <1>10, <1>11, <2>2, <3>1, <4>5, <5>2
        <5> QED
          BY <1>10, <5>3
      <4>6. InRing(had) \/ (InRing(had + 1) /\ S[m].datastart = NSTUNSET)
        BY <1>5, <1>9, <4>1
      <4>7. /\ ResumePoints(S) # {}
            /\ \A p \in ResumePoints(S) : /\ p \in PktIds /\ p \in {had, had + 1}
                                          /\ InRing(p) \/ InRing(p - 1)
        <5> HIDE DEF had, S
        <5> QED
          BY <1>0, <1>10, <3>1, <4>3, <4>4, <4>5, <4>6, ResumePointsSound
      <4>8. id \in ResumePoints(S)
        BY <3>2, <3>4, <4>7 DEF StationStarts
      <4> QED
        BY <4>7, <4>8
    <3> QED
      BY <3>3, <3>4
  <2> QED
    BY <2>1, <2>2
<1> QED
  BY <1>6, <1>8, <1>12

(* A SeedLink client that returns continues where it left: every packet in *)
(* the ring newer than the newest it has is still to be read, and at most  *)
(* that newest one is read again (slclient.c, SLHandleCmd() in RINGCONFIG  *)
(* and ValidateResumePoint(); ring.c, RingPositionBefore()).               *)
THEOREM ResumesWhereItLeft == SSpec => ResumeContinues
<1> DEFINE A == /\ SLClient /\ state \in {"COMMAND", "STATION"} /\ state' = "STREAM"
                /\ NewestHad > 0 /\ Resumes' /\ ResumePointKnown'
                => /\ Unseen \subseteq Ahead(reader)'
                   /\ OnlyResumes' => \A o \in Ahead(reader)' : slot[o].pktid >= NewestHad
<1>1. (IInv /\ Numbered =>
         \A id \in PktIds, w \in Live :
           reader = Before(id) /\ slot[w].pktid \in {id, id - 1} =>
             \A o : o \in Ahead(reader) <=> o \in Live /\ slot[o].pktid >= id)
  BY AheadOfID
<1>2. (IInv /\ Numbered =>
         \A id \in PktIds, w \in Live :
           reader = Before(id) /\ slot[w].pktid \in {id, id - 1} =>
             \A o : o \in Ahead(reader) <=> o \in Live /\ slot[o].pktid >= id)'
  BY <1>1, PTL
<1>3. IInv /\ reader = Before(RINGID_EARLIEST) /\ Live # {} => Ahead(reader) = Live
  BY AheadOfEarliest
<1>4. (IInv /\ reader = Before(RINGID_EARLIEST) /\ Live # {} => Ahead(reader) = Live)'
  BY <1>3, PTL
<1>5. SInv /\ [SNext]_svars => [A]_svars
  <2> SUFFICES ASSUME SInv, SNext, SLClient, state \in {"COMMAND", "STATION"}, state' = "STREAM",
                      NewestHad > 0, Resumes', ResumePointKnown'
               PROVE  /\ Unseen \subseteq Ahead(reader)'
                      /\ OnlyResumes' => \A o \in Ahead(reader)' : slot[o].pktid >= NewestHad
    BY DEF svars, connvars
  <2>1. IInv' /\ Numbered'
    <3>1. ~shutdownsig /\ UNCHANGED shutdownsig
      BY StreamingBegins DEF SInv, RingSound, SLClient
    <3>2. RingSound'
      BY RingPreserved
    <3> QED
      BY <3>1, <3>2 DEF RingSound
  <2>2. Live' = Live /\ slot' = slot
    BY StreamingBegins DEF ringvars, vars, Live
  <2>3. Live # {} /\ NewestHad \in Nat
    BY ResumePlace, NewestHadSound
  <2>4. \A o \in Live : slot[o].pktid \in Nat
    <3>1. \A o \in Live : slot[o] \in Packet
      BY LiveTyped DEF SInv, RingSound, IInv, TypeOK
    <3> QED
      BY <3>1, RingAssumption DEF Packet, PktIds
  <2>5. CASE \E id \in PktIds : /\ reader' = Before(id)
                                /\ id \in {NewestHad, NewestHad + 1}
                                /\ InRing(id) \/ InRing(id - 1)
    <3>1. PICK id \in PktIds : /\ reader' = Before(id)
                               /\ id \in {NewestHad, NewestHad + 1}
                               /\ InRing(id) \/ InRing(id - 1)
      BY <2>5
    <3>2. PICK w \in Live : slot[w].pktid \in {id, id - 1}
      BY <3>1 DEF InRing
    <3>3. \A o : o \in Ahead(reader)' <=> o \in Live /\ slot[o].pktid >= id
      BY <1>2, <2>1, <2>2, <3>1, <3>2
    <3>4. ASSUME NEW o \in Unseen
          PROVE  o \in Ahead(reader)'
      <4>1. o \in Live /\ slot[o].pktid > NewestHad
        BY <3>4 DEF Unseen
      <4>2. slot[o].pktid >= id
        BY <2>3, <2>4, <3>1, <4>1
      <4> QED
        BY <3>3, <4>1, <4>2
    <3>5. ASSUME NEW o \in Ahead(reader)'
          PROVE  slot[o].pktid >= NewestHad
      <4>1. o \in Live /\ slot[o].pktid >= id
        BY <3>3, <3>5
      <4> QED
        BY <2>3, <2>4, <3>1, <4>1
    <3> QED
      BY <3>4, <3>5
  <2>6. CASE reader' = Before(RINGID_EARLIEST) /\ ~OnlyResumes'
    <3>1. Ahead(reader)' = Live
      BY <1>4, <2>1, <2>2, <2>3, <2>6 DEF Before
    <3> QED
      BY <2>6, <3>1 DEF Unseen
  <2> QED
    BY <2>5, <2>6, ResumePlace
<1> QED
  BY <1>5, SessionsInvariant, PTL DEF SSpec, ResumeContinues

=============================================================================
