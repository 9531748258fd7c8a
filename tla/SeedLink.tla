------------------------------ MODULE SeedLink ------------------------------
(***************************************************************************)
(* The SeedLink protocol, slclient.c, versions 3 and 4: negotiation of the *)
(* stations and of where their data begin, the configuration of the reader *)
(* when negotiation ends, and streaming, with time windows and dial-up     *)
(* mode.  A station is one stream.  Replies, BATCH, SELECT's channels and  *)
(* conversion, and malformed arguments, which change nothing, are left     *)
(* out; all packets are miniSEED the client can be sent.                   *)
(*                                                                         *)
(* The client is the usual one: it always asks for the same stations, or   *)
(* for all of them, remembers the last packet it received of each stream   *)
(* and, on returning, asks for the one after it.                           *)
(***************************************************************************)
EXTENDS Connection

CONSTANTS
  SLRefTimes,  \* start times asked for
  EndTimes,    \* end times asked for
  SEQ_MODULUS  \* number of sequence numbers of protocol 3, 2^24 in the code

VARIABLES
  last,   \* stream -> ID of the last packet received, 0 for none
  sl      \* SLInfo, and the times and streams of ClientInfo

slvars == <<last, sl>>

\* The stations the client asks for, {} for all without naming them.
wanted == client.wanted

NoStation ==
  [packetid |-> RINGID_NONE, datastart |-> NSTUNSET, starttime |-> NSTUNSET,
   endtime |-> NSTUNSET]

NewSLInfo ==
  [proto |-> 3, startid |-> RINGID_NONE, dialup |-> FALSE, stations |-> [s \in {} |-> NoStation],
   reqstaid |-> NoStream, starttime |-> NSTUNSET, endtime |-> NSTUNSET,
   timewinchannels |-> 0, reached |-> [s \in {} |-> FALSE]]

SLClient == client.protocol \in {"seedlink3", "seedlink4"}

SeedLinkInit ==
  /\ last = [s \in Streams |-> 0]
  /\ sl = NewSLInfo

Negotiating == SLClient /\ state \in {"COMMAND", "STATION"}

SLStreaming == SLClient /\ state = "STREAM"

\* The client has said what protocol it speaks; the default is 3.
Agreed == Negotiating /\ sl.proto = (IF client.protocol = "seedlink4" THEN 4 ELSE 3)

SLClosed ==
  /\ Closed
  /\ sl' = NewSLInfo
  /\ sent' = NoStream
  /\ UNCHANGED <<ringvars, last>>

\* SLPROTO
SLProto ==
  /\ Negotiating /\ ~Agreed
  /\ sl' = [sl EXCEPT !.proto = 4]
  /\ Handled
  /\ UNCHANGED <<reader, sel, search, state, perms, last>>

SLAuth ==
  /\ Agreed
  /\ Auth(state)
  /\ sl' = IF state' = "closed" THEN NewSLInfo ELSE sl
  /\ UNCHANGED last

\* A command not known, or one sent while streaming.
SLUnrecognized ==
  /\ Agreed \/ SLStreaming
  /\ ClientError(state)
  /\ sl' = IF state' = "closed" THEN NewSLInfo ELSE sl
  /\ UNCHANGED last

-----------------------------------------------------------------------------
(* STATION, DATA, FETCH and TIME.                                          *)

\* The client names its stations in one order; they are kept by their IDs.
Station ==
  /\ Agreed /\ wanted \ DOMAIN sl.stations # {}
  /\ LET s == CHOOSE s \in wanted \ DOMAIN sl.stations : TRUE
     IN  sl' = [sl EXCEPT !.reqstaid = s,
                          !.stations = [t \in DOMAIN @ \cup {s} |->
                                          IF t \in DOMAIN @ THEN @[t] ELSE NoStation]]
  /\ state' = "STATION"
  /\ Handled
  /\ UNCHANGED <<reader, sel, search, perms, last>>

\* The packet ID of a sequence number of protocol 3: the high bits are those
\* of the latest packet.
SequenceToID(seq) ==
  IF latestoffset < 0 THEN seq
  ELSE (slot[latestoffset].pktid - (slot[latestoffset].pktid % SEQ_MODULUS)) + seq

\* The packet ID in DATA for a client that wants the packet after packet id.
ResumeID(id) == IF sl.proto = 4 THEN id + 1 ELSE SequenceToID((id + 1) % SEQ_MODULUS)

\* What DATA or FETCH may ask for, the last packet received being id: where to
\* resume, with the start time of the last packet or not; in protocol 4 also
\* everything, or a time window.
DataRequests(id) ==
  {[packetid |-> ResumeID(i), starttime |-> t, endtime |-> NSTUNSET] :
     i \in {id} \ {0}, t \in {NSTUNSET} \cup {datatime[i].start : i \in {id} \ {0}}}
  \cup (IF sl.proto = 4
          THEN {[packetid |-> RINGID_EARLIEST, starttime |-> t, endtime |-> e] :
                  t \in SLRefTimes, e \in EndTimes \cup {NSTUNSET}}
               \cup {[packetid |-> RINGID_EARLIEST, starttime |-> NSTUNSET, endtime |-> NSTUNSET]}
          ELSE {})

\* What TIME may ask for.
TimeRequests == [starttime : SLRefTimes, endtime : EndTimes \cup {NSTUNSET}]

SetStation(station, fetch) ==
  /\ sl' = [sl EXCEPT !.stations[sl.reqstaid] = station, !.reqstaid = NoStream,
                      !.dialup = @ \/ fetch]
  /\ state' = "COMMAND"
  /\ Handled
  /\ UNCHANGED <<reader, sel, search, perms, last>>

\* FETCH is DATA in dial-up mode, in protocol 3.
FetchOrData == IF sl.proto = 3 THEN BOOLEAN ELSE {FALSE}

\* DATA or FETCH after STATION, with arguments or without.
StationData ==
  /\ Agreed /\ state = "STATION"
  /\ \E fetch \in FetchOrData :
       \/ SetStation(sl.stations[sl.reqstaid], fetch)
       \/ \E r \in DataRequests(last[sl.reqstaid]) :
            SetStation([packetid |-> r.packetid, datastart |-> r.starttime,
                        starttime |-> r.starttime, endtime |-> r.endtime], fetch)

StationTime ==
  /\ Agreed /\ state = "STATION" /\ sl.proto = 3
  /\ \E r \in TimeRequests :
       SetStation([sl.stations[sl.reqstaid] EXCEPT !.starttime = r.starttime,
                                                   !.endtime = r.endtime], FALSE)

-----------------------------------------------------------------------------
(* The reader is configured when negotiation is complete.                  *)

\* ValidateResumePoint(): the packet that confirms a resume point is the last
\* one received or, without a time to compare, the one asked for.
Validates(id, start) ==
  /\ id \in PktIds
  /\ \/ InRing(id - 1) /\ (start = NSTUNSET \/ start = datatime[id - 1].start)
     \/ ~InRing(id - 1) /\ start = NSTUNSET /\ InRing(id)
Witness(id) == IF InRing(id - 1) THEN id - 1 ELSE id

Earliest(T) == CHOOSE t \in T : \A u \in T : t <= u
Newest(T)   == CHOOSE t \in T : \A u \in T : u <= t

\* The resume points of the stations S that are confirmed by the newest
\* packet.  Of two with the same packet the first one met is used.
ResumePoints(S) ==
  LET valid == {s \in DOMAIN S : Validates(S[s].packetid, S[s].datastart)}
  IN  {S[s].packetid : s \in {t \in valid : \A u \in valid :
         Witness(S[u].packetid) <= Witness(S[t].packetid)}}

\* The start the stations ask for: everything, if one does so without a time,
\* or the newest resume point.
StationStarts(S) ==
  IF \E s \in DOMAIN S : S[s].packetid = RINGID_EARLIEST /\ S[s].starttime = NSTUNSET
    THEN {RINGID_EARLIEST}
    ELSE IF ResumePoints(S) = {} THEN {RINGID_NONE} ELSE ResumePoints(S)

\* The times of stations S, the ones that are set.
Starts(S) == {S[s].starttime : s \in DOMAIN S} \ {NSTUNSET}
Ends(S)   == {S[s].endtime : s \in DOMAIN S} \ {NSTUNSET}

\* SLInfo i with the widest time window and a start its stations ask for, or
\* with the start of an all-station request validated.
Configured(i) ==
  IF DOMAIN i.stations # {}
    THEN {[i EXCEPT !.startid = id,
                    !.starttime = IF Starts(i.stations) = {} THEN NSTUNSET
                                  ELSE Earliest(Starts(i.stations)),
                    !.endtime = IF Ends(i.stations) = {} THEN NSTUNSET
                                ELSE Newest(Ends(i.stations))] :
            id \in StationStarts(i.stations)}
    ELSE {[i EXCEPT !.startid = IF @ \in PktIds /\ ~Validates(@, i.starttime)
                                  THEN RINGID_NONE ELSE @]}

\* A mistake for StartPosition: the reader is set at the packet to start with.
StartPositionAt(id) == IF InRing(id) THEN At(OffsetForID(id)) ELSE Before(id)

\* RingPositionBefore(): the packet to start with is the next one read.
StartPosition(id) == Before(id)

\* SLHandleCmd() in state RINGCONFIG, for SLInfo i as the command left it.
RingConfig(i) ==
  /\ errors' = 0
  /\ sent' = NoStream
  /\ \E c \in Configured(i) :
       LET byall == c.startid = RINGID_EARLIEST /\ c.starttime # NSTUNSET
           id    == IF byall THEN RINGID_NONE ELSE c.startid
           bytime == c.starttime # NSTUNSET /\ id = RINGID_NONE
       IN  /\ sl' = [c EXCEPT !.startid = id]
           /\ sel' = IF DOMAIN i.stations = {} THEN sel
                     ELSE [sel EXCEPT !.match = DOMAIN i.stations]
           /\ IF bytime /\ latestoffset >= 0
                THEN /\ search' = BeginSearch(c.starttime, 0)
                     /\ state' = "RINGCONFIG"
                     /\ UNCHANGED reader
                ELSE /\ reader' = IF id \in PktIds \cup {RINGID_EARLIEST} THEN StartPosition(id)
                                  ELSE [reader EXCEPT !.pktid = RINGID_NEXT]
                     /\ state' = "STREAM"
                     /\ UNCHANGED search
  /\ UNCHANGED <<ringvars, datatime, pktlimit, client, perms, last>>

Configure(i) == IF AuthMissing THEN SLClosed ELSE RingConfig(i)

\* DATA or FETCH without a station before it.
AllData ==
  /\ Agreed /\ state = "COMMAND" /\ DOMAIN sl.stations = wanted
  /\ \E fetch \in FetchOrData :
       LET i == [sl EXCEPT !.dialup = @ \/ fetch]
       IN  IF wanted # {} THEN Configure(i)
           ELSE \/ Configure([i EXCEPT !.startid = RINGID_NEXT])
                \/ \E r \in DataRequests(Newest({last[s] : s \in Streams})) :
                     Configure([i EXCEPT !.startid = r.packetid, !.starttime = r.starttime,
                                         !.endtime = r.endtime])

\* TIME without a station before it.
AllTime ==
  /\ Agreed /\ state = "COMMAND" /\ sl.proto = 3 /\ wanted = {}
  /\ \E r \in TimeRequests :
       Configure([sl EXCEPT !.starttime = r.starttime, !.endtime = r.endtime])

\* END and ENDFETCH
End ==
  /\ Agreed /\ wanted # {} /\ DOMAIN sl.stations = wanted
  /\ \E fetch \in BOOLEAN : Configure([sl EXCEPT !.dialup = @ \/ fetch])

\* The search for the start time is over and streaming begins.
SLSearchDone ==
  /\ SLClient /\ state = "RINGCONFIG"
  /\ \/ SearchSucceeds /\ reader' = FoundPosition
     \/ SearchFails /\ reader' = [reader EXCEPT !.pktid = RINGID_NEXT]
  /\ search' = NoSearch
  /\ state' = "STREAM"
  /\ Handled
  /\ UNCHANGED <<sel, perms, slvars>>

-----------------------------------------------------------------------------
(* SLStreamPackets()                                                       *)

\* StreamNode.endtimereached
EndReached(s) == s \in DOMAIN sl.reached /\ sl.reached[s]

\* A mistake for WindowCount: a packet past the end always counts a channel
\* down, also when its stream is done already.
WindowCountAgain(s, past) ==
  sl.timewinchannels + (IF s \in DOMAIN sl.reached THEN 0 ELSE 1) - (IF past THEN 1 ELSE 0)

\* The channels in the time window that are not past its end, once a packet
\* of stream s was read that is past the end or not.
WindowCount(s, past) ==
  LET isnew == s \notin DOMAIN sl.reached
  IN  sl.timewinchannels + (IF isnew THEN 1 ELSE 0)
                         - (IF past /\ ~EndReached(s) THEN 1 ELSE 0)

Windowed == sl.endtime # NSTUNSET

\* The next packet is the one that ends the time window.
ENDNext ==
  /\ Windowed /\ Deliverable # {}
  /\ LET o == NextPacket IN WindowCount(slot[o].streamid, DataStart(o) > sl.endtime) <= 0

\* A packet is read.  It is sent unless its stream is past the end of the time
\* window; the connection ends when all streams received are.
SLStreamPacket ==
  /\ SLStreaming
  /\ \E o \in Live :
       LET s    == slot[o].streamid
           past == Windowed /\ (DataStart(o) > sl.endtime \/ EndReached(s))
           n    == WindowCount(s, DataStart(o) > sl.endtime)
       IN  /\ ReadNext(o)
           /\ Windowed => n > 0
           /\ sl' = IF ~Windowed THEN sl
                    ELSE [sl EXCEPT !.reached = [t \in DOMAIN @ \cup {s} |->
                                                   IF t = s THEN past ELSE @[t]],
                                    !.timewinchannels = n]
           /\ sent' = IF past THEN NoStream ELSE s
           /\ last' = IF past THEN last ELSE [last EXCEPT ![s] = slot[o].pktid]
  /\ UNCHANGED <<ringvars, datatime, pktlimit, sel, search, client, state,
                 perms, errors>>

\* END is sent and the connection closed: every stream of the window is past
\* its end, or dial-up mode has reached the end of the buffer.
SLWindowEnd == SLStreaming /\ ENDNext /\ SLClosed

SLDialupEnd ==
  /\ SLStreaming /\ sl.dialup /\ Deliverable = {}
  /\ SLClosed

SLNothing ==
  /\ SLStreaming /\ ~sl.dialup
  /\ ReadNone
  /\ sent' = NoStream
  /\ UNCHANGED <<ringvars, datatime, pktlimit, sel, search, client, state,
                 perms, errors, slvars>>

=============================================================================
