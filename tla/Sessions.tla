------------------------------ MODULE Sessions ------------------------------
(***************************************************************************)
(* The sessions of one client, composed: DataLink or SeedLink, positioning *)
(* in the ring and the archive, while other clients' packets arrive.       *)
(***************************************************************************)
EXTENDS DataLink, SeedLink

svars == <<ringvars, rsvars, connvars, archivevars, dlvars, slvars>>

SInit == ConnectionInit /\ DataLinkInit /\ SeedLinkInit

DataLinkSteps ==
  \/ DLAuth \/ DLUnrecognized
  \/ PositionEarliest \/ PositionSet \/ PositionAfterEmpty
  \/ \E t \in RefTimes : PositionAfter(t)
  \/ PositionAfterDone
  \/ Match \/ Reject
  \/ Refused \/ Read \/ ReadNothing \/ Stream \/ StreamPackets
  \/ WriteRefused
  \/ \E key \in Keys, flags \in Flags :
       WriteNames(key.stream, key, flags) \/ WriteSkips(key.stream, key, flags)
  \/ WriteArchives \/ WriteArchiveFails \/ WriteRing \/ WriteRingFails

SeedLinkSteps ==
  \/ SLProto \/ SLAuth \/ SLUnrecognized
  \/ Station \/ StationData \/ StationTime
  \/ AllData \/ AllTime \/ End
  \/ SLSearchDone
  \/ SLStreamPacket \/ SLWindowEnd \/ SLDialupEnd \/ SLNothing

\* The client connects, or leaves and its thread releases what it has.
SConnect == ~shutdownsig /\ Connect /\ UNCHANGED <<archivevars, dlvars, slvars>>

SLeave ==
  /\ Leave /\ pending = NoRecord
  /\ ArchiveShutdown
  /\ sl' = NewSLInfo
  /\ UNCHANGED <<diskvars, dlvars, last>>

SSubmit ==
  /\ ~shutdownsig /\ client.protocol # "writer"
  /\ \E s \in Streams : Submit(s)
  /\ UNCHANGED <<archivevars, dlvars, slvars>>

\* Other connections that archive, while this client does.
SOther ==
  /\ ~shutdownsig /\ client.protocol = "writer"
  /\ \/ \E key \in Keys, flags \in Flags : OtherNames(key, flags)
     \/ \E f \in others : OtherOpens(f)
  /\ sent' = NoStream
  /\ UNCHANGED <<ringvars, rsvars, client, state, perms, errors, dlvars, slvars>>

SSearch ==
  /\ SearchStep
  /\ sent' = NoStream
  /\ UNCHANGED <<client, state, perms, errors, archivevars, dlvars, slvars>>

\* The server is down.
SStopped == shutdownsig /\ UNCHANGED svars

SNext ==
  \/ SConnect \/ SLeave \/ SSubmit \/ SOther \/ SSearch \/ SStopped
  \/ DataLinkSteps /\ UNCHANGED slvars
  \/ SeedLinkSteps /\ UNCHANGED <<archivevars, dlvars>>

SSpec == SInit /\ [][SNext]_svars

-----------------------------------------------------------------------------
\* The types; a search stays within the ring and the number of packets it may
\* look at (RingAfter(), RingAfterRev()).
STypeOK ==
  /\ reader \in [pktoffset : Offsets \cup {-1},
                 pktid : PktIds \cup {RINGID_NONE, RINGID_NEXT, RINGID_EARLIEST},
                 pkttime : 0 .. MaxTime \cup {NSTUNSET}]
  /\ state \in {"closed", "COMMAND", "STATION", "RINGCONFIG", "STREAM"}
  /\ state = "RINGCONFIG" => search.pc # "idle"
  /\ search.pc # "idle" => search.at \in Offsets /\ search.count < MaxPackets
  /\ errors \in 0 .. MAX_CONSECUTIVE_ERRORS - 1
  /\ ArchiveTypeOK
  /\ DOMAIN sl.stations \subseteq wanted
  /\ DOMAIN sl.reached \subseteq Streams

\* The streams of a SeedLink client, its newest packet, and the packets it
\* has not been sent.
Requested == IF wanted = {} THEN Streams ELSE wanted
NewestHad == Newest({last[s] : s \in Requested})
Unseen == {o \in Live : slot[o].streamid \in Requested /\ slot[o].pktid > NewestHad}

\* The request just configured resumes after the last packet of each stream.
Resumes ==
  IF wanted = {} THEN sl.startid = NewestHad + 1
  ELSE \A s \in wanted : last[s] > 0 => sl.stations[s].packetid = last[s] + 1

\* The server can tell where: the newest packet is in the ring or, if its
\* station gives no time, the one after it is.
ResumePointKnown ==
  \/ InRing(NewestHad)
  \/ InRing(NewestHad + 1) /\ \A s \in wanted : last[s] = NewestHad =>
                                sl.stations[s].datastart = NSTUNSET

\* No station asks for everything.
OnlyResumes == \A s \in DOMAIN sl.stations : sl.stations[s].packetid # RINGID_EARLIEST

(* A SeedLink client that returns, with one resume point for each station, *)
(* continues where it left: once the reader is configured every packet in  *)
(* the ring newer than the newest it has is still to be read, and at most  *)
(* that newest one is read again.  This is so as long as the server still  *)
(* has the packet that confirms the resume point, and the 24-bit sequence  *)
(* number was completed to the right packet ID (slclient.c, SLHandleCmd()  *)
(* in RINGCONFIG and ValidateResumePoint(); ring.c, RingPositionBefore()). *)
ResumeContinues ==
  [][ /\ SLClient /\ state \in {"COMMAND", "STATION"} /\ state' = "STREAM"
      /\ NewestHad > 0 /\ Resumes' /\ ResumePointKnown'
      => /\ Unseen \subseteq Ahead(reader)'
         /\ OnlyResumes' => \A o \in Ahead(reader)' : slot[o].pktid >= NewestHad ]_svars

(* A time window is over exactly when every stream received is past its    *)
(* end: the connection goes on while there is one that is not, however the *)
(* packets of the streams follow each other, and it is ended with the      *)
(* packet that takes the last one past the end (slclient.c,                *)
(* SLStreamPackets()).                                                     *)
WindowEndsExactly ==
  SLStreaming /\ Windowed =>
    /\ DOMAIN sl.reached # {} => \E s \in DOMAIN sl.reached : ~sl.reached[s]
    /\ ENDNext => \A s \in DOMAIN sl.reached \cup {slot[NextPacket].streamid} :
                    EndReached(s) \/ (s = slot[NextPacket].streamid
                                      /\ DataStart(NextPacket) > sl.endtime)

=============================================================================
