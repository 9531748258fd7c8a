------------------------------ MODULE DataLink ------------------------------
(***************************************************************************)
(* The DataLink protocol, dlclient.c: a client that reads (positions,      *)
(* selects, reads and streams) or one that writes miniSEED to a server     *)
(* that archives it.  Replies are left out.  Commands with malformed       *)
(* arguments reply an error and change nothing but the state, like the     *)
(* commands that fail here.  ID and INFO change nothing.  Packets written  *)
(* with an ID of the client's choice (flag I) are in modules Ring and      *)
(* RingReaders only: here the ring numbers the packets.                    *)
(***************************************************************************)
EXTENDS Connection, Archive

CONSTANTS
  RefTimes,   \* data times asked for
  MaxWrites   \* bound on the packets of a client that writes

\* The key of a record names its stream.
ASSUME DataLinkAssumption == \A key \in Keys : key.stream \in Streams

VARIABLES
  submitted,  \* packet ID -> key, of the packets with a record to archive
  shutdownsig \* param.shutdownsig

dlvars == <<submitted, shutdownsig>>

DataLinkInit ==
  /\ ArchiveInit
  /\ submitted = [i \in {} |-> {}]
  /\ shutdownsig = FALSE

Reading == client.protocol = "reader" /\ Connected /\ search.pc = "idle"
Writing == client.protocol = "writer" /\ Connected /\ pending = NoRecord

\* The thread's end closes the archive's files.
DLClosed == Closed /\ ArchiveShutdown /\ UNCHANGED diskvars

Unwritten == UNCHANGED <<archivevars, dlvars>>

\* A command ends a client's streaming, whether it succeeds or not.
Command ==
  /\ state' = "COMMAND"
  /\ Handled
  /\ UNCHANGED perms
  /\ Unwritten

DLAuth ==
  /\ Reading \/ Writing
  /\ Auth("COMMAND")
  /\ IF state' = "closed" THEN ArchiveShutdown /\ UNCHANGED diskvars ELSE UNCHANGED archivevars
  /\ UNCHANGED dlvars

DLUnrecognized ==
  /\ Reading \/ Writing
  /\ ClientError("COMMAND")
  /\ IF state' = "closed" THEN ArchiveShutdown /\ UNCHANGED diskvars ELSE UNCHANGED archivevars
  /\ UNCHANGED dlvars

-----------------------------------------------------------------------------
(* POSITION, MATCH and REJECT.                                             *)

\* POSITION SET EARLIEST: just before the earliest packet.
PositionEarliest ==
  /\ Reading /\ Command
  /\ reader' = Before(RINGID_EARLIEST)
  /\ UNCHANGED <<sel, search>>

\* POSITION SET LATEST or an ID, with a packet time or not: at the packet, if
\* it is in the ring and of that time.
PositionSet ==
  /\ Reading /\ Command
  /\ \/ reader' = reader
     \/ latestoffset >= 0 /\ reader' = At(latestoffset)
     \/ \E o \in Live : reader' = At(o)
  /\ UNCHANGED <<sel, search>>

\* POSITION AFTER a time, in an empty ring: wait for the next packet.
PositionAfterEmpty ==
  /\ Reading /\ Command /\ latestoffset < 0
  /\ reader' = [reader EXCEPT !.pktoffset = -1, !.pktid = RINGID_NEXT]
  /\ UNCHANGED <<sel, search>>

PositionAfter(ref) ==
  /\ Reading /\ Command /\ latestoffset >= 0
  /\ search' = BeginSearch(ref, 1)
  /\ UNCHANGED <<reader, sel>>

\* The search started by POSITION AFTER is over.
PositionAfterDone ==
  /\ client.protocol = "reader" /\ search.pc # "idle"
  /\ \/ SearchSucceeds /\ reader' = FoundPosition
     \/ SearchFails /\ reader' = [reader EXCEPT !.pktoffset = -1, !.pktid = RINGID_NEXT]
  /\ search' = NoSearch
  /\ Command
  /\ UNCHANGED sel

\* MATCH and REJECT with an expression, without one, and with one that does
\* not compile: the former expression is gone in each case.
Match ==
  /\ Reading /\ Command
  /\ \E p \in Patterns \cup {Streams} : sel' = [sel EXCEPT !.match = p]
  /\ UNCHANGED <<reader, search>>

Reject ==
  /\ Reading /\ Command
  /\ \E p \in Patterns \cup {{}} : sel' = [sel EXCEPT !.reject = p]
  /\ UNCHANGED <<reader, search>>

-----------------------------------------------------------------------------
(* READ, STREAM and ENDSTREAM.                                             *)

\* READ or STREAM without the authentication that is required.
Refused ==
  /\ Reading /\ AuthMissing
  /\ DLClosed
  /\ sent' = NoStream
  /\ UNCHANGED <<ringvars, dlvars>>

\* READ of a packet in the ring moves the reader, also when the stream is not
\* allowed and the reply is that the packet was not found.
Read ==
  /\ Reading /\ ~AuthMissing
  /\ state' = "COMMAND"
  /\ errors' = 0
  /\ \E o \in Live :
       /\ reader' = At(o)
       /\ sent' = IF Allowed(slot[o].streamid) THEN slot[o].streamid ELSE NoStream
  /\ UNCHANGED <<ringvars, datatime, pktlimit, sel, search, client, perms>>
  /\ Unwritten

\* READ of a packet that is not in the ring, and ENDSTREAM.
ReadNothing ==
  /\ Reading /\ Command
  /\ UNCHANGED <<reader, sel, search>>

Stream ==
  /\ Reading /\ ~AuthMissing
  /\ reader' = IF reader.pktid = RINGID_NONE THEN [reader EXCEPT !.pktid = RINGID_NEXT]
                                             ELSE reader
  /\ state' = "STREAM"
  /\ Handled
  /\ Unwritten
  /\ UNCHANGED <<sel, search, perms>>

\* DLStreamPackets()
StreamPackets ==
  /\ Reading /\ state = "STREAM"
  /\ \/ \E o \in Live : ReadNext(o) /\ sent' = slot[o].streamid
     \/ ReadNone /\ sent' = NoStream
  /\ UNCHANGED <<ringvars, datatime, pktlimit, sel, search, client, state,
                 perms, errors>>
  /\ Unwritten

-----------------------------------------------------------------------------
(* WRITE                                                                   *)

MayWriteStream(s) == "WRITE" \in perms /\ s \in sel.allowed /\ last_pkttime < MaxWrites

\* No permission, a packet too large, or the connection fails before the data
\* are read: the client is disconnected and nothing is written.
WriteRefused ==
  /\ Writing
  /\ DLClosed
  /\ sent' = NoStream
  /\ UNCHANGED <<ringvars, dlvars>>

\* The file of the record is found.
WriteNames(s, key, flags) ==
  /\ Writing /\ MayWriteStream(s)
  /\ Names(key, flags)
  /\ sent' = NoStream
  /\ UNCHANGED <<ringvars, rsvars, client, state, perms, errors, dlvars>>

\* The data are not miniSEED, or msr3_parse() rejects the record: nothing is
\* archived, and the packet goes to the ring.
WriteSkips(s, key, flags) ==
  /\ Writing /\ MayWriteStream(s)
  /\ pending' = Pending("skipped", key, FileForRecord(key, flags))
  /\ sent' = NoStream
  /\ UNCHANGED <<ringvars, rsvars, client, state, perms, errors, groups, openfilecount, diskvars,
                 dlvars>>

\* The record is in the archive before its packet has an ID: it is told by
\* the ID it is going to have.
WriteArchives ==
  /\ pending.step = "named"
  /\ Archived(NextPktId)
  /\ sent' = NoStream
  /\ UNCHANGED <<ringvars, rsvars, client, state, perms, errors, dlvars>>

\* A mistake for WriteArchiveFails: the failure is only logged.
WriteArchiveIgnored ==
  /\ pending.step = "named"
  /\ pending' = [pending EXCEPT !.step = "archived"]
  /\ sent' = NoStream
  /\ UNCHANGED <<ringvars, rsvars, client, state, perms, errors, groups, openfilecount, diskvars,
                 dlvars>>

\* The record cannot be archived.
WriteArchiveFails ==
  /\ pending.step = "named"
  /\ ArchiveFails
  /\ ArchiveShutdown
  /\ Closed
  /\ sent' = NoStream
  /\ UNCHANGED <<ringvars, dlvars>>

\* The packet is added to the ring.  The client goes on, or is disconnected
\* because the acknowledgement cannot be sent.
WriteRing ==
  /\ pending.step \in {"archived", "skipped"}
  /\ RingWrite(pending.key.stream, 0, RINGID_NONE)
  /\ submitted' = IF pending.step = "skipped" THEN submitted
                  ELSE [i \in DOMAIN submitted \cup {NextPktId} |->
                          IF i = NextPktId THEN pending.key ELSE submitted[i]]
  /\ pending' = NoRecord
  /\ errors' = 0
  /\ sent' = NoStream
  /\ UNCHANGED <<rsvars, client, state, perms, groups, openfilecount, diskvars, shutdownsig>>

\* RingWrite() finds the ring corrupt, or has no memory: the server is shut
\* down.
WriteRingFails ==
  /\ pending.step \in {"archived", "skipped"}
  /\ RingWriteError(pending.key.stream, 0)
  /\ shutdownsig' = TRUE
  /\ ArchiveShutdown
  /\ Closed
  /\ sent' = NoStream
  /\ UNCHANGED <<diskvars, submitted>>

-----------------------------------------------------------------------------
(* A packet whose data are a miniSEED record can be read from the ring     *)
(* only when the record is whole in an archive file of its key: the        *)
(* archive is written first and its failures are not passed over, and      *)
(* closing, reopening and reconnecting lose no record.  Data that          *)
(* msr3_parse() rejects are served without being archived (dlclient.c,     *)
(* HandleWrite()).                                                         *)
ArchivedBeforeServed ==
  \A o \in Live :
    slot[o].pktid \in DOMAIN submitted =>
      \E f \in DOMAIN files : f.key = submitted[slot[o].pktid] /\ slot[o].pktid \in files[f]

=============================================================================
