----------------------------- MODULE RingRestart -----------------------------
(***************************************************************************)
(* The ring over restarts of the server: RingInitialize(), RingShutdown(), *)
(* the recovery main() makes when the ring cannot be initialized, and      *)
(* LoadBufferV3(), which refills a ring whose parameters changed (V1 and   *)
(* V2 of it run the same loop over the file of an earlier release).  Each  *)
(* step that changes a file is an action, so the process can die between   *)
(* any two of them.                                                        *)
(*                                                                         *)
(* The server modelled keeps its RingSize and MaxPacketSize over its       *)
(* restarts.  Servers with other parameters, and of earlier releases, run  *)
(* between them and leave files with a number of slots of their own.  The  *)
(* ring size counts the bytes behind the header page.                      *)
(***************************************************************************)
EXTENDS Ring, Sequences

CONSTANTS
  Mine,        \* config.ringsize and config.pktsize of this server
  OtherParams, \* those of other servers
  OtherFiles,  \* the packet buffer files other servers leave
  MaxStarts    \* bound: times a server is started

\* The number of packets that fit, maxpackets of RingInitialize().
Slots(p) == p.ringsize \div p.pktsize

Params == {Mine} \cup OtherParams

RING_VERSION == 3

Versions == 0 .. RING_VERSION

HeaderType ==
  [version : Versions, params : Params, earliestoffset : Int, latestoffset : Int]

\* A packet buffer file: its length, its header and the packets in its slots,
\* as many as the parameters in the header say.
IsFile(f) ==
  LET n == Slots(f.header.params)
  IN  /\ f = [length |-> f.length, header |-> f.header, slot |-> f.slot]
      /\ f.length \in Nat
      /\ f.header \in HeaderType
      /\ f.header.earliestoffset \in -1 .. n - 1 /\ f.header.latestoffset \in -1 .. n - 1
      /\ f.slot \in [0 .. n - 1 -> Packet]

\* A buffer has no earliest packet just if it has no latest.
HeaderEnds(hd) == hd.earliestoffset < 0 <=> hd.latestoffset < 0

ASSUME RestartAssumption ==
  /\ Params \subseteq [ringsize : Nat, pktsize : Nat \ {0}]
  /\ \A p \in Params : Slots(p) \in Nat /\ Slots(p) >= 2
  /\ MaxPackets = Slots(Mine)
  /\ \A f \in OtherFiles : IsFile(f) /\ HeaderEnds(f.header)
  /\ MaxStarts \in Nat

VARIABLES
  server,      \* "down", "up", a step of main()'s recovery or of RingShutdown()
  config,      \* the configuration the server was started with
  ringfile,    \* the packet buffer file
  streamfile,  \* the entries of the stream index file, none if it is empty or missing
  backup,      \* the buffer file renamed to .versionN (nothing reads a .corrupt one)
  convert,     \* convert_version > 0: the backup is to be loaded
  loadoffset,  \* offset variable of LoadBufferV3(), -1 once its loop is left
  load,        \* history: places of the packets loaded, and how many were skipped
  saved,       \* history: the packets the last orderly RingShutdown() left in the files
  starts,      \* times a server was started
  marks        \* history: what befell the files, and the ring read from them

diskvars == <<ringfile, streamfile, backup>>
loadvars == <<convert, loadoffset, load>>
rvars == <<vars, server, config, diskvars, loadvars, saved, starts, marks>>

Configs ==
  {c \in [memorymapring : BOOLEAN, volatilering : BOOLEAN] :
     c.volatilering => ~c.memorymapring}

\* The header of a page without signature.
NoHeader == [version |-> 0, params |-> Mine, earliestoffset |-> -1, latestoffset |-> -1]

EmptySlots == [o \in Offsets |-> EmptySlot]

\* A file that does not exist.
NoFile == [length |-> 0, header |-> NoHeader, slot |-> EmptySlots]

\* No packet of a backup was visited.
NoLoad == [kept |-> <<>>, skips |-> 0]

EmptyIndex == [s \in {} |-> {}]

\* The ring has no packets; its buffer holds the slots given.
FreshRing(slots) ==
  /\ slot' = slots
  /\ earliestoffset' = -1 /\ latestoffset' = -1
  /\ streamidx' = EmptyIndex /\ streamcount' = 0
  /\ last_pkttime' = 0

\* In a buffer of n slots: the slot i places after slot e, and the places
\* from slot e to slot o.
SlotAfterOf(n, e, i) == IF e + i < n THEN e + i ELSE e + i - n
PlacesOf(n, e, o) == IF o >= e THEN o - e ELSE o - e + n

\* The packets of a buffer of n slots, from its earliest to its latest.
PacketsOfBuffer(n, slots, earliest, latest) ==
  IF latest < 0 THEN <<>>
  ELSE [i \in 1 .. PlacesOf(n, earliest, latest) + 1 |->
          LET o == SlotAfterOf(n, earliest, i - 1)
          IN  [pktid |-> slots[o].pktid, streamid |-> slots[o].streamid]]

RingPackets == PacketsOfBuffer(MaxPackets, slot, earliestoffset, latestoffset)

-----------------------------------------------------------------------------
(* RingInitialize() and the start of main().                               *)

\* The stream of the packet at offset o has an entry in the index file.
StreamFound(o) == ringfile.slot[o].streamid \in DOMAIN streamfile

\* A ring with packets whose stream index is missing, or does not know the
\* streams of its earliest and latest packets.
Corrupt ==
  \/ DOMAIN streamfile = {}
  \/ ~StreamFound(ringfile.header.earliestoffset)
  \/ ~StreamFound(ringfile.header.latestoffset)

\* The file is of this version and has other parameters, but no larger packets.
Rebuildable(hd) ==
  hd.version = RING_VERSION /\ hd.params # Mine /\ hd.params.pktsize <= Mine.pktsize

\* What RingInitialize() makes of the files.
Outcome(c) ==
  LET hd == ringfile.header
  IN  IF c.volatilering THEN "reset"
      ELSE IF Rebuildable(hd) THEN "version"
      ELSE IF ringfile.length # Mine.ringsize THEN "reset"
      ELSE IF hd.version \notin {0, RING_VERSION} THEN "version"
      ELSE IF hd.version = 0 \/ hd.params # Mine THEN "reset"
      ELSE IF hd.earliestoffset >= 0 /\ Corrupt THEN "corrupt"
      ELSE "recovered"

\* A mistake for RecoverRing: the ring starts at its latest packet.
RecoverRingLatest ==
  /\ slot' = ringfile.slot
  /\ earliestoffset' = ringfile.header.latestoffset
  /\ latestoffset' = ringfile.header.latestoffset
  /\ streamidx' = streamfile /\ streamcount' = Cardinality(DOMAIN streamfile)
  /\ last_pkttime' = 0
  /\ UNCHANGED ringfile

\* The offsets come from the header, the index from the stream index file.
RecoverRing ==
  LET idx == IF ringfile.header.earliestoffset >= 0 THEN streamfile ELSE EmptyIndex
  IN  /\ slot' = ringfile.slot
      /\ earliestoffset' = ringfile.header.earliestoffset
      /\ latestoffset' = ringfile.header.latestoffset
      /\ streamidx' = idx /\ streamcount' = Cardinality(DOMAIN idx)
      /\ last_pkttime' = 0
      /\ UNCHANGED ringfile

\* The contents are discarded.  A file of another size, or a new one, is cut or
\* extended; its header stays until the next RingShutdown().  What is in the
\* slots of the ring now is never read and written as empty.
ResetRing(c) ==
  /\ FreshRing(EmptySlots)
  /\ ringfile' = IF c.volatilering THEN ringfile
                 ELSE [length |-> Mine.ringsize, header |-> ringfile.header,
                       slot |-> ringfile.slot]

\* A server is started.
Start(c) ==
  /\ server = "down"
  /\ starts < MaxStarts
  /\ starts' = starts + 1
  /\ config' = c

\* main() starting up with files RingInitialize() accepts or resets.
StartServer(c) ==
  LET recovered == Outcome(c) = "recovered"
  IN  /\ Start(c)
      /\ Outcome(c) \in {"reset", "recovered"}
      /\ server' = "up"
      /\ IF recovered THEN RecoverRing ELSE ResetRing(c)
      /\ marks' = [files |-> IF recovered \/ c.volatilering THEN marks.files
                             ELSE IF ringfile.header.version = 0 THEN {} ELSE {"torn"},
                   ring  |-> IF recovered THEN marks.files ELSE {}]
      /\ UNCHANGED <<streamfile, backup, loadvars, saved>>

\* main() starting up after RingInitialize() failed.  With AutoRecovery 1 the
\* buffer file is renamed, to be loaded if it is of another version or has
\* other parameters; with 2 it is removed.
StartRecovering(c) ==
  /\ Start(c)
  /\ Outcome(c) \in {"corrupt", "version"}
  /\ server' = "moved"
  /\ \/ convert' = FALSE /\ UNCHANGED backup
     \/ Outcome(c) = "version" /\ convert' = TRUE /\ backup' = ringfile
  /\ ringfile' = NoFile
  /\ FreshRing(EmptySlots)
  /\ marks' = [files |-> {}, ring |-> {}]
  /\ loadoffset' = -1 /\ load' = NoLoad
  /\ UNCHANGED <<streamfile, saved>>

\* The index file is renamed or removed, too.
MoveIndex ==
  /\ server = "moved"
  /\ server' = "cleared"
  /\ streamfile' = EmptyIndex
  /\ UNCHANGED <<vars, config, ringfile, backup, loadvars, saved, starts, marks>>

\* RingInitialize() once the files are out of the way.
Reinitialize ==
  /\ server = "cleared"
  /\ server' = IF convert THEN "opening" ELSE "up"
  /\ ResetRing(config)
  /\ UNCHANGED <<config, streamfile, backup, loadvars, saved, starts, marks>>

\* A server with other parameters, or of an earlier release, ran and left its
\* packet buffer file, with or without an index of its own: no server with
\* these parameters reads that, so it is written as empty.
OtherServer ==
  /\ server = "down"
  /\ starts < MaxStarts
  /\ starts' = starts + 1
  /\ ringfile' \in OtherFiles
  /\ streamfile' \in {streamfile, EmptyIndex}
  /\ saved' = <<>>
  /\ marks' = [files |-> {"torn"}, ring |-> {}]
  /\ UNCHANGED <<vars, server, config, backup, loadvars>>

-----------------------------------------------------------------------------
(* Writing, in service and from LoadBufferV3().                            *)

\* The process has not stamped a packet since it read the ring, and the clock
\* is behind the latest packet.
ClockBehind(now) ==
  /\ latestoffset >= 0
  /\ now <= slot[latestoffset].pkttime
  /\ last_pkttime < slot[latestoffset].pkttime

MarkClock(now) ==
  marks' = IF ClockBehind(now) THEN [marks EXCEPT !.ring = @ \cup {"clockback"}] ELSE marks

\* A packet written by a client or the scanner.
ServerWrite(sid, now) ==
  /\ server = "up"
  /\ RingWrite(sid, now, RINGID_NONE) \/ RingWriteError(sid, now)
  /\ MarkClock(now)
  /\ UNCHANGED <<server, config, diskvars, loadvars, saved, starts>>

BackupSlots == Slots(backup.header.params)

\* LoadBufferV3() opens the backup and reads its header: the loop starts at the
\* earliest packet, or the backup is empty.
LoadOpen ==
  /\ server = "opening"
  /\ backup.header.earliestoffset >= 0 => backup.header.params.pktsize <= Mine.pktsize
  /\ server' = "loading"
  /\ loadoffset' = backup.header.earliestoffset
  /\ load' = NoLoad
  /\ UNCHANGED <<vars, config, diskvars, convert, saved, starts, marks>>

\* It returns -1, for packets that are too large or a file it cannot read: the
\* backup stays.
LoadRefused ==
  /\ server = "opening"
  /\ server' = "up"
  /\ UNCHANGED <<vars, config, diskvars, loadvars, saved, starts, marks>>

LoadSlot == backup.slot[loadoffset]

\* The place of the packet at loadoffset among those of the backup.
LoadPlace == PlacesOf(BackupSlots, backup.header.earliestoffset, loadoffset) + 1

\* The packet lies within the file, which a reset may have cut.
Readable == (loadoffset + 1) * backup.header.params.pktsize <= backup.length

\* Mistakes for LoadNext: the packet at the end of the buffer is the last, and
\* the offset does not wrap around there.
LoadNextUnwrapped ==
  IF loadoffset = backup.header.latestoffset \/ loadoffset = BackupSlots - 1
    THEN -1 ELSE loadoffset + 1

LoadNextBeyond == IF loadoffset = backup.header.latestoffset THEN -1 ELSE loadoffset + 1

LoadNext ==
  IF loadoffset = backup.header.latestoffset THEN -1
  ELSE IF loadoffset + 1 > BackupSlots - 1 THEN 0 ELSE loadoffset + 1

\* A packet of the backup is written with the ID it had.
LoadPacket(now) ==
  /\ server = "loading" /\ loadoffset >= 0 /\ Readable
  /\ RingWrite(LoadSlot.streamid, now, LoadSlot.pktid)
  /\ loadoffset' = LoadNext
  /\ load' = [load EXCEPT !.kept = Append(@, LoadPlace)]
  /\ MarkClock(now)
  /\ UNCHANGED <<server, config, diskvars, convert, saved, starts>>

\* A packet is skipped: its data would not fit its slot or, coming from version
\* 1, its stream ID is too long once translated.
LoadSkip ==
  /\ server = "loading" /\ loadoffset >= 0 /\ Readable
  /\ loadoffset' = LoadNext
  /\ load' = [load EXCEPT !.skips = @ + 1]
  /\ UNCHANGED <<vars, server, config, diskvars, convert, saved, starts, marks>>

\* The loop is left because a packet could not be read or written.
LoadBreak(now) ==
  /\ server = "loading" /\ loadoffset >= 0
  /\ \/ Readable /\ RingWriteError(LoadSlot.streamid, now)
     \/ UNCHANGED vars
  /\ loadoffset' = -1
  /\ UNCHANGED <<server, config, diskvars, convert, load, saved, starts, marks>>

\* LoadBufferV3() returned the number of packets: main() removes the backup.
LoadDone ==
  /\ server = "loading" /\ loadoffset < 0
  /\ server' = "up"
  /\ backup' = NoFile
  /\ convert' = FALSE
  /\ UNCHANGED <<vars, config, ringfile, streamfile, loadoffset, load, saved, starts, marks>>

-----------------------------------------------------------------------------
(* RingShutdown(), and the process dying at any moment.                    *)

ShutdownVolatile ==
  /\ server = "up" /\ config.volatilering
  /\ server' = "down"
  /\ FreshRing(EmptySlots)
  /\ marks' = [marks EXCEPT !.ring = {}]
  /\ UNCHANGED <<config, diskvars, loadvars, saved, starts>>

\* The stream index file is opened and truncated, or cannot be opened.
ShutdownOpen ==
  /\ server = "up" /\ ~config.volatilering
  /\ \/ /\ server' = "closing_index"
        /\ streamfile' = EmptyIndex
        /\ UNCHANGED marks
     \/ /\ server' = "closing_ring"
        /\ UNCHANGED streamfile
        /\ marks' = [marks EXCEPT !.ring = @ \cup {"torn"}]
  /\ UNCHANGED <<vars, config, ringfile, backup, loadvars, saved, starts>>

\* The entries are written one by one, past those whose write fails.
ShutdownIndex ==
  /\ server = "closing_index"
  /\ server' = "closing_ring"
  /\ \E kept \in SUBSET DOMAIN streamidx :
       /\ streamfile' = [s \in kept |-> streamidx[s]]
       /\ marks' = IF kept = DOMAIN streamidx THEN marks
                   ELSE [marks EXCEPT !.ring = @ \cup {"torn"}]
  /\ UNCHANGED <<vars, config, ringfile, backup, loadvars, saved, starts>>

\* A mistake for StoredHeader: the offsets are not stored.
StoredHeaderStale ==
  [version |-> RING_VERSION, params |-> Mine,
   earliestoffset |-> ringfile.header.earliestoffset,
   latestoffset |-> ringfile.header.latestoffset]

StoredHeader ==
  [version |-> RING_VERSION, params |-> Mine,
   earliestoffset |-> earliestoffset, latestoffset |-> latestoffset]

\* What is at slot o of the ring file; under a header with other parameters the
\* slots lie elsewhere, and what is here counts for nothing.
FileSlot(o) == IF ringfile.header.params = Mine THEN ringfile.slot[o] ELSE EmptySlot

\* The ring file with a header and the first n slots of the buffer written.
PartialFile(header, n) ==
  [length |-> ringfile.length, header |-> header,
   slot |-> [o \in Offsets |-> IF o < n THEN slot[o] ELSE FileSlot(o)]]

\* The header and, unless the file is mapped, the buffer are written; writing
\* them out may fail part way (dying in the middle leaves the same files).
ShutdownRing ==
  /\ server = "closing_ring"
  /\ server' = "down"
  /\ \/ /\ ringfile' = PartialFile(StoredHeader, MaxPackets)
        /\ saved' = RingPackets
        /\ marks' = [files |-> marks.ring, ring |-> {}]
     \/ /\ ~config.memorymapring
        /\ \/ \E n \in 0 .. MaxPackets - 1 : ringfile' = PartialFile(StoredHeader, n)
           \/ UNCHANGED ringfile
        /\ saved' = <<>>
        /\ marks' = [files |-> marks.ring \cup {"torn"}, ring |-> {}]
  /\ FreshRing(EmptySlots)
  /\ UNCHANGED <<config, streamfile, backup, loadvars, starts>>

\* The ring's buffer under the header of a file with other parameters: what is
\* found in the slots of that header counts for nothing.
Overwritten ==
  [length |-> ringfile.length, header |-> ringfile.header,
   slot |-> [o \in 0 .. Slots(ringfile.header.params) - 1 |-> EmptySlot]]

\* The server has initialized the ring.
HasRing == server \in {"opening", "loading", "up", "closing_index", "closing_ring"}

\* What is in the mapped file when the process dies: the buffer, under the
\* header of the last RingShutdown() or, in this one, without signature.
CrashedFiles ==
  IF config.memorymapring /\ HasRing
    THEN {IF ringfile.header.params = Mine
            THEN PartialFile(ringfile.header, MaxPackets) ELSE Overwritten}
         \cup (IF server = "closing_ring" THEN {PartialFile(NoHeader, MaxPackets)} ELSE {})
    ELSE {ringfile}

\* The files no longer belong together: the process died in RingShutdown(), or
\* the file of a running ring was mapped.
CrashTears == (config.memorymapring /\ HasRing) \/ server \in {"closing_index", "closing_ring"}

Crash ==
  /\ server # "down"
  /\ server' = "down"
  /\ ringfile' \in CrashedFiles
  /\ FreshRing(EmptySlots)
  /\ marks' = [files |-> IF CrashTears THEN {"torn"} ELSE marks.files, ring |-> {}]
  /\ convert' = FALSE /\ loadoffset' = -1 /\ load' = NoLoad
  /\ saved' = IF CrashTears THEN <<>> ELSE saved
  /\ UNCHANGED <<config, streamfile, backup, starts>>

-----------------------------------------------------------------------------
RInit ==
  /\ Init
  /\ server = "down"
  /\ config \in {c \in Configs : c.volatilering}
  /\ ringfile = NoFile /\ streamfile = EmptyIndex /\ backup = NoFile
  /\ convert = FALSE /\ loadoffset = -1 /\ load = NoLoad
  /\ saved = <<>>
  /\ starts = 0
  /\ marks = [files |-> {}, ring |-> {}]

RNext ==
  \/ \E c \in Configs : StartServer(c) \/ StartRecovering(c)
  \/ MoveIndex \/ Reinitialize \/ OtherServer
  \/ \E sid \in Streams, now \in Instants : ServerWrite(sid, now)
  \/ \E now \in Instants : LoadPacket(now) \/ LoadBreak(now)
  \/ LoadOpen \/ LoadRefused \/ LoadSkip \/ LoadDone
  \/ ShutdownVolatile \/ ShutdownOpen \/ ShutdownIndex \/ ShutdownRing
  \/ Crash

RSpec == RInit /\ [][RNext]_rvars

-----------------------------------------------------------------------------
MarksType == [files : SUBSET {"torn", "clockback"}, ring : SUBSET {"torn", "clockback"}]

\* The types of RingInitialize()'s, RingShutdown()'s and LoadBufferV3()'s state.
RTypeOK ==
  /\ slot \in [Offsets -> Packet]
  /\ earliestoffset \in Offsets \cup {-1} /\ latestoffset \in Offsets \cup {-1}
  /\ streamidx \in [DOMAIN streamidx -> RingStream]
  /\ DOMAIN streamidx \subseteq Streams \cup {NoStream}
  /\ streamcount \in Nat /\ last_pkttime \in 0 .. MaxTime
  /\ server \in {"down", "moved", "cleared", "opening", "loading", "up",
                 "closing_index", "closing_ring"}
  /\ config \in Configs
  /\ IsFile(ringfile) /\ IsFile(backup)
  /\ streamfile \in [DOMAIN streamfile -> RingStream]
  /\ convert \in BOOLEAN
  /\ loadoffset \in -1 .. BackupSlots - 1
  /\ load \in [kept : Seq(Nat), skips : Nat]
  /\ marks \in MarksType

\* The first and the last slot of T in ring order.
FirstInRing(o, T) == o \in T /\ \A p \in T : Rank(o) <= Rank(p)
LastInRing(o, T)  == o \in T /\ \A p \in T : Rank(p) <= Rank(o)

\* Index, links and count agree with the packets, in ring order.
SoundRing ==
  /\ DOMAIN streamidx = {slot[o].streamid : o \in Live}
  /\ streamcount = Cardinality(DOMAIN streamidx)
  /\ \A s \in DOMAIN streamidx :
       /\ FirstInRing(streamidx[s].earliestoffset, PacketsOf(Live, s))
       /\ LastInRing(streamidx[s].latestoffset, PacketsOf(Live, s))
       /\ streamidx[s].earliestid = slot[streamidx[s].earliestoffset].pktid
       /\ streamidx[s].latestid = slot[streamidx[s].latestoffset].pktid
  /\ \A o \in Live :
       LET later == {p \in PacketsOf(Live, slot[o].streamid) : Rank(o) < Rank(p)}
       IN  IF later = {} THEN slot[o].nextinstream = -1
                         ELSE FirstInRing(slot[o].nextinstream, later)

(* Whatever was restarted, reconfigured, rebuilt or renamed, and wherever  *)
(* a process with an unmapped ring died outside RingShutdown(), the ring a *)
(* server works on agrees with its stream index, links and count: the only *)
(* rings that may not are those read from files that a dying process or a  *)
(* failed write left torn (RingInitialize(), RingShutdown(), main()).      *)
RecoveredRingSound == server # "down" /\ "torn" \notin marks.ring => SoundRing

(* A start that recovers untorn files brings back exactly the packets of   *)
(* the last orderly RingShutdown(), in their order and with their IDs,     *)
(* also when servers in between ran with another configuration or died.    *)
RestartRestoresSaved ==
  [][\A c \in Configs :
       StartServer(c) /\ Outcome(c) = "recovered" /\ "torn" \notin marks.files
         => RingPackets' = saved]_rvars

(* Creation times grow in ring order over restarts, too, unless the clock  *)
(* was behind the latest packet at the first write after one: the last     *)
(* stamp is not saved (ring.c, last_pkttime).                              *)
TimesIncreaseOverRestarts == server # "down" /\ marks.ring = {} => TimesIncrease

BackupPackets ==
  PacketsOfBuffer(BackupSlots, backup.slot, backup.header.earliestoffset,
                  backup.header.latestoffset)

Smaller(m, n) == IF m <= n THEN m ELSE n

\* The newest packets loaded, as many as the ring holds.
NewestLoaded ==
  LET m == Len(load.kept)
      n == Smaller(m, MaxPackets)
  IN  [i \in 1 .. n |-> BackupPackets[load.kept[m - n + i]]]

\* Every place of the backup up to the one reached was visited once, in order.
VisitedInOrder ==
  LET visited == Len(load.kept) + load.skips
  IN  /\ \A i, j \in 1 .. Len(load.kept) : i < j => load.kept[i] < load.kept[j]
      /\ visited = IF loadoffset < 0 THEN Len(BackupPackets) ELSE LoadPlace - 1

(* While a buffer with a number of slots of its own is rebuilt, every      *)
(* packet of it is visited once, from its earliest to its latest around    *)
(* the end of the file, and the ring holds the newest of the packets that  *)
(* were not skipped, as many as fit, in their order and with the IDs that  *)
(* resuming clients know (loadbuffer.c, LoadBufferV3()).                   *)
RebuildKeepsPackets ==
  [][LoadSkip \/ (\E now \in Instants : LoadPacket(now))
       => VisitedInOrder' /\ RingPackets' = NewestLoaded']_rvars

=============================================================================
