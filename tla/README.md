# A formal model of ringserver

ringserver is a streaming server for packets of seismological and other time
series data. Clients write packets over DataLink (or a scanner reads them from
miniSEED files); the server keeps the most recent ones in a ring buffer; other
clients read them over DataLink, SeedLink, HTTP or WebSocket. This directory
holds TLA+ modules of the ring, its persistence, the protocol sessions, the
archive, the scanner and the threads, the TLC models that check them on small
instances, and TLAPS proofs of the safety properties they check, for every
value of the constants.

Run `tlc -config X.cfg M` for a model and `tlapm P.tla` for a proof module.

## 1. Inventory

| Part | Source (src/src) | State | Operations | Hard behaviour |
|---|---|---|---|---|
| Ring, writing | ring.c | slots, earliest/latest offset, stream index, streamcount, last_pkttime | RingWrite, GetStreams | eviction, wrap-around, clock steps, failure in the middle of a write |
| Ring, reading | ring.c | a RingReader per client (offset, ID, time) | RingReadNext, RingRead, RingPosition, RingPositionBefore, FindOffsetForID | no lock: slots are overwritten under the reader |
| Ring, by time | ring.c | – | RingAfter, RingAfterRev | as above |
| Ring, persistence | ring.c, ringserver.c, loadbuffer.c | buffer file, stream file | RingInitialize, RingShutdown, auto-recovery, LoadBuffer | crash without shutdown, clock set back over a restart |
| Watchdog and threads | ringserver.c | td_state of every thread, cthreads, clientcount, shutdownsig | start, monitor, reap, idle close, shut down | states stored by two threads, late connections |
| Admission | ringserver.c | clientcount, cthreads | ConfigClient, ClientIPCount | check, then insert |
| Client loop | clients.c | buffers, error count, socket state | ClientThread, ClientRecv, SendDataMB, RecvData | timeouts, partial input |
| DataLink | dlclient.c | session state, reader | POSITION, MATCH, REJECT, READ, STREAM, WRITE, AUTH | positioning races with the ring; archive and ring written one after the other |
| SeedLink | slclient.c | stations, selectors, resume points, time window | negotiation, streaming | resume points that are gone, 24-bit sequence numbers, end of a window |
| HTTP, WebSocket | http.c | – | requests, frames | fragmented frames |
| INFO | infojson.c, infoxml.c | response cache | build, cache, flush | stale cached answers |
| Scanner | mseedscan.c | file tree, recursion level, state file | scan, save, prune, recover | restart between write and save, scans given up half way |
| Archive | dsarchive.c | open file groups, open-file count | ds_streamproc, ds_closeidle, ds_shutdown | open-file limit, failing writes |
| Authentication | auth.c | permissions, stream expressions | PerformAuth | granted again while streaming |
| Configuration, logging, TLS, PROXY | config.c, logging.c, tls.c, proxyproto.c | parameters | – | reload while threads read |
| Containers | rbtree.c, stack.c | – | – | sequential |

How they interact: every client thread calls the ring functions directly.
Writers serialise on `ringlock` (and `streamlock` for the index); readers take
no lock and detect an overwritten slot by its packet time. The watchdog in
`main()` owns the server threads; listeners create client threads and put them
on `param.cthreads` under `cthreads_lock`; every thread watches `td_state` or
`shutdownsig`. Vendored libraries (libmseed, mbedtls, mxml, pcre2, yyjson,
miniz) are left aside.

What makes each part correct: the ring holds exactly the latest packets and
its index describes them; a reader gets whole packets, in order, and loses
only what was evicted; a client that resumes gets what it asked for; no thread
touches the ring or a client's data after they are gone; a shutdown ends;
limits hold; a restart brings back the ring that was saved; a search by time
finds every packet it should; no record in a scanned file is passed over; what
is served was archived. PROJECT.json lists the hazards behind these one by one, with the
line where each bites.

## 2. Modules

| Module | Models |
|---|---|
| `PacketWindow` | abstract specification: the most recent packets in order, at most Capacity of them, stamps growing |
| `Ring` | RingWrite() as one action under its locks, with the stream index; implements `PacketWindow` |
| `RingReaders` | RingWrite() as separate stores against the lockless reading functions |
| `ServerThreads` | watchdog, listeners, scanning threads, client threads, limits, shutdown |
| `RingRestart` | `Ring` over restarts: RingInitialize(), RingShutdown(), auto-recovery, loading buffers of other sizes, crashes |
| `MSeedScan` | the scanner with its file tree and state file, over restarts |
| `RingSearch` | a reader over an atomic `Ring`: reading on, RingAfter() and RingAfterRev() |
| `Archive` | dsarchive.c: groups, open files, the files on disk shared with other connections |
| `Connection` | what the protocols share: connecting, errors, authentication, closing (extends `RingSearch`) |
| `DataLink`, `SeedLink` | the two protocols (extend `Connection`; DataLink also `Archive`) |
| `Sessions` | the composition of these while other clients write |
| `RingProofs` | theorems about `Ring`; that it implements `PacketWindow` |
| `ReadersProofs`, `PositionProofs`, `DeliveryProofs` | theorems about `RingReaders`: packets are whole; where a reader can be; order, gaps and resuming |
| `ThreadsProofs`, `ScanProofs`, `RestartProofs`, `SessionsProofs` | theorems about `ServerThreads`, `MSeedScan`, `RingRestart`, `Sessions` |
| `MCRing`, `MCRingReaders`, `MCServerThreads`, `MCRingRestart`, `MCMSeedScan`, `MCSessions` | instances for TLC |

Operators whose comment starts with "A mistake for X" are variants of X with a
plausible bug. They are used by nothing; they exist to see that each property
fails when X is replaced by them.

### Ring

Offsets count slots instead of bytes. A slot keeps pktid, pkttime, streamid
and nextinstream. `RingWrite(sid, now, reqid)` is the whole function: the stamp
(`Stamp`), the target slot and ID, the eviction of the earliest packet with its
index entry (`TrimmedIndex`, `TrimmedCount`, `TrimmedEarliest`), the copy and
the link from the stream's previous packet (`SlotsAfterWrite`), the new index
entry. `RingWriteError` is its exit with -2 after the eviction, when the index
entry cannot be allocated (or when the evicted packet's stream is not in the
index, which the invariant excludes). The exit with -1 for an oversized packet
changes nothing. The failure of DelStreamIdx() is not modelled: the entry was
found a few lines before.

### RingReaders

One writer, since writers hold ringlock. Its steps are the stores of
RingWrite() that readers can observe: earliestoffset, pkttime set to NSTUNSET,
payload, header fields in any order, pkttime, latestoffset. Every load of a
reader from shared memory is a step; steps that touch only local variables are
merged with the load before them. The acquire and release fences of ring.c
order loads and stores at this granularity, so the model is sequentially
consistent between fences and lets the bytes between two fences be copied in
any order; a string or payload that is being copied may be read as garbage
(`Garbled`). The four pcre2 tests of a stream ID are one read of it.

The stamp of a packet is the number of its write (`Ring` shows that stamps
increase whatever the clock does) and names its payload.

`Pace` is an assumption: no more than Pace writes begin while a reader is
inside one call. Run `readers` uses MaxPackets - 2, `search` MaxPackets - 1.
Without it a reader that stalls for a whole lap inside a call, or
RingPosition() on a packet that is published and not yet committed, can be
positioned ahead of latestoffset and then move backward; rings have many
thousands of slots, so a lap inside a call is outside normal operation. The
theorems on whole packets, on slots never written and on the order of the ring
do not use Pace; the ones on order of delivery, gaps and resuming say which
Pace they need (section 4).

`Calls` names the positioning functions the clients use. SeedLink clients use
RingPositionBefore() (and RingAfter(), module `RingSearch`), DataLink clients
RingPosition(), RingPositionBefore() and RingRead() as well.

### ServerThreads

A section under cthreads_lock is one action; reads and writes of td_state,
clientcount and shutdownsig outside it are actions of their own, with purely
local code merged into the following shared access. shutdownsig is 0, 1 or 2,
where 2 stands for the counter 2 .. 99. The safety valve is an action that may
happen in any shutdown round: the model has no clock. The list of server
threads is visited in any order. A connection is an element of `Clients` and
is made once. Failing to create a thread, failing to set a client up, errors
of accept(), refusals by the address lists or by the PROXY header are choices.
The reload of the configuration and the usage log in the watchdog loop do not
touch this state.

### RingRestart

The files are variables beside the ring: the buffer file with its length,
header and slots, the stream index file, and the backup a rebuild reads. This
server keeps its RingSize and MaxPacketSize (`Mine`); `OtherServer` stands for
servers with other parameters or of earlier releases that ran in between, and
leaves one of `OtherFiles`, with a number of slots of its own: RingInitialize()
computes it as `Slots` does. The run has buffers of as many slots and of more;
the theorems are for any two numbers.

`Outcome` is the decision of RingInitialize(): reset, recover, corrupt, or a
buffer to be rebuilt (another version, or other parameters and packets that
are no larger). main() continues according to AutoRecovery 1 or 2
(`StartRecovering`): the buffer file is renamed or removed, then the index
file (`MoveIndex`), then the ring is initialized again (`Reinitialize`), then
the backup is opened (`LoadOpen`, `LoadRefused`) and read packet by packet
(`LoadPacket`, `LoadSkip`, `LoadBreak`) and removed (`LoadDone`). With
AutoRecovery 0 the server exits and nothing changes. `LoadSkip` stands for the
jumps to next_packet in the three versions of the loop; what makes a packet
unfit is not in the model, so any packet may be skipped. RingShutdown() is
three steps (index file opened and truncated, entries written, ring written),
each of which can fail. `Crash` may come after every step. With a mapped ring
it leaves the current slots under the header of the last shutdown; under the
header of another geometry what is found in the slots counts for nothing
(`Overwritten`).

`marks` is history: files are "torn" when a process died with a mapped ring or
inside RingShutdown(), when a save failed, when a reset left an old header, or
when another server wrote them; a ring is "clockback" when the first stamp
after a restart was behind its latest packet. The properties are about the
rest. What the code does with torn files is a weakness, not a property: it
accepts them after testing the streams of the two end packets, so index, links
and ring may disagree. `load` is history as well: the places of the packets
loaded, and how many were skipped.

### MSeedScan

Records are the unit of offsets and sizes, with one exception: the size in
bytes that is taken for the offset under InitCurrentState may lie inside a
record that is being appended, and is then marked `mid`. A scan reads the
directory entry by entry in any order, a file record by record; the directory
changes at any time. Failing calls, kills, orderly stops and removed files
share the bound MaxEvents; refused records do not count. `fate` is history:
what became of each record.

RecordsAreRead names the ways out that the code has. Two of them are no
decision of the code but happen to it: an offset inside a record, where
ms3_detect() finds nothing in any later scan, and recursion levels that are
not given back when a scan ends inside a sub-directory, so that after
`RecurLimit` of these (2 in the run, at most 256 in the code) the
sub-directory is passed over until the server is restarted.

### RingSearch, Connection, DataLink, SeedLink, Archive, Sessions

Ring writes and ordinary reads are atomic here, since RingReaders examines the
interleaving of single loads and stores. Searches by time are not: each packet
tested, sampled and checked is a step, so packets arrive in between. Every
packet has a data time beside its ID; data comes in order or with a gap filled
late. timewinlimit is `pktlimit`; the whole ring means the forward search.

A behaviour has one client, an element of `Clients`: a DataLink reader, a
DataLink writer, or a SeedLink client of protocol 3 or 4; it connects any
number of times. Other clients' packets arrive through `SSubmit`, except
beside the writer, whose own packets are the ones that matter. Sessions share
only the ring (and the file system), so one reading session meets every state
of the ring that several would. Expressions are the sets of streams they
match. `last`, kept by the SeedLink client, is what it resumes from. A SeedLink
client names the same stations each time, in one order.

In `Archive` a key is what the defining flags of the layout make of a record,
`flags` the non-defining ones. ds_streamproc() is two steps: `Names` settles
on a file, that of the open group or what glob() finds or a new one; `Archived`
closes idle groups, closes more at the limit, opens the file if it has to and
writes the record. In between, other connections do the same (`OtherNames`,
`OtherOpens`; they have groups of their own and share the files). When glob()
fails the record's own name is used. `doubtful` is history: the keys for which
a name was made in that way, or while another file of the key was about to be
created. Which groups are closed is a choice, at the limit too, none included:
ds_closeidle() goes by the wall clock, which may have been set back. A failing
write may leave an empty or partly written file.

HandleWrite() of `DataLink` then adds the packet to the ring in a step of its
own (`WriteRing`). Data that are not miniSEED, or that msr3_parse() rejects,
go to the ring without being archived (`WriteSkips`).

## 3. Runs

| Run | Expect | What it asks |
|---|---|---|
| `ring` | pass | 3 slots, 3 streams, IDs wrapping at 4, a supplied ID, a clock that steps back, failing writes: TimesIncrease, IndexDescribesRing, ChainLinksStream, StreamListExact, and that Ring implements PacketWindow |
| `readers` | pass | one streaming reader, two streams of which it selects one, 5 writes into 3 slots: DeliveredIntact, NoUnwrittenSlot, DeliveryMovesForward, NoGapUnlessEvicted, ReaderSettles |
| `search` | pass | positioning by ID, ID and time, EARLIEST, LATEST, and "before", three slots, up to two writes during a call, IDs wrapping at 4: DeliveredIntact, BeforeSkipsNothing |
| `threads` | pass | a listener, a scanner, a client with and one without write permission, limit 1: NothingOutlivesServer, ActiveMeansAlive, CloseIsFinal, AdmissionBound, ShutdownCompletes |
| `restart` | pass | two slots, three starts, mapped, unmapped and volatile rings, six kinds of files of other servers (two to four slots, this version and version 2), skipped, unreadable and refused packets, failing saves, crashes everywhere: RecoveredRingSound, TimesIncreaseOverRestarts, RebuildKeepsPackets, RestartRestoresSaved |
| `scanner` | pass | a file in the base and one in the sub-directory, up to two records each, of every kind, with and without InitCurrentState, one event: NoRecordSkipped, ReadOnce, RecordsAreRead |
| `sessions` | pass | five packets through three slots, seven clients, one other connection that archives: AfterSkipsNothing, ReadsPermitted, OpenFilesExact, OneFilePerKey, ArchivedBeforeServed, WindowEndsExactly, ResumeContinues |
| `lapped` | violation | LappedResumesAtEarliest: a reader lapped between two calls is not repositioned at the earliest packet |
| `first_packet` | violation | ReadsOnlySlots: the first packet arrives between the loads of the two offsets |
| `resume` | violation | BeforeStartsThere: the requested packet arrives during the call |
| `lost_close` | violation | EndedIsClosed: TDS_CLOSED of a scanning thread overwritten by TDS_CLOSE |
| `per_ip` | violation | PerAddressLimit: clients being set up are not counted |

The violations are places where the code does something else than its
comments or documentation say; PROJECT.json quotes the lines. What they mean:

* `lapped`: the reader at slot o goes on at o + 1; after a lap that slot holds
  a newer packet, and the only test is against the latest packet's time. The
  reader jumps over packets that are still in the ring. `NoGapUnlessEvicted`
  says what does hold: no gap as long as nothing after its position was
  evicted.
* `first_packet`: earliestoffset is loaded as -1, then latestoffset as 0.
* `resume`: the requested packet is newer than the latest packet sampled at
  the start of the call, so it is taken for an overwritten slot and reading
  starts from the earliest packet: old packets are sent. None is lost by a
  call during which at most one write began (`BeforeSkipsNothing`). After two,
  one can be: RingReadNext() loads earliestoffset before latestoffset; a first
  write goes to the slot just loaded as the earliest and is then loaded as the
  latest too; a second one makes FindOffsetForID() fail its check; so reading
  falls back on the "earliest" slot, which holds the packet of the first
  write, and passes over older ones that are still in the ring. Such calls
  happen in run `search`, which is why its property speaks of one write;
  `BeforeStartsThere` forbids their outcome too.
* `lost_close`: the shutdown then ends only by the valve, after about ten
  seconds.
* `per_ip`: connections made while earlier ones are in a name lookup or a TLS
  handshake all pass the check.

### Bounds

MaxTime bounds the writes (stamps), MaxCommands the positioning commands,
MaxSignals the termination signals. Three slots are enough for a ring that is
empty, filling, full and wrapped, with a packet that is neither earliest nor
latest; five writes wrap the ring and replace slots twice. RINGID_MAXIMUM is
small so that IDs wrap. SkipLimit is 2 where the code has 100, so that the
reposition loop gives up within the run. Readers share nothing but the ring
and write nothing to it, so one reader meets every state several would. Two
clients, one of each permission, fill the limit and use the reserve, whose size
no property is about: AdmissionBound bounds the clients without write
permission. One signal is enough: a corrupt ring, found by a client or the scanner, sets
shutdownsig to 1 again during a shutdown. RESERVECONNECTIONS is 0 instead of 10.

MaxStarts is 3: a server that saves or leaves a buffer of another size, one
that rebuilds, runs with another configuration or dies, and one that reads
what is left. Two slots and a clock of two instants wrap the ring and set the
clock back; the buffers of three and four slots are wrapped around and hold
more packets than fit, and one with larger packets is discarded. The scanner needs
FileMaxRecs = 1 to leave a file between two records, IdleDelay = 2 to pass a
file over, and MaxRecur = 2 to use the levels up; one event per behaviour
keeps the run small and meets each kind of failure at each step. In
`sessions` SEQ_MODULUS is 4 (2^24 in the code) so that five packets cross the
end of the sequence numbers, and MAX_CONSECUTIVE_ERRORS is 2. MaxOpenFiles is
10, so that the second file meets the limit; there are two keys with two
values of the flags, MaxWrites = 3 records that the client archives, and
MaxOthers = 1 other connection about to open a file.

### Fairness

RingReaders: a write under way completes (it takes locks in a fixed order and
waits for nothing else), a client calls RingReadNext() again and again (the
loop of ClientThread() while streaming), and each call goes on. Nothing makes
anyone write or send a command.
ServerThreads: every thread goes on; waits in clients are bounded by poll()
timeouts. accept() is not assumed to return while its socket is open. Nothing
makes a signal, an error or the valve happen.
MSeedScan: the scanning thread goes on (its loop sleeps and scans again), the
watchdog spawns it again when it has ended, a server that is told to stop
stops, and one that is down is started again (by its operator: without that
nothing is read). Nothing makes a file grow or a call fail.
RingRestart and Sessions state no liveness.

Deadlock is not checked for `ring`, `restart` and the thread models: the first
two stop at their bounds, the server stops when it is shut down.

## 4. Proofs

Each proof module has one inductive invariant, a lemma per action or group of
actions that it is preserved, the theorem `Spec => []Inv`, and from it a
theorem per property. Every invariant was first checked with TLC on the
instance of the corresponding run. All sizes are arbitrary: slots, streams,
readers, clients, files, keys, limits, bounds.

`RingProofs`, for at least two slots (as RingInitialize() requires):
`RingInvariant`. IInv joins the types with the shape of the live window (both
offsets set or none, the latest stamp is at most last_pkttime), strictly
increasing stamps, the index, the links and the count. The parts need each
other: the index after an eviction is found through a link, the link is right
because stamps order the live slots, and the count is right because the index
is. Evicting and adding are treated apart: lemmas about the window without its
first slot (`KeptWindow`, `TrimmedIndexDescribes`, `KeptChain`) and about the
window with one more (`WriteWindow`, `WriteSlots`). `TypeCorrect`,
`StampsIncrease`, `IndexCorrect`, `LinksCorrect` and `StreamListCorrect` are
the properties of run `ring`.

Also there, `RingImplementsWindow`, step by step: the mapping reads the
live slots in ring order; a write appends to that sequence and drops its head
when the ring is full, a failed write only drops the head.

`ReadersProofs`: `SeqlockInvariant` and from it `NeverTorn`
(`DeliveredIntact`): if the sampled packet time is still in the slot, then the
slot has not been touched since, because a stamp is used once and a writer
first removes the old one; so each field copied so far is the field of the
published packet with that time.

`PositionProofs`: `PositionInvariant`, from which `TypeCorrect` and
`NeverUnwritten` (`NoUnwrittenSlot`). Slots are first written in order, so
what has to be carried through every load of every function is that each
offset a reader holds, as its position, as a copy of earliestoffset or
latestoffset, or as the place of a search, is a slot written by then; a slot
once written stays so.

`DeliveryProofs` goes on from there, in three layers.

* `OrderInvariant`, without any assumption: from the slot written next,
  around the buffer to the latest, the packets are in order of time (`Rank`,
  `RingOrder`); only the slot being filled is marked unset; earliestoffset is
  where the order says, at most one slot late; and a packet written is in a
  slot until it is older than the earliest.
* `DeliveryInvariant`, from which `MovesForwardAlways`
  (`DeliveryMovesForward`) and `NothingMissed` (`NoGapUnlessEvicted`). A
  reader's place is a slot and a stamp (`Place`): every slot after it is newer,
  and the packet of that stamp is in it as long as it is in the ring.
  `Frame` counts the writes since the call began, so that the latest slot the
  call loaded is not overwritten before it ends. `Forward` says that every
  slot from the one looked at to that latest slot is newer than the packet the
  call began with, `Gapless` that none of the packets passed is selected.
* `ResumeInvariant`, from which `ResumeSkipsNothing` (`BeforeSkipsNothing`).
  It says nothing of a call once a second write has begun (`InTime`). Until
  then: packet IDs count up along the slots (`IdsInOrder`); the slot a failed
  search falls back on is an early one or taken as overwritten, or the one
  write the call has met is over, the ring does not change any more, and the
  search finds the packet if it is there (`FallbackSafe`, `Faithful`:
  bisection and backward scan leave no slot with that ID behind). From then on
  the walk has not passed the packet asked for, nor a selected one after it
  (`PassedBy`).

Their assumptions, on constants: `SlowWriter`, Pace <= MaxPackets - 2 (with
MaxPackets - 1 a call can be lapped, and TLC shows a reader moving back);
`RelativeOnly`, readers positioned with RingPositionBefore() only (a
RingPosition() or RingRead() of a packet published and not yet the latest puts
the reader ahead of latestoffset, and the next call goes back to the earliest
packet). `ResumeSkipsNothing` also needs `OwnIds`, IDs given by the ring and
no fewer of them than slots (two packets with one ID cannot both be resumed
at). It covers every behaviour of a writer that keeps to SlowWriter; what it
says is said of the calls during which at most one write began. Run `search`
also has the other positioning calls, and a writer faster than SlowWriter.

`ThreadsProofs`: `ThreadsInvariant`. Its parts say which threads are in the
list in each state of their lives (`Listed`), that the count is their number
(`CountAgrees`), how far the server threads may be by the round of the
shutdown (`ServerStates`, `RoundCount`), that nothing new can appear once the
listeners have ended (`Quiet`), and what was tested before a client is
admitted (`RoomLeft`, `Screened`). From it `NothingLeftBehind`,
`ActiveClientsAlive`, `CloseRequestsKept` (an action property) and
`AdmissionBounded`.

`ScanProofs`: `ScanInvariant`, from which `NothingSkipped` and
`NothingReadTwice`. It relates the three places where an offset is kept (the
tree, the state file, the locals of the scan under way) to the fate of the
records before and after it, over saves, restarts and scans given up.

`RestartProofs`: `RestartInvariant`, from the invariant of `Ring`. The
inductive invariant (`RInv`) says what the marks vouch for: a ring, in memory
or in the files, that is not torn is sound in ring order, and its stamps
increase if it has no mark (`Good`, `RingGood`, `FilesGood`); files that are
not torn are what the last orderly shutdown saved; the index was written
before the ring (`IndexSaved`); during the recovery the buffer file is out of
the way (`Cleared`); and while a backup is loaded (`Visiting`) every place
before the one reached was visited once and the ring holds the newest packets
copied. The last part rests on lemmas about one write: as a sequence, the
packets of the ring grow by one at the end and lose their head when the ring
is full, whatever the number of slots of ring and backup. From it
`RecoveredSound`, `RestartTimesIncrease`, `RestartRestores` and `RebuildKeeps`
(the last two action properties).

`SessionsProofs`: `SessionsInvariant`. The ring part adds that packets are
numbered without gaps up to the last stamp (`Numbered`), which turns distances
in the ring into differences of IDs. The search part gives each search the
stamp of the packet that was at its place when it began (`Place`): what is
there now is that packet, or one at least a lap newer (`AtPlace`). As long as
the ring still holds a packet of that stamp or an older one, a forward search
is past nothing that matches (`ForwardScan`), and a reverse search has found
the oldest match of what it passed, and that packet is still there
(`ReverseScan`, `ReverseKept`). Once the writer has overtaken it nothing is
claimed. The archive part (`NamesAgree`) says that of a key not in doubt there
is one name, among the files on disk and those any connection has settled on;
that the count is the number of groups; that a record archived and not yet in
the ring is in a file of its key (`SubmittedArchived`); and that open
files are files of their keys, the SeedLink part that a station's resume point
comes from a packet the client has and that `timewinchannels` counts the
streams not past the window's end. From it `SearchSkipsNothing`,
`OnlyPermittedReads`, `OpenFilesCounted`, `OneFileForKey`, `ServedIsArchived`,
`WindowEnds`, the types, and the action property `ResumesWhereItLeft`
(`ResumeContinues`): of the resume points the server can confirm, the one
chosen is that of the newest packet the client has, or one confirmed by the
same packet (`ResumePointsSound`), and a reader set there has exactly the
packets from there on ahead of it (`AheadOfID`).

Assumptions: the named ASSUMEs of the modules, all evaluated by the runs. Most
say what kind of value a constant is. The others: a buffer of another
server has at least two slots and an earliest packet just if it has a latest
(`RestartAssumption`); IDs do not wrap within a behaviour of `Sessions`
(`SearchAssumption`; they have 64 bits); data end no earlier than they start
(`SearchAssumption`); an archive key names a stream of the server
(`DataLinkAssumption`).

Only model-checked: `ReaderSettles`, `ShutdownCompletes` and `RecordsAreRead`,
since liveness under fairness is out of the prover's reach. Every invariant
and action property of the passing runs is a theorem, three of them under the
assumptions of `DeliveryProofs`.

## 5. Plan

Done: PacketWindow, Ring, RingReaders, ServerThreads, RingRestart, MSeedScan,
RingSearch, Archive, Connection, DataLink, SeedLink, Sessions, and the proofs
above.

Left: the order of delivery for DataLink readers that use RingPosition() and
RingRead(): after such a call a reader may go back to the earliest packet once,
and a property that says how far is yet to be stated.

## 6. Not modelled

Nine tenths of the lines in the repository are vendored libraries (libmseed,
mbedtls, mxml, pcre2, yyjson, miniz); the server itself is about 29 000 lines
under src/src. Half of these are in files of parsing, formatting, helpers and
headers; of the rest the modules model about 6 400 lines, with their comments.

* INFO documents, HTTP, WebSocket frames, logs, configuration files, TLS and
  PROXY byte formats: formatting and parsing.
* The red-black tree, the stack and the other helpers: sequential, behind
  functions and sequences in the models.
* The reception of a command in pieces (ClientRecv(), RecvData()) and its
  timeouts: a command arrives whole, a failing connection is `Leave`.
* SELECT of SeedLink, conversion to miniSEED 3 and compiling expressions
  (pcre2): a request selects whole stations.
* The file formats of LoadBufferV1() and V2(); their loop is that of V3.
* Layouts of the archive whose key, the defining values run together
  (dsarchive.c:700), is the same for records that belong in different files.
* RingShutdown() while threads still run, after the safety valve.

## 7. Where code and documents differ

Besides the five violation runs, the models contain the following behaviours.
They are against a comment or a document, or are weaknesses, and no property is
claimed for them: the properties name each as an exception, or are silent about
it.

| Source (src/src) | What the code does | Against | In the model |
|---|---|---|---|
| ringserver.c:1224 | `<=` lets writers have RESERVECONNECTIONS + 1 places | ChangeLog:386, "currently 10 connections" | `LReserve`; AdmissionBound leaves the reserve open |
| ring.c:1320-1338 | after two writes in a call a resuming reader can be put ahead of its packet | ring.c:1542 | `BeforeSkipsNothing` speaks of one write, `BeforeStartsThere` forbids it |
| ring.c:1680, 1704 | a slot is tested, overwritten, and sampled: the reader is put at the newest packet | ring.c:1591 | `Overtaken` |
| ring.c:1711, dlclient.c:639 | the slot found was overwritten: the search fails and the reader waits for new packets | ring.c:1591 | `Overtaken` |
| ring.c:1820-1848 | the reverse search goes on past the first match, to the oldest one | ring.c:1739, "stopping at the first matching packet" | `LastReverse`; AfterSkipsNothing states the code's rule |
| dsarchive.c:941 | `>` lets maxopenfiles - 9 files be open | dsarchive.c:940 and the log at 943 | `AtLimit`; OpenFilesExact is about the count |
| dsarchive.c:947 | after the clock was set back no file is closed at the limit, and one more is opened | dsarchive.c:940 | `ClosedForOpen` |
| dsarchive.c:726-742 | after a failing glob() a second file of the key is made | doc/ringserver.md:398 | `Looks`, `doubtful` |
| dsarchive.c:724-954 | two connections may both find no file of a key and make two | doc/ringserver.md:398 | `OtherNames`, `doubtful` |
| dlclient.c:1086 | data with a valid header that cannot be parsed are served, not archived, and nothing is said | – | `WriteSkips` |
| mseedscan.c:547, 751-770 | an offset inside a record: what follows is never read | – | `mid` |
| mseedscan.c:499 | recursion levels are not given back | – | `RecurLimit` in RecordsAreRead |
| ring.c:345-381 | a buffer of version 2 with another file size is discarded, not converted | – | `Outcome` |
| loadbuffer.c:607-639, ringserver.c:374 | a rebuild that stops half way removes the backup | – | `LoadBreak`, `LoadDone` |
| ringserver.c:308-366 | a server that dies between rename and load leaves a backup that is never loaded | – | `Crash` |
| ring.c:459-627 | torn files are accepted | – | "torn" in `marks` |
| slclient.c:1604 | sequence numbers across a multiple of 2^24 | – | `SequenceToID` |
| slclient.c:338 | of several resume points only the newest counts | – | `StartPosition` |
