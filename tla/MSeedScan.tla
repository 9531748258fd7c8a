------------------------------ MODULE MSeedScan ------------------------------
(***************************************************************************)
(* The miniSEED scanner of mseedscan.c: MS_ScanThread() reads the records  *)
(* that appear in the files of a directory and of a sub-directory of it,   *)
(* remembers in filetree how far it got in each, and keeps that over       *)
(* restarts in a state file.  Files grow and go away while it runs, the    *)
(* thread ends on a record it cannot add and is spawned again by the       *)
(* watchdog, the server is stopped, started and killed.                    *)
(*                                                                         *)
(* Offsets and sizes are counted in whole records; an incomplete record at *)
(* the end of a file is one not yet there, except that the size in bytes   *)
(* taken for the offset under InitCurrentState may lie inside it (mid).    *)
(* SaveState() writes a temporary file and renames it, so the state file   *)
(* is always a whole one.  The quietsec and budlatency checks cannot be    *)
(* configured and are left out.                                            *)
(***************************************************************************)
EXTENDS Integers, Sequences, FiniteSets

CONSTANTS
  BaseFiles,            \* files in the base directory
  SubFiles,             \* files in a sub-directory of it
  Contents,             \* the records that come to be in the files: file -> kinds
  Configs,              \* the sub-options StateFile and InitCurrentState
  FileMaxRecs,          \* mssinfo->filemaxrecs
  IdleDelay,            \* mssinfo->idledelay
  MaxRecur,             \* mssinfo->maxrecur, negative without a limit
  MSSCAN_MAXRECURDEPTH, \* limit of the recursion depth
  MaxRecords,           \* bound: records in a file
  MaxEvents             \* bound: crashes, failing calls, removed files, orderly stops

Files == BaseFiles \cup SubFiles

\* The entry of the sub-directory in the base directory.
SubDir == "subdir"

\* A good one; one the parser or the ring refuses; bytes that are no miniSEED;
\* and one larger than a packet.
RecordKinds == {"good", "refused", "junk", "large"}

ASSUME ScanAssumption ==
  /\ BaseFiles \cap SubFiles = {} /\ SubDir \notin Files
  /\ \A c \in Contents : \A f \in Files : c[f] \in Seq(RecordKinds) /\ Len(c[f]) <= MaxRecords
  /\ Configs \subseteq [StateFile : BOOLEAN, InitCurrentState : BOOLEAN]
  /\ FileMaxRecs \in Nat \ {0} /\ IdleDelay \in Nat
  /\ MaxRecur \in Int /\ MSSCAN_MAXRECURDEPTH \in Nat
  /\ MaxRecords \in Nat /\ MaxEvents \in Nat

VARIABLES
  contents,    \* file -> the kinds of the records it is going to have
  size,        \* file -> the number of records it has by now
  present,     \* the files that exist
  config,      \* whether StateFile and InitCurrentState are given
  server,      \* "down", "up", or "stopping" once shutdownsig is set
  thread,      \* where MS_ScanThread() is
  filetree,    \* file -> FileNode
  nextnew,     \* mssinfo->nextnew
  recurlevel,  \* mssinfo->recurlevel
  todo,        \* directory -> the entries EReadDir() has yet to return
  dir,         \* the directory being read
  cur,         \* the variables of ProcessFile(), and the file
  statefile,   \* the state file: whether it exists, file -> offset, and which are mid
  fate,        \* history: file -> what became of each record
  forgot,      \* history: something made the scanner lose track of files
  events       \* the events that MaxEvents bounds, so far

scanvars == <<filetree, nextnew, recurlevel, todo, dir, cur>>
vars == <<contents, size, present, config, server, thread, scanvars, statefile, fate, forgot,
          events>>

NoTree == [f \in {} |-> 0]
NoState == [exists |-> FALSE, offset |-> NoTree, mid |-> {}]
NoTodo == [base |-> {}, sub |-> {}]
NoCur  == [file |-> "none", newoffset |-> 0, newsize |-> 0, reccnt |-> 0]

\* A FileNode: its offset, which is mid when it lies inside the record behind
\* it; its scantime, which is 0, that of an earlier scan, or of this one.
NewNode(offset, mid) == [offset |-> offset, mid |-> mid, scantime |-> "never", idledelay |-> 0]

Node(f) == IF f \in DOMAIN filetree THEN filetree[f] ELSE NewNode(0, FALSE)

\* The tree with the node of a file set.
WithNode(f, n) == [g \in DOMAIN filetree \cup {f} |-> IF g = f THEN n ELSE filetree[g]]

\* One of the events whose number is bounded.
Event == events < MaxEvents /\ events' = events + 1

-----------------------------------------------------------------------------
(* The directory, which other programs write to.  Names are not reused.    *)
Grow(f) ==
  /\ f \in present /\ size[f] < Len(contents[f])
  /\ size' = [size EXCEPT ![f] = @ + 1]
  /\ fate' = [fate EXCEPT ![f] = Append(@, "new")]
  /\ UNCHANGED <<contents, present, config, server, thread, scanvars, statefile, forgot, events>>

Remove(f) ==
  /\ f \in present /\ Event
  /\ present' = present \ {f}
  /\ UNCHANGED <<contents, size, config, server, thread, scanvars, statefile, fate, forgot>>

-----------------------------------------------------------------------------
(* The server: started, told to stop, killed.                              *)

\* AddMSeedScanThread(): nextnew, if no state file is there.
StartServer ==
  /\ server = "down"
  /\ server' = "up"
  /\ nextnew' = (config.InitCurrentState /\ ~statefile.exists)
  /\ UNCHANGED <<contents, size, present, config, thread, filetree, recurlevel, todo, dir, cur, statefile, fate,
                 forgot, events>>

StopServer ==
  /\ server = "up" /\ Event
  /\ server' = "stopping"
  /\ UNCHANGED <<contents, size, present, config, thread, scanvars, statefile, fate, forgot>>

ServerStopped ==
  /\ server = "stopping" /\ thread = "closed"
  /\ server' = "down"
  /\ nextnew' = FALSE /\ recurlevel' = 0
  /\ UNCHANGED <<contents, size, present, config, thread, filetree, todo, dir, cur, statefile, fate,
                 forgot, events>>

Kill ==
  /\ server # "down" /\ Event
  /\ server' = "down"
  /\ thread' = "closed"
  /\ filetree' = NoTree /\ nextnew' = FALSE /\ recurlevel' = 0
  /\ todo' = NoTodo /\ dir' = "base" /\ cur' = NoCur
  /\ forgot' = TRUE
  /\ UNCHANGED <<contents, size, present, config, statefile, fate>>

-----------------------------------------------------------------------------
(* MS_ScanThread().                                                        *)

\* RecoverState(): files that are not seen again are never removed.
RecoveredTree ==
  [f \in DOMAIN statefile.offset |-> NewNode(statefile.offset[f], f \in statefile.mid)]

\* The thread is spawned, by main() or again by its watchdog: Initialize().
Spawn ==
  /\ server = "up" /\ thread = "closed"
  /\ thread' = "idle"
  /\ \/ /\ filetree' = RecoveredTree
        /\ UNCHANGED <<forgot, events>>
     \/ /\ Event                    \* the state file cannot be opened
        /\ filetree' = NoTree
        /\ forgot' = TRUE
  /\ UNCHANGED <<contents, size, present, config, server, nextnew, recurlevel, todo, dir, cur,
                 statefile, fate>>

\* The nodes once a scan starts in a later second than the last one.
Aged(tree) ==
  [f \in DOMAIN tree |-> [tree[f] EXCEPT !.scantime = IF @ = "now" THEN "before" ELSE @]]

\* A scan starts, unless the base directory cannot be read.
ScanStart ==
  /\ thread = "idle" /\ server = "up"
  /\ thread' = "scanning"
  /\ filetree' \in {filetree, Aged(filetree)}
  /\ dir' = "base"
  /\ \/ /\ todo' = [base |-> (BaseFiles \cap present) \cup {SubDir}, sub |-> {}]
        /\ UNCHANGED <<forgot, events>>
     \/ /\ Event
        /\ todo' = NoTodo
        /\ forgot' = TRUE
  /\ UNCHANGED <<contents, size, present, config, server, nextnew, recurlevel, cur, statefile, fate>>

\* The configured limit, and the one that guards against loops of links.
RecurLimit ==
  IF MaxRecur < 0 \/ MaxRecur > MSSCAN_MAXRECURDEPTH THEN MSSCAN_MAXRECURDEPTH ELSE MaxRecur

\* Mistakes for MayRecurse: one level less, and one level more.
MayRecurseLess == recurlevel + 1 < RecurLimit
MayRecurseMore == recurlevel <= RecurLimit

MayRecurse == recurlevel < RecurLimit

\* The sub-directory: ScanFiles() calls itself, or passes over it when it is too
\* deep or cannot be opened.
EnterSubDir ==
  /\ thread = "scanning" /\ server = "up" /\ dir = "base"
  /\ SubDir \in todo.base
  /\ \/ /\ MayRecurse
        /\ recurlevel' = recurlevel + 1
        /\ dir' = "sub"
        /\ todo' = [base |-> todo.base \ {SubDir}, sub |-> SubFiles \cap present]
        /\ UNCHANGED <<forgot, events>>
     \/ /\ IF MayRecurse THEN Event ELSE UNCHANGED events
        /\ todo' = [todo EXCEPT !.base = @ \ {SubDir}]
        /\ forgot' = TRUE
        /\ UNCHANGED <<recurlevel, dir>>
  /\ UNCHANGED <<contents, size, present, config, server, thread, filetree, nextnew, cur, statefile,
                 fate>>

LeaveSubDir ==
  /\ thread = "scanning" /\ dir = "sub"
  /\ todo.sub = {} \/ server = "stopping"
  /\ dir' = "base"
  /\ recurlevel' = recurlevel - 1
  /\ todo' = [todo EXCEPT !.sub = {}]
  /\ UNCHANGED <<contents, size, present, config, server, thread, filetree, nextnew, cur, statefile,
                 fate, forgot, events>>

\* The next entry is file f.
NextEntry(f) ==
  /\ thread = "scanning" /\ server = "up"
  /\ f \in todo[dir] \cap Files
  /\ todo' = [todo EXCEPT ![dir] = @ \ {f}]

\* A file given up before, or one whose idle delay is running.
PassOver(f) ==
  /\ NextEntry(f)
  /\ f \in DOMAIN filetree
  /\ filetree[f].offset = -1 \/ filetree[f].idledelay > 0
  /\ filetree' = [filetree EXCEPT ![f].scantime = "now",
                                  ![f].idledelay = IF filetree[f].offset = -1 \/ @ = 0 THEN @ ELSE @ - 1]
  /\ UNCHANGED <<contents, size, present, config, server, thread, nextnew, recurlevel, dir, cur,
                 statefile, fate, forgot, events>>

Examined(f) == Node(f).offset # -1 /\ Node(f).idledelay = 0

\* The file is gone when it is examined, or examining it fails.
StatFails(f) ==
  /\ NextEntry(f) /\ Examined(f)
  /\ IF f \in present THEN Event /\ forgot' = TRUE ELSE UNCHANGED <<events, forgot>>
  /\ UNCHANGED <<contents, size, present, config, server, thread, filetree, nextnew, recurlevel, dir,
                 cur, statefile, fate>>

\* The file is examined: a new one is added, in a first scan that is to skip what
\* is there its bytes are passed, which may end in the middle of a record that is
\* being written, and one that has grown is read.
Examine(f) ==
  LET offset == IF nextnew THEN size[f] ELSE Node(f).offset
  IN  /\ NextEntry(f) /\ Examined(f) /\ f \in present
      /\ \E idle \in {0, IF IdleDelay > 0 THEN IdleDelay - 1 ELSE 0},
            mid \in IF nextnew THEN {FALSE, size[f] < Len(contents[f])} ELSE {Node(f).mid} :
           filetree' = WithNode(f, [Node(f) EXCEPT !.offset = offset, !.mid = mid, !.idledelay = idle,
                                      !.scantime = IF offset < size[f] THEN @ ELSE "now"])
      /\ fate' = IF nextnew
                   THEN [fate EXCEPT ![f] = [i \in DOMAIN @ |-> IF @[i] = "new" THEN "passed" ELSE @[i]]]
                   ELSE fate
      /\ IF offset < size[f]
           THEN /\ thread' = "reading"
                /\ cur' = [file |-> f, newoffset |-> offset, newsize |-> size[f], reccnt |-> 0]
           ELSE UNCHANGED <<thread, cur>>
      /\ UNCHANGED <<contents, size, present, config, server, nextnew, recurlevel, dir, statefile,
                     forgot, events>>

-----------------------------------------------------------------------------
(* ProcessFile().                                                          *)

\* What ms3_detect() and the parser make of the bytes at newoffset; those from
\* the inside of a record are no miniSEED, wherever the file ends by now.
CurKind == IF filetree[cur.file].mid THEN "junk" ELSE contents[cur.file][cur.newoffset + 1]

\* More is to be read of the file in this scan.
MoreToRead == cur.newoffset < cur.newsize /\ cur.reccnt < FileMaxRecs

\* ProcessFile() returns an offset, or -1.
Return(offset) ==
  /\ filetree' = [filetree EXCEPT ![cur.file].offset = offset, ![cur.file].scantime = "now"]
  /\ thread' = "scanning"
  /\ cur' = NoCur

\* A good record is added to the ring.
ReadRecord ==
  /\ thread = "reading" /\ MoreToRead /\ CurKind = "good"
  /\ fate' = [fate EXCEPT ![cur.file][cur.newoffset + 1] =
                IF @ \in {"read", "twice"} THEN "twice" ELSE "read"]
  /\ cur' = [cur EXCEPT !.newoffset = @ + 1, !.reccnt = @ + 1]
  /\ UNCHANGED <<contents, size, present, config, server, thread, filetree, nextnew, recurlevel, todo,
                 dir, statefile, forgot, events>>

\* WriteRecord() fails, for the record or for another reason, and then shuts the
\* server down if the ring is corrupt: the thread ends.  ScanFiles() returns from
\* all levels without restoring recurlevel.
RefuseRecord ==
  /\ thread = "reading" /\ MoreToRead
  /\ \/ CurKind = "refused" /\ UNCHANGED <<server, events>>
     \/ CurKind = "good" /\ Event /\ server' \in {server, "stopping"}
  /\ fate' = [fate EXCEPT ![cur.file][cur.newoffset + 1] = IF @ = "new" THEN "passed" ELSE @]
  /\ filetree' = [filetree EXCEPT ![cur.file].offset = cur.newoffset + 1]
  /\ thread' = "closing"
  /\ todo' = NoTodo /\ dir' = "base" /\ cur' = NoCur
  /\ UNCHANGED <<contents, size, present, config, nextnew, recurlevel, statefile, forgot>>

\* Bytes that are no miniSEED: the file is given up if its offset was 0 before
\* this scan, and is otherwise tried again at the same place in every scan.  A
\* record too large for a packet gives it up always.
StopAtRecord ==
  /\ thread = "reading" /\ MoreToRead /\ CurKind \in {"junk", "large"}
  /\ IF CurKind = "large" \/ (filetree[cur.file].offset = 0 /\ ~filetree[cur.file].mid)
       THEN Return(-1) ELSE Return(cur.newoffset)
  /\ UNCHANGED <<contents, size, present, config, server, nextnew, recurlevel, todo, dir, statefile,
                 fate, forgot, events>>

\* A mistake for AfterRead: the size the file had is taken for read.
AfterReadAll == cur.newsize

\* The offset after the records read in this scan.
AfterRead == cur.newoffset

\* The end of the file, or of the records read from it in one scan.
EndOfFile ==
  /\ thread = "reading" /\ ~MoreToRead
  /\ Return(AfterRead)
  /\ UNCHANGED <<contents, size, present, config, server, nextnew, recurlevel, todo, dir, statefile,
                 fate, forgot, events>>

\* The file cannot be opened or read: it is given up, unless that is the signal
\* of a shutdown interrupting the call.
ReadFails ==
  /\ thread = "reading" /\ MoreToRead
  /\ \/ server = "stopping" /\ Return(cur.newoffset) /\ UNCHANGED events
     \/ Event /\ Return(-1)
  /\ UNCHANGED <<contents, size, present, config, server, nextnew, recurlevel, todo, dir, statefile,
                 fate, forgot>>

-----------------------------------------------------------------------------
(* The end of a scan and of the thread.                                    *)

\* SaveState(): the offsets; the scan times are not saved.
StateOf(tree) ==
  [exists |-> TRUE, offset |-> [f \in DOMAIN tree |-> tree[f].offset],
   mid |-> {f \in DOMAIN tree : tree[f].mid}]

\* PruneFiles(): files seen in an earlier scan and not in this one.
Pruned(tree) ==
  [f \in {g \in DOMAIN tree : tree[g].scantime # "before"} |-> tree[f]]

\* A mistake for ScanComplete: the list of files is pruned in a shutdown, too.
ScanOver == thread = "scanning" /\ dir = "base" /\ (todo.base = {} \/ server = "stopping")

\* The scan has seen all entries.
ScanComplete == thread = "scanning" /\ dir = "base" /\ todo.base = {} /\ server = "up"

\* The scan is complete: prune, save the state when it is time to, sleep.
ScanEnd ==
  /\ ScanComplete
  /\ thread' = "idle"
  /\ todo' = NoTodo
  /\ filetree' = Pruned(filetree)
  /\ statefile' \in {statefile} \cup (IF config.StateFile THEN {StateOf(Pruned(filetree))} ELSE {})
  /\ nextnew' = FALSE
  /\ UNCHANGED <<contents, size, present, config, server, recurlevel, dir, cur, fate, forgot, events>>

\* A shutdown ends the loop, between scans or in the middle of one.
LeaveLoop ==
  /\ server = "stopping" /\ thread \in {"idle", "scanning"} /\ dir = "base"
  /\ thread' = "closing"
  /\ todo' = NoTodo
  /\ UNCHANGED <<contents, size, present, config, server, filetree, nextnew, recurlevel, dir, cur,
                 statefile, fate, forgot, events>>

\* The state is saved, if it can be, and the thread ends.
CloseThread ==
  /\ thread = "closing"
  /\ \/ /\ config.StateFile
        /\ statefile' = StateOf(filetree)
        /\ UNCHANGED <<forgot, events>>
     \/ /\ IF config.StateFile THEN Event ELSE UNCHANGED events
        /\ forgot' = TRUE
        /\ UNCHANGED statefile
  /\ thread' = "closed"
  /\ filetree' = NoTree
  /\ UNCHANGED <<contents, size, present, config, server, nextnew, recurlevel, todo, dir, cur, fate>>

-----------------------------------------------------------------------------
Init ==
  /\ contents \in Contents
  /\ size = [f \in Files |-> 0]
  /\ present = Files
  /\ config \in Configs
  /\ server = "down"
  /\ thread = "closed"
  /\ filetree = NoTree
  /\ nextnew = FALSE
  /\ recurlevel = 0
  /\ todo = NoTodo /\ dir = "base" /\ cur = NoCur
  /\ statefile = NoState
  /\ fate = [f \in Files |-> <<>>]
  /\ forgot = FALSE
  /\ events = 0

Scanning ==
  \/ ScanStart \/ EnterSubDir \/ LeaveSubDir
  \/ \E f \in Files : PassOver(f) \/ StatFails(f) \/ Examine(f)
  \/ ReadRecord \/ RefuseRecord \/ StopAtRecord \/ EndOfFile \/ ReadFails
  \/ ScanEnd \/ LeaveLoop \/ CloseThread

Next ==
  \/ \E f \in Files : Remove(f) \/ Grow(f)
  \/ StartServer \/ StopServer \/ ServerStopped \/ Kill
  \/ Spawn \/ Scanning

(* The thread runs, its watchdog spawns it again, and a server that stopped  *)
(* is started again; nothing makes files grow, servers stop or calls fail. *)
Spec ==
  /\ Init /\ [][Next]_vars
  /\ WF_vars(Scanning) /\ WF_vars(Spawn) /\ WF_vars(StartServer) /\ WF_vars(ServerStopped)

-----------------------------------------------------------------------------
NodeType == [offset : Nat \cup {-1}, mid : BOOLEAN, scantime : {"never", "before", "now"},
             idledelay : 0 .. IdleDelay]

\* The types; the scanner is never deeper in the directories than it may be.
TypeOK ==
  /\ \A f \in Files : size[f] <= Len(contents[f]) /\ Len(fate[f]) = size[f]
  /\ present \subseteq Files
  /\ server \in {"down", "up", "stopping"}
  /\ thread \in {"closed", "idle", "scanning", "reading", "closing"}
  /\ DOMAIN filetree \subseteq Files /\ filetree \in [DOMAIN filetree -> NodeType]
  /\ recurlevel \in 0 .. RecurLimit
  /\ todo.base \subseteq BaseFiles \cup {SubDir} /\ todo.sub \subseteq SubFiles
  /\ dir \in {"base", "sub"}

(* No offset the scanner keeps, in memory or in the state file a later     *)
(* server starts from, has passed a record that was not read, refused or   *)
(* deliberately skipped: whenever the process dies, the thread ends on a   *)
(* bad record or a call fails, no record is lost (ScanFiles(),             *)
(* ProcessFile(), SaveState(), RecoverState()).                            *)
NoRecordSkipped ==
  /\ \A f \in DOMAIN filetree : \A i \in 1 .. filetree[f].offset : fate[f][i] # "new"
  /\ \A f \in DOMAIN statefile.offset :
       \A i \in 1 .. statefile.offset[f] : fate[f][i] # "new"

(* With a state file, a record is added to the ring once: thread ends on   *)
(* bad records, stops in the middle of a scan and restarts read nothing    *)
(* twice.  The exceptions are a process killed, a state file that could    *)
(* not be written or read, and files or directories that could not be      *)
(* looked at in a scan (an error, or no recursion level left), whose       *)
(* offsets PruneFiles() forgets.                                           *)
ReadOnce ==
  ~forgot => \A f \in Files : \A i \in 1 .. Len(fate[f]) : fate[f][i] # "twice"

(* With a state file, a record in a file that stays is eventually read or  *)
(* refused, over restarts too (without one, a refused record makes every   *)
(* spawned thread start over).  The code has four ways out of that, each   *)
(* named here: the file was given up (unreadable, no miniSEED at its       *)
(* start, a record too large); junk is before the record; InitCurrentState *)
(* put the file's offset inside a record, where no miniSEED is found in    *)
(* any later scan; refused records in the sub-directory used up the        *)
(* recursion levels, which ScanFiles() does not give back when it returns  *)
(* -2.                                                                     *)
RecordsAreRead ==
  \A f \in Files, i \in 1 .. MaxRecords :
    (config.StateFile /\ i <= size[f]) ~>
      \/ i <= Len(fate[f]) /\ fate[f][i] # "new"
      \/ f \notin present
      \/ f \in DOMAIN filetree /\ filetree[f].offset = -1
      \/ \E j \in 1 .. size[f] : j <= i /\ contents[f][j] \in {"junk", "large"}
      \/ f \in DOMAIN filetree /\ filetree[f].mid /\ i > filetree[f].offset
      \/ f \in SubFiles /\ dir = "base" /\ recurlevel = RecurLimit

=============================================================================
