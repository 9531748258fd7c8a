----------------------------- MODULE ScanProofs -----------------------------
(***************************************************************************)
(* The miniSEED scanner, for any files, contents, recursion limit and any  *)
(* sequence of restarts and failures: no offset it keeps has passed a      *)
(* record that was not dealt with, and a record is added to the ring once. *)
(***************************************************************************)
EXTENDS MSeedScan, SequenceTheorems, TLAPS

Fates == {"new", "passed", "read", "twice"}

\* The types the proof needs besides TypeOK: those of the files' contents and
\* of the history, of the state file, of the entries left to read and of the
\* variables of ProcessFile().
FileTypes ==
  /\ \A f \in Files : contents[f] \in Seq(RecordKinds)
  /\ size \in [Files -> Nat]
  /\ fate \in [Files -> Seq(Fates)]

StateTypes ==
  /\ DOMAIN statefile.offset \subseteq Files
  /\ statefile.offset \in [DOMAIN statefile.offset -> Nat \cup {-1}]

CurTypes ==
  /\ todo \in [base : SUBSET (BaseFiles \cup {SubDir}), sub : SUBSET SubFiles]
  /\ thread = "reading" => cur \in [file : Files, newoffset : Nat, newsize : Nat, reccnt : Nat]
  /\ events \in Nat

\* The directory level and the entries left go with where the thread is, and
\* without a server there is no thread.
Levels ==
  /\ dir = "sub" => recurlevel > 0 /\ thread \in {"scanning", "reading"}
  /\ dir = "base" => todo.sub = {}
  /\ server = "down" => thread = "closed"

\* No offset is beyond the end of its file, and all records before it are done.
OffsetsDone(f, offset) ==
  /\ offset <= size[f]
  /\ \A i \in 1 .. offset : fate[f][i] # "new"

TreeDone  == \A f \in DOMAIN filetree : OffsetsDone(f, filetree[f].offset)
StateDone == \A f \in DOMAIN statefile.offset : OffsetsDone(f, statefile.offset[f])

\* So are those ProcessFile() has passed, in a file that has a node.
ReadingDone ==
  thread = "reading" =>
    /\ cur.file \in DOMAIN filetree
    /\ cur.newsize <= size[cur.file] /\ OffsetsDone(cur.file, cur.newoffset)

\* The scanner will not read record i of f again: by the offset it is reading
\* at, by the state file if no thread runs, by the node of the file otherwise.
Passed(offset, i) == offset = -1 \/ i <= offset
IsRead(f) == thread = "reading" /\ cur.file = f
Behind(f, i) ==
  IF IsRead(f) THEN i <= cur.newoffset
  ELSE IF thread = "closed" THEN f \in DOMAIN statefile.offset /\ Passed(statefile.offset[f], i)
  ELSE f \in DOMAIN filetree /\ Passed(filetree[f].offset, i)

\* A record that was read is behind the scanner, in the files it may still open.
ReadsBehind ==
  ~forgot =>
    \A f \in Files : \A i \in 1 .. size[f] :
      /\ fate[f][i] # "twice"
      /\ fate[f][i] = "read" /\ (f \in present \/ IsRead(f)) => Behind(f, i)

\* A file that is there and was seen in an earlier scan is yet to be seen in
\* this one, so that it will not be pruned.
ToBeSeen ==
  ~forgot /\ thread \in {"scanning", "reading"} /\ server = "up" =>
    \A f \in present \cap DOMAIN filetree :
      filetree[f].scantime = "before" =>
        \/ f \in todo.base \cup todo.sub
        \/ f \in SubFiles /\ SubDir \in todo.base
        \/ IsRead(f)

IInv ==
  /\ TypeOK /\ FileTypes /\ StateTypes /\ CurTypes /\ Levels
  /\ TreeDone /\ StateDone /\ ReadingDone
  /\ ReadsBehind /\ ToBeSeen

-----------------------------------------------------------------------------
(* What the steps have in common                                           *)

\* The effective limit of the recursion is a natural number.
LEMMA LimitIsNat == RecurLimit \in Nat
  BY ScanAssumption DEF RecurLimit

\* A sequence has the elements of a function on 1 .. n.
LEMMA FunctionIsSeq ==
  ASSUME NEW S, NEW n \in Nat, NEW q \in [1 .. n -> S]
  PROVE  q \in Seq(S) /\ Len(q) = n
  BY SeqDef, LenProperties

\* The records before an offset are done in the next state.
DoneAfter(f, offset) ==
  /\ offset <= size'[f]
  /\ \A i \in 1 .. offset : fate'[f][i] # "new"

\* Offsets that were done stay done when files grow and records are dealt with.
LEMMA DoneStaysDone ==
  ASSUME NEW f \in Files, NEW offset \in Int, OffsetsDone(f, offset), size[f] \in Nat, size'[f] \in Nat,
         size[f] <= size'[f], \A i \in 1 .. size[f] : fate[f][i] # "new" => fate'[f][i] # "new"
  PROVE  DoneAfter(f, offset)
<1>1. \A i \in 1 .. offset : i \in 1 .. size[f]
  BY DEF OffsetsDone
<1> QED
  BY <1>1 DEF OffsetsDone, DoneAfter

\* What the parts of the invariant about offsets say of the next state.
LEMMA DoneNext ==
  /\ TreeDone' <=> \A f \in DOMAIN filetree' : DoneAfter(f, filetree'[f].offset)
  /\ StateDone' <=> \A f \in DOMAIN statefile.offset' : DoneAfter(f, statefile.offset'[f])
  /\ ReadingDone' <=> (thread' = "reading" =>
                         /\ cur'.file \in DOMAIN filetree' /\ cur'.newsize <= size'[cur'.file]
                         /\ DoneAfter(cur'.file, cur'.newoffset))
  BY DEF TreeDone, StateDone, ReadingDone, OffsetsDone, DoneAfter

-----------------------------------------------------------------------------
(* The directory                                                           *)

\* A record appears at the end of a file: no offset is there yet.
LEMMA GrowPreserves ==
  ASSUME IInv, NEW f \in Files, Grow(f)
  PROVE  IInv'
<1> USE DEF IInv
<1>1. /\ size'[f] = size[f] + 1 /\ \A g \in Files \ {f} : size'[g] = size[g] /\ fate'[g] = fate[g]
      /\ size' \in [Files -> Nat] /\ fate' \in [Files -> Seq(Fates)]
      /\ Len(fate'[f]) = size'[f] /\ size'[f] <= Len(contents[f])
      /\ \A i \in 1 .. size[f] : fate'[f][i] = fate[f][i]
      /\ fate'[f][size[f] + 1] = "new"
  BY DEF Grow, FileTypes, StateTypes, CurTypes, TypeOK, Fates
<1>2. UNCHANGED <<contents, present, config, server, thread, scanvars, statefile, forgot, events>>
  BY DEF Grow
<1>3. \A g \in Files : /\ size[g] \in Nat /\ size'[g] \in Nat /\ size[g] <= size'[g]
                       /\ \A i \in 1 .. size[g] : fate'[g][i] = fate[g][i]
  <2> TAKE g \in Files
  <2>1. CASE g = f
    BY <1>1, <2>1 DEF FileTypes, StateTypes, CurTypes
  <2>2. CASE g # f
    BY <1>1, <2>2 DEF FileTypes, StateTypes, CurTypes
  <2> QED
    BY <2>1, <2>2
<1>4. TypeOK' /\ FileTypes' /\ StateTypes' /\ CurTypes' /\ Levels'
  BY <1>1, <1>2 DEF TypeOK, FileTypes, StateTypes, CurTypes, Levels, scanvars, NodeType
<1>5. TreeDone' /\ StateDone' /\ ReadingDone'
  <2>1. \A g \in Files, o \in Int : OffsetsDone(g, o) => DoneAfter(g, o)
    BY <1>3, DoneStaysDone
  <2>2. TreeDone'
    BY <1>2, <2>1, DoneNext DEF TreeDone, TypeOK, NodeType, scanvars
  <2>3. StateDone'
    BY <1>2, <2>1, DoneNext DEF StateDone, StateTypes
  <2>4. ReadingDone'
    <3>1. thread = "reading" => cur.newsize <= size'[cur.file]
      BY <1>3 DEF ReadingDone, CurTypes
    <3> QED
      BY <1>2, <2>1, <3>1, DoneNext DEF ReadingDone, CurTypes, scanvars
  <2> QED
    BY <2>2, <2>3, <2>4
<1>6. ReadsBehind'
  <2> SUFFICES ASSUME ~forgot, NEW g \in Files, NEW i \in 1 .. size'[g]
               PROVE  /\ fate'[g][i] # "twice"
                      /\ fate'[g][i] = "read" /\ (g \in present \/ IsRead(g)) => Behind(g, i)
    BY <1>2 DEF ReadsBehind, IsRead, Behind, scanvars
  <2>1. CASE i \in 1 .. size[g]
    BY <1>3, <2>1 DEF ReadsBehind
  <2>2. CASE g = f /\ i = size[f] + 1
    BY <1>1, <2>2
  <2> QED
    BY <1>1, <1>3, <2>1, <2>2
<1>7. ToBeSeen'
  BY <1>2 DEF ToBeSeen, IsRead, scanvars
<1> QED
  BY <1>4, <1>5, <1>6, <1>7

\* A file goes away.
LEMMA RemovePreserves ==
  ASSUME IInv, NEW f \in Files, Remove(f)
  PROVE  IInv'
<1> USE DEF IInv
<1>1. /\ present' = present \ {f} /\ events' = events + 1
      /\ UNCHANGED <<contents, size, config, server, thread, scanvars, statefile, fate, forgot>>
  BY DEF Remove, Event
<1>2. TypeOK' /\ FileTypes' /\ StateTypes' /\ CurTypes' /\ Levels'
  BY <1>1 DEF TypeOK, FileTypes, StateTypes, CurTypes, Levels, scanvars, NodeType
<1>3. TreeDone' /\ StateDone' /\ ReadingDone'
  BY <1>1 DEF TreeDone, StateDone, ReadingDone, OffsetsDone, scanvars
<1>4. ReadsBehind' /\ ToBeSeen'
  BY <1>1 DEF ReadsBehind, ToBeSeen, Behind, IsRead, scanvars
<1> QED
  BY <1>2, <1>3, <1>4

-----------------------------------------------------------------------------
(* The server                                                              *)

\* The server starts, is told to stop, or has stopped; what the scanner knows
\* is left alone.
LEMMA ServerPreserves ==
  ASSUME IInv, StartServer \/ StopServer \/ ServerStopped
  PROVE  IInv'
<1> USE DEF IInv
<1>1. /\ server' = "up" => server = "down"
      /\ server' = "down" => thread = "closed"
      /\ server' \in {"down", "up", "stopping"} /\ events' \in Nat
      /\ recurlevel' = recurlevel \/ (recurlevel' = 0 /\ thread = "closed")
      /\ UNCHANGED <<contents, size, present, config, thread, filetree, todo, dir, cur, statefile, fate, forgot>>
  BY DEF StartServer, StopServer, ServerStopped, Event, FileTypes, StateTypes, CurTypes, scanvars
<1>2. TypeOK' /\ FileTypes' /\ StateTypes' /\ CurTypes' /\ Levels'
  <2>1. recurlevel' \in 0 .. RecurLimit
    BY <1>1, LimitIsNat DEF TypeOK
  <2>2. TypeOK'
    BY <1>1, <2>1 DEF TypeOK
  <2> QED
    BY <1>1, <2>2 DEF FileTypes, StateTypes, CurTypes, Levels
<1>3. TreeDone' /\ StateDone' /\ ReadingDone'
  BY <1>1 DEF TreeDone, StateDone, ReadingDone, OffsetsDone
<1>4. ReadsBehind'
  BY <1>1 DEF ReadsBehind, Behind, IsRead
<1>5. ToBeSeen'
  BY <1>1 DEF ToBeSeen, IsRead, Levels
<1> QED
  BY <1>2, <1>3, <1>4, <1>5

\* The server is killed: the offsets in memory are lost.
LEMMA KillPreserves ==
  ASSUME IInv, Kill
  PROVE  IInv'
<1> USE DEF IInv
<1>1. /\ server' = "down" /\ thread' = "closed" /\ filetree' = NoTree /\ nextnew' = FALSE
      /\ recurlevel' = 0 /\ todo' = NoTodo /\ dir' = "base" /\ cur' = NoCur /\ forgot' = TRUE
      /\ events' = events + 1
      /\ UNCHANGED <<contents, size, present, config, statefile, fate>>
  BY DEF Kill, Event
<1>2. TypeOK' /\ FileTypes' /\ StateTypes' /\ CurTypes' /\ Levels'
  BY <1>1, ScanAssumption, LimitIsNat DEF TypeOK, FileTypes, StateTypes, CurTypes, Levels, NodeType, NoTree, NoTodo
<1>3. TreeDone' /\ StateDone' /\ ReadingDone'
  BY <1>1 DEF TreeDone, StateDone, ReadingDone, OffsetsDone, NoTree
<1>4. ReadsBehind' /\ ToBeSeen'
  BY <1>1 DEF ReadsBehind, ToBeSeen
<1> QED
  BY <1>2, <1>3, <1>4

-----------------------------------------------------------------------------
(* The thread, and the directories it reads                                *)

\* A thread starts from the offsets of the state file.
LEMMA SpawnPreserves ==
  ASSUME IInv, Spawn
  PROVE  IInv'
<1> USE DEF IInv
<1>1. /\ thread = "closed" /\ thread' = "idle" /\ server = "up"
      /\ \/ filetree' = RecoveredTree /\ UNCHANGED <<forgot, events>>
         \/ filetree' = NoTree /\ forgot' = TRUE /\ events' = events + 1
      /\ UNCHANGED <<contents, size, present, config, server, nextnew, recurlevel, todo, dir, cur, statefile, fate>>
  BY DEF Spawn, Event
<1>2. /\ DOMAIN filetree' \subseteq Files /\ filetree' \in [DOMAIN filetree' -> NodeType]
      /\ \A f \in DOMAIN filetree' : f \in DOMAIN statefile.offset /\ filetree'[f].offset = statefile.offset[f]
  <2>1. \A o \in Nat \cup {-1}, m \in BOOLEAN : NewNode(o, m) \in NodeType /\ NewNode(o, m).offset = o
    BY ScanAssumption DEF NewNode, NodeType
  <2>2. CASE filetree' = RecoveredTree
    <3>1. \A f \in DOMAIN statefile.offset :
            /\ NewNode(statefile.offset[f], f \in statefile.mid) \in NodeType
            /\ NewNode(statefile.offset[f], f \in statefile.mid).offset = statefile.offset[f]
      <4> TAKE f \in DOMAIN statefile.offset
      <4>1. statefile.offset[f] \in Nat \cup {-1}
        BY DEF StateTypes
      <4>2. (f \in statefile.mid) \in BOOLEAN
        OBVIOUS
      <4> QED
        BY <2>1, <4>1, <4>2
    <3> QED
      BY <2>2, <3>1 DEF StateTypes, RecoveredTree
  <2>3. CASE filetree' = NoTree
    BY <2>3 DEF NoTree
  <2> QED
    BY <1>1, <2>2, <2>3
<1>3. TypeOK' /\ FileTypes' /\ StateTypes' /\ CurTypes' /\ Levels'
  <2>1. TypeOK'
    BY <1>1, <1>2 DEF TypeOK
  <2> QED
    BY <1>1, <2>1 DEF FileTypes, StateTypes, CurTypes, Levels
<1>4. TreeDone' /\ StateDone' /\ ReadingDone'
  BY <1>1, <1>2 DEF TreeDone, StateDone, ReadingDone, OffsetsDone
<1>5. ReadsBehind'
  BY <1>1, <1>2 DEF ReadsBehind, Behind, IsRead, RecoveredTree
<1>6. ToBeSeen'
  BY <1>1 DEF ToBeSeen
<1> QED
  BY <1>3, <1>4, <1>5, <1>6

\* The tree keeps its files and their offsets.
SameOffsets ==
  /\ DOMAIN filetree' = DOMAIN filetree /\ filetree' \in [DOMAIN filetree -> NodeType]
  /\ \A f \in DOMAIN filetree : filetree'[f].offset = filetree[f].offset

\* A scan starts: every file that is there is to be seen.
LEMMA ScanStartPreserves ==
  ASSUME IInv, ScanStart
  PROVE  IInv'
<1> USE DEF IInv
<1>1. /\ thread = "idle" /\ thread' = "scanning" /\ dir' = "base"
      /\ \/ /\ todo' = [base |-> (BaseFiles \cap present) \cup {SubDir}, sub |-> {}]
            /\ UNCHANGED <<forgot, events>>
         \/ todo' = NoTodo /\ forgot' = TRUE /\ events' = events + 1
      /\ UNCHANGED <<contents, size, present, config, server, nextnew, recurlevel, cur, statefile, fate>>
  BY DEF ScanStart, Event
<1>2. SameOffsets
  <2>1. \A f \in DOMAIN filetree : filetree[f] \in NodeType
    BY DEF TypeOK
  <2>2. \A f \in DOMAIN filetree : /\ Aged(filetree)[f] \in NodeType
                                  /\ Aged(filetree)[f].offset = filetree[f].offset
    BY <2>1 DEF Aged, NodeType
  <2>3. DOMAIN Aged(filetree) = DOMAIN filetree /\ Aged(filetree) \in [DOMAIN filetree -> NodeType]
    BY <2>2 DEF Aged
  <2> QED
    BY <2>2, <2>3 DEF ScanStart, SameOffsets, TypeOK
<1>3. TypeOK' /\ FileTypes' /\ StateTypes' /\ CurTypes' /\ Levels'
  BY <1>1, <1>2, ScanAssumption DEF TypeOK, FileTypes, StateTypes, CurTypes, Levels, SameOffsets, NoTodo
<1>4. TreeDone' /\ StateDone' /\ ReadingDone'
  BY <1>1, <1>2 DEF TreeDone, StateDone, ReadingDone, OffsetsDone, SameOffsets
<1>5. ReadsBehind'
  BY <1>1, <1>2 DEF ReadsBehind, Behind, IsRead, SameOffsets
<1>6. ToBeSeen'
  BY <1>1, <1>2 DEF ToBeSeen, TypeOK, SameOffsets, Files
<1> QED
  BY <1>3, <1>4, <1>5, <1>6

\* Into the sub-directory and out of it.
LEMMA SubDirPreserves ==
  ASSUME IInv, EnterSubDir \/ LeaveSubDir
  PROVE  IInv'
<1> USE DEF IInv
<1>1. UNCHANGED <<contents, size, present, config, server, thread, filetree, nextnew, cur, statefile, fate>>
  BY DEF EnterSubDir, LeaveSubDir
<1>2. CASE EnterSubDir
  <2>1. /\ thread = "scanning" /\ dir = "base"
        /\ \/ /\ recurlevel < RecurLimit /\ recurlevel' = recurlevel + 1 /\ dir' = "sub"
              /\ todo' = [base |-> todo.base \ {SubDir}, sub |-> SubFiles \cap present]
              /\ UNCHANGED <<forgot, events>>
           \/ /\ events' \in {events, events + 1} /\ forgot' = TRUE
              /\ todo' = [todo EXCEPT !.base = @ \ {SubDir}]
              /\ UNCHANGED <<recurlevel, dir>>
    BY <1>2 DEF EnterSubDir, MayRecurse, Event
  <2>2. TypeOK' /\ FileTypes' /\ StateTypes' /\ CurTypes' /\ Levels'
    BY <1>1, <2>1, ScanAssumption, LimitIsNat DEF TypeOK, FileTypes, StateTypes, CurTypes, Levels
  <2>3. ToBeSeen'
    BY <1>1, <2>1, ScanAssumption DEF ToBeSeen, IsRead, TypeOK, FileTypes, StateTypes, CurTypes, Files
  <2>4. ReadsBehind'
    BY <1>1, <2>1 DEF ReadsBehind, Behind, IsRead, FileTypes, StateTypes, CurTypes
  <2> QED
    BY <1>1, <2>2, <2>3, <2>4 DEF TreeDone, StateDone, ReadingDone, OffsetsDone
<1>3. CASE LeaveSubDir
  <2>1. /\ thread = "scanning" /\ dir = "sub" /\ (todo.sub = {} \/ server = "stopping")
        /\ dir' = "base" /\ recurlevel' = recurlevel - 1 /\ todo' = [todo EXCEPT !.sub = {}]
        /\ UNCHANGED <<forgot, events>>
    BY <1>3 DEF LeaveSubDir
  <2>2. TypeOK' /\ FileTypes' /\ StateTypes' /\ CurTypes' /\ Levels'
    <3>1. recurlevel' \in 0 .. RecurLimit
      BY <2>1, ScanAssumption, LimitIsNat DEF TypeOK, Levels
    <3>2. todo' \in [base : SUBSET (BaseFiles \cup {SubDir}), sub : SUBSET SubFiles] /\ todo'.sub = {}
      BY <2>1 DEF CurTypes
    <3> QED
      BY <1>1, <2>1, <3>1, <3>2 DEF TypeOK, FileTypes, StateTypes, CurTypes, Levels
  <2>3. ToBeSeen'
    BY <1>1, <2>1, ScanAssumption DEF ToBeSeen, IsRead, TypeOK, FileTypes, StateTypes, CurTypes, Files
  <2>4. ReadsBehind'
    BY <1>1, <2>1 DEF ReadsBehind, Behind, IsRead, FileTypes, StateTypes, CurTypes
  <2> QED
    BY <1>1, <2>2, <2>3, <2>4 DEF TreeDone, StateDone, ReadingDone, OffsetsDone
<1> QED
  BY <1>2, <1>3

-----------------------------------------------------------------------------
(* The entries of a directory                                              *)

\* EReadDir() returns a file; the other entries stay to be read.
LEMMA EntryTaken ==
  ASSUME IInv, NEW f \in Files, NextEntry(f)
  PROVE  /\ thread = "scanning" /\ server = "up"
         /\ todo' \in [base : SUBSET (BaseFiles \cup {SubDir}), sub : SUBSET SubFiles]
         /\ SubDir \in todo.base => SubDir \in todo'.base
         /\ \A g \in Files \ {f} : g \in todo.base \cup todo.sub => g \in todo'.base \cup todo'.sub
         /\ dir = "base" => todo'.sub = {}
<1> USE DEF IInv
<1>1. /\ thread = "scanning" /\ server = "up" /\ f # SubDir
      /\ todo' = [todo EXCEPT ![dir] = @ \ {f}]
  BY ScanAssumption DEF NextEntry
<1>2. CASE dir = "base"
  BY <1>1, <1>2 DEF CurTypes, Levels
<1>3. CASE dir = "sub"
  BY <1>1, <1>3 DEF CurTypes, Levels
<1> QED
  BY <1>1, <1>2, <1>3 DEF TypeOK

\* A file is passed over, or cannot be looked at, which makes the scanner lose
\* track of it unless it has gone away.
LEMMA PassOverPreserves ==
  ASSUME IInv, NEW f \in Files, PassOver(f) \/ StatFails(f)
  PROVE  IInv'
<1> USE DEF IInv
<1>1. /\ NextEntry(f) /\ events' \in {events, events + 1}
      /\ UNCHANGED <<contents, size, present, config, server, thread, nextnew, recurlevel, dir, cur,
                     statefile, fate>>
  BY DEF PassOver, StatFails, Event
<1>2. /\ SameOffsets
      /\ \A g \in DOMAIN filetree : filetree'[g].scantime = "before" => filetree[g].scantime = "before"
      /\ \/ f \in DOMAIN filetree /\ filetree'[f].scantime = "now" /\ UNCHANGED forgot
         \/ f \notin present /\ UNCHANGED forgot
         \/ forgot' = TRUE
  <2>1. CASE StatFails(f)
    BY <2>1 DEF StatFails, SameOffsets, TypeOK
  <2>2. CASE PassOver(f)
    <3>1. filetree[f] \in NodeType /\ f \in DOMAIN filetree
      BY <2>2 DEF PassOver, TypeOK
    <3> DEFINE idle == IF filetree[f].offset = -1 \/ filetree[f].idledelay = 0
                         THEN filetree[f].idledelay ELSE filetree[f].idledelay - 1
               n == [filetree[f] EXCEPT !.scantime = "now", !.idledelay = idle]
    <3>2. filetree' = [filetree EXCEPT ![f] = n] /\ UNCHANGED forgot
      BY <2>2, <3>1 DEF PassOver, NodeType, TypeOK
    <3>3. idle \in 0 .. IdleDelay
      BY <3>1, ScanAssumption DEF NodeType
    <3> HIDE DEF idle
    <3>4. n \in NodeType /\ n.offset = filetree[f].offset /\ n.scantime = "now"
      BY <3>1, <3>3 DEF NodeType
    <3> HIDE DEF n
    <3> QED
      BY <3>1, <3>2, <3>4 DEF SameOffsets, TypeOK
  <2> QED
    BY <2>1, <2>2
<1>3. TypeOK' /\ FileTypes' /\ StateTypes' /\ CurTypes' /\ Levels'
  BY <1>1, <1>2, EntryTaken DEF TypeOK, FileTypes, StateTypes, CurTypes, Levels, SameOffsets
<1>4. TreeDone' /\ StateDone' /\ ReadingDone'
  BY <1>1, <1>2, EntryTaken DEF TreeDone, StateDone, ReadingDone, OffsetsDone, SameOffsets
<1>5. ReadsBehind'
  <2> SUFFICES ASSUME ~forgot' PROVE ReadsBehind'
    BY DEF ReadsBehind
  <2>1. ~forgot
    BY <1>2
  <2>2. \A g \in Files, i \in Int : Behind(g, i) => Behind(g, i)'
    BY <1>1, <1>2, EntryTaken DEF Behind, IsRead, SameOffsets
  <2> QED
    BY <1>1, <2>1, <2>2 DEF ReadsBehind, IsRead
<1>6. ToBeSeen'
  <2> SUFFICES ASSUME ~forgot', NEW g \in present, g \in DOMAIN filetree', filetree'[g].scantime = "before"
               PROVE  \/ g \in todo'.base \cup todo'.sub
                      \/ g \in SubFiles /\ SubDir \in todo'.base
                      \/ IsRead(g)'
    BY <1>1 DEF ToBeSeen
  <2>1. g # f /\ ~forgot /\ g \in DOMAIN filetree /\ filetree[g].scantime = "before"
    BY <1>2 DEF SameOffsets
  <2> QED
    BY <1>1, <2>1, EntryTaken DEF ToBeSeen, IsRead, TypeOK
<1> QED
  BY <1>3, <1>4, <1>5, <1>6

\* What Examine() does to the records of the file: in a first scan that is to
\* skip what is there, those that are new are passed.
LEMMA ExaminedRecords ==
  ASSUME IInv, NEW f \in Files, Examine(f)
  PROVE  /\ fate' \in [Files -> Seq(Fates)] /\ \A g \in Files : Len(fate'[g]) = Len(fate[g])
         /\ \A g \in Files, i \in Nat : i \in 1 .. size[g] =>
              \/ fate'[g][i] = fate[g][i] /\ (g = f /\ nextnew => fate[g][i] # "new")
              \/ g = f /\ nextnew /\ fate[g][i] = "new" /\ fate'[g][i] = "passed"
<1> USE DEF IInv
<1>1. CASE nextnew
  <2> DEFINE q == [i \in DOMAIN fate[f] |-> IF fate[f][i] = "new" THEN "passed" ELSE fate[f][i]]
  <2>1. fate' = [fate EXCEPT ![f] = q]
    BY <1>1 DEF Examine
  <2>2. /\ fate[f] \in Seq(Fates) /\ Len(fate[f]) \in Nat /\ DOMAIN fate[f] = 1 .. Len(fate[f])
        /\ Len(fate[f]) = size[f]
    BY DEF FileTypes, TypeOK
  <2>3. q \in [1 .. Len(fate[f]) -> Fates]
    BY <2>2, ElementOfSeq DEF Fates
  <2>4. q \in Seq(Fates) /\ Len(q) = Len(fate[f])
    BY <2>2, <2>3, FunctionIsSeq
  <2>5. \A i \in 1 .. size[f] : q[i] = IF fate[f][i] = "new" THEN "passed" ELSE fate[f][i]
    BY <2>2
  <2> HIDE DEF q
  <2> QED
    BY <1>1, <2>1, <2>2, <2>4, <2>5 DEF FileTypes
<1>2. CASE ~nextnew
  BY <1>2 DEF Examine, FileTypes
<1> QED
  BY <1>1, <1>2

\* A file is examined: its node is made or kept, and ProcessFile() is called if
\* there is something to read.
LEMMA ExaminePreserves ==
  ASSUME IInv, NEW f \in Files, Examine(f)
  PROVE  IInv'
<1> USE DEF IInv
<1> DEFINE o == IF nextnew THEN size[f] ELSE Node(f).offset
<1>1. /\ NextEntry(f) /\ Examined(f) /\ f \in present
      /\ IF o < size[f]
           THEN thread' = "reading" /\ cur' = [file |-> f, newoffset |-> o, newsize |-> size[f], reccnt |-> 0]
           ELSE UNCHANGED <<thread, cur>>
      /\ UNCHANGED <<contents, size, present, config, server, nextnew, recurlevel, dir, statefile, forgot, events>>
  BY DEF Examine
<1>2. /\ Node(f) \in NodeType /\ Node(f).offset # -1
      /\ OffsetsDone(f, Node(f).offset)
      /\ f \in DOMAIN filetree => Node(f) = filetree[f]
      /\ f \notin DOMAIN filetree => Node(f).offset = 0 /\ Node(f).scantime = "never"
  BY <1>1, ScanAssumption DEF Examined, Node, NewNode, NodeType, TypeOK, OffsetsDone, TreeDone, FileTypes
<1>3. o \in Nat /\ o <= size[f]
  BY <1>2 DEF FileTypes, OffsetsDone, NodeType
<1>4. PICK n \in NodeType : /\ filetree' = WithNode(f, n) /\ n.offset = o
                            /\ n.scantime = IF o < size[f] THEN Node(f).scantime ELSE "now"
  <2>1. PICK idle \in {0, IF IdleDelay > 0 THEN IdleDelay - 1 ELSE 0},
             mid \in {FALSE, size[f] < Len(contents[f]), Node(f).mid} :
          filetree' = WithNode(f, [Node(f) EXCEPT !.offset = o, !.mid = mid, !.idledelay = idle,
                                     !.scantime = IF o < size[f] THEN @ ELSE "now"])
    BY DEF Examine
  <2>0. idle \in 0 .. IdleDelay /\ mid \in BOOLEAN
    <3>1. idle \in 0 .. IdleDelay
      BY ScanAssumption
    <3>2. Node(f).mid \in BOOLEAN
      BY <1>2 DEF NodeType
    <3>3. (size[f] < Len(contents[f])) \in BOOLEAN
      BY DEF FileTypes
    <3> QED
      BY <3>1, <3>2, <3>3
  <2> DEFINE m == [Node(f) EXCEPT !.offset = o, !.mid = mid, !.idledelay = idle,
                                     !.scantime = IF o < size[f] THEN @ ELSE "now"]
  <2>2. m \in NodeType /\ m.offset = o /\ m.scantime = IF o < size[f] THEN Node(f).scantime ELSE "now"
    BY <1>2, <1>3, <2>0 DEF NodeType
  <2> QED
    BY <2>1, <2>2
<1>5. /\ DOMAIN filetree' = DOMAIN filetree \cup {f} /\ filetree'[f] = n
      /\ \A g \in DOMAIN filetree \ {f} : filetree'[g] = filetree[g]
      /\ filetree' \in [DOMAIN filetree' -> NodeType]
  BY <1>4 DEF WithNode, TypeOK
<1> HIDE DEF o
<1>6. thread = "scanning" /\ server = "up" /\ ~IsRead(f)
  BY <1>1, EntryTaken DEF IsRead
<1>7. TypeOK'
  BY <1>1, <1>5, <1>6, ExaminedRecords, EntryTaken DEF TypeOK
<1>8. FileTypes' /\ StateTypes' /\ Levels'
  BY <1>1, <1>6, ExaminedRecords, EntryTaken DEF FileTypes, StateTypes, Levels
<1>9. CurTypes'
  BY <1>1, <1>3, <1>6, EntryTaken DEF CurTypes, FileTypes
<1>10. \A g \in Files, p \in Int : OffsetsDone(g, p) => DoneAfter(g, p)
  <2>1. \A g \in Files : size[g] \in Nat /\ size'[g] = size[g]
    BY <1>1 DEF FileTypes
  <2>2. \A g \in Files : \A i \in 1 .. size[g] : fate[g][i] # "new" => fate'[g][i] # "new"
    BY <2>1, ExaminedRecords
  <2> QED
    BY <2>1, <2>2, DoneStaysDone
<1>11. DoneAfter(f, o)
  <2>1. CASE nextnew
    BY <1>1, <1>3, <2>1, ExaminedRecords DEF o, DoneAfter, FileTypes
  <2>2. CASE ~nextnew
    BY <1>2, <1>10, <2>2 DEF o, NodeType
  <2> QED
    BY <2>1, <2>2
<1>12. TreeDone'
  BY <1>4, <1>5, <1>10, <1>11, DoneNext DEF TreeDone, TypeOK, NodeType
<1>13. StateDone'
  BY <1>1, <1>10, DoneNext DEF StateDone, StateTypes
<1>14. ReadingDone'
  BY <1>1, <1>3, <1>5, <1>6, <1>11, DoneNext DEF FileTypes
<1>15. ReadsBehind'
  <2> SUFFICES ASSUME ~forgot, NEW g \in Files, NEW i \in 1 .. size[g]
               PROVE  /\ fate'[g][i] # "twice"
                      /\ fate'[g][i] = "read" /\ (g \in present \/ IsRead(g)') => Behind(g, i)'
    BY <1>1 DEF ReadsBehind
  <2>1. fate'[g][i] \in {fate[g][i], "passed"}
    BY <1>1, ExaminedRecords DEF FileTypes
  <2>2. fate[g][i] # "twice"
    BY DEF ReadsBehind
  <2>3. fate[g][i] = "read" /\ g \in present => g \in DOMAIN filetree /\ Passed(filetree[g].offset, i)
    BY <1>6 DEF ReadsBehind, Behind, IsRead
  <2>4. ASSUME fate[g][i] = "read", g \in present \/ IsRead(g)' PROVE Behind(g, i)'
    <3>1. CASE g = f
      <4>1. i <= o
        BY <1>1, <1>2, <2>3, <2>4, <3>1 DEF o, Passed
      <4> QED
        BY <1>1, <1>4, <1>5, <1>6, <3>1, <4>1 DEF Behind, IsRead, Passed
    <3>2. CASE g # f
      BY <1>1, <1>5, <1>6, <2>3, <2>4, <3>2 DEF Behind, IsRead, Passed
    <3> QED
      BY <3>1, <3>2
  <2> QED
    BY <2>1, <2>2, <2>4
<1>16. ToBeSeen'
  <2> SUFFICES ASSUME ~forgot, NEW g \in present, g \in DOMAIN filetree', filetree'[g].scantime = "before"
               PROVE  \/ g \in todo'.base \cup todo'.sub
                      \/ g \in SubFiles /\ SubDir \in todo'.base
                      \/ IsRead(g)'
    BY <1>1 DEF ToBeSeen
  <2>1. CASE g = f
    BY <1>1, <1>4, <1>5, <2>1 DEF IsRead
  <2>2. CASE g # f
    BY <1>1, <1>5, <1>6, <2>2, EntryTaken DEF ToBeSeen, IsRead, TypeOK
  <2> QED
    BY <2>1, <2>2
<1> QED
  BY <1>7, <1>8, <1>9, <1>12, <1>13, <1>14, <1>15, <1>16

-----------------------------------------------------------------------------
(* ProcessFile()                                                           *)

\* What is known of the record at hand.
LEMMA RecordAtHand ==
  ASSUME IInv, thread = "reading", MoreToRead
  PROVE  /\ cur.file \in Files /\ cur.newoffset \in Nat /\ cur.file \in DOMAIN filetree
         /\ cur.newoffset + 1 \in 1 .. size[cur.file] /\ cur.newoffset + 1 <= cur.newsize
         /\ ~forgot => fate[cur.file][cur.newoffset + 1] \notin {"read", "twice"}
<1> USE DEF IInv
<1>1. /\ cur.file \in Files /\ cur.newoffset \in Nat /\ cur.file \in DOMAIN filetree
      /\ cur.newoffset + 1 \in 1 .. size[cur.file] /\ cur.newoffset + 1 <= cur.newsize
  BY DEF MoreToRead, CurTypes, ReadingDone, FileTypes
<1>2. ASSUME ~forgot PROVE fate[cur.file][cur.newoffset + 1] \notin {"read", "twice"}
  <2>1. IsRead(cur.file)
    BY DEF IsRead
  <2> QED
    BY <1>1, <1>2, <2>1 DEF ReadsBehind, Behind
<1> QED
  BY <1>1, <1>2

\* The record at hand is dealt with.
LEMMA RecordMarked ==
  ASSUME IInv, thread = "reading", MoreToRead, NEW v \in Fates \ {"new"},
         fate' = [fate EXCEPT ![cur.file][cur.newoffset + 1] = v], UNCHANGED size
  PROVE  /\ fate' \in [Files -> Seq(Fates)] /\ \A g \in Files : Len(fate'[g]) = Len(fate[g])
         /\ fate'[cur.file][cur.newoffset + 1] = v
         /\ \A g \in Files : \A i \in 1 .. size[g] :
              g # cur.file \/ i # cur.newoffset + 1 => fate'[g][i] = fate[g][i]
         /\ \A g \in Files, p \in Int : OffsetsDone(g, p) => DoneAfter(g, p)
         /\ DoneAfter(cur.file, cur.newoffset + 1)
<1> USE DEF IInv
<1> DEFINE f == cur.file
           k == cur.newoffset + 1
           q == [fate[f] EXCEPT ![k] = v]
<1>1. f \in Files /\ k \in Nat /\ k \in 1 .. size[f] /\ k = cur.newoffset + 1 /\ cur.newoffset \in Nat
  BY RecordAtHand
<1>2. fate[f] \in Seq(Fates) /\ Len(fate[f]) = size[f] /\ size[f] \in Nat
  BY <1>1 DEF FileTypes, TypeOK
<1>3. /\ q \in Seq(Fates) /\ Len(q) = size[f] /\ q[k] = v
      /\ \A i \in 1 .. size[f] : i # k => q[i] = fate[f][i]
  BY <1>1, <1>2, ExceptSeq
<1>4. fate' = [fate EXCEPT ![f] = q]
  BY <1>1 DEF FileTypes
<1> HIDE DEF q, k, f
<1>5. /\ fate' \in [Files -> Seq(Fates)] /\ \A g \in Files : Len(fate'[g]) = Len(fate[g])
      /\ fate'[f][k] = v
      /\ \A g \in Files : \A i \in 1 .. size[g] : g # f \/ i # k => fate'[g][i] = fate[g][i]
  BY <1>1, <1>2, <1>3, <1>4 DEF FileTypes
<1>6. \A g \in Files : \A i \in 1 .. size[g] : fate[g][i] # "new" => fate'[g][i] # "new"
  BY <1>5
<1>7. \A g \in Files, p \in Int : OffsetsDone(g, p) => DoneAfter(g, p)
  BY <1>6, DoneStaysDone DEF FileTypes
<1>8. DoneAfter(f, k)
  <2>1. DoneAfter(f, cur.newoffset)
    BY <1>1, <1>7 DEF ReadingDone, f
  <2> QED
    BY <1>1, <1>2, <1>5, <2>1 DEF DoneAfter
<1> QED
  BY <1>5, <1>7, <1>8 DEF f, k

\* A record is added to the ring: the first time, unless the scanner lost track.
LEMMA ReadRecordPreserves ==
  ASSUME IInv, ReadRecord
  PROVE  IInv'
<1> USE DEF IInv
<1> DEFINE f == cur.file
           k == cur.newoffset + 1
           v == IF fate[f][k] \in {"read", "twice"} THEN "twice" ELSE "read"
<1>1. /\ thread = "reading" /\ MoreToRead
      /\ UNCHANGED <<contents, size, present, config, server, thread, filetree, nextnew, recurlevel, todo,
                     dir, statefile, forgot, events>>
  BY DEF ReadRecord
<1>2. f \in Files /\ k \in Nat /\ k \in 1 .. size[f] /\ f \in DOMAIN filetree /\ k <= cur.newsize
  BY <1>1, RecordAtHand
<1>3. cur' \in [file : Files, newoffset : Nat, newsize : Nat, reccnt : Nat]
      /\ cur'.file = f /\ cur'.newoffset = k /\ cur'.newsize = cur.newsize
  <2>1. cur \in [file : Files, newoffset : Nat, newsize : Nat, reccnt : Nat]
    BY <1>1 DEF CurTypes
  <2>2. cur' = [cur EXCEPT !.newoffset = cur.newoffset + 1, !.reccnt = cur.reccnt + 1]
    BY DEF ReadRecord
  <2>3. cur.newoffset + 1 \in Nat /\ cur.reccnt + 1 \in Nat
    BY <2>1
  <2> QED
    BY <2>1, <2>2, <2>3, Zenon
<1>4. fate' = [fate EXCEPT ![f][k] = v]
  BY <1>2 DEF ReadRecord, FileTypes
<1>5. v \in Fates \ {"new"} /\ (~forgot => v = "read")
  BY <1>1, RecordAtHand DEF Fates
<1> HIDE DEF v
<1>6. /\ fate' \in [Files -> Seq(Fates)] /\ \A g \in Files : Len(fate'[g]) = Len(fate[g])
      /\ fate'[f][k] = v
      /\ \A g \in Files : \A i \in 1 .. size[g] : g # f \/ i # k => fate'[g][i] = fate[g][i]
      /\ \A g \in Files, p \in Int : OffsetsDone(g, p) => DoneAfter(g, p)
      /\ DoneAfter(f, k)
  BY <1>1, <1>4, <1>5, RecordMarked
<1> HIDE DEF f, k
<1>7. TypeOK' /\ FileTypes' /\ StateTypes' /\ CurTypes' /\ Levels'
  BY <1>1, <1>3, <1>6 DEF TypeOK, FileTypes, StateTypes, CurTypes, Levels
<1>8. TreeDone' /\ StateDone'
  BY <1>1, <1>6, DoneNext DEF TreeDone, StateDone, TypeOK, NodeType, StateTypes
<1>9. ReadingDone'
  BY <1>1, <1>2, <1>3, <1>6, DoneNext DEF ReadingDone, f
<1>10. ReadsBehind'
  <2> SUFFICES ASSUME ~forgot, NEW g \in Files, NEW i \in 1 .. size[g]
               PROVE  /\ fate'[g][i] # "twice"
                      /\ fate'[g][i] = "read" /\ (g \in present \/ IsRead(g)') => Behind(g, i)'
    BY <1>1 DEF ReadsBehind
  <2>1. IsRead(g)' <=> g = f
    BY <1>1, <1>3 DEF IsRead
  <2>2. IsRead(g) <=> g = f
    BY <1>1 DEF IsRead, f
  <2>3. CASE g = f /\ i = k
    BY <1>2, <1>3, <1>5, <1>6, <2>1, <2>3 DEF Behind
  <2>4. CASE g = f /\ i # k
    <3>1. fate'[g][i] = fate[g][i] /\ (fate[g][i] = "read" => i <= cur.newoffset)
      <4>1. fate[g][i] = "read" => Behind(g, i)
        BY <2>2, <2>4 DEF ReadsBehind
      <4> QED
        BY <1>6, <2>2, <2>4, <4>1 DEF Behind
    <3>2. i <= cur.newoffset => i <= k
      BY <1>2, <1>1 DEF CurTypes, k
    <3> QED
      <4>1. fate[g][i] # "twice"
        BY DEF ReadsBehind
      <4> QED
        BY <1>3, <2>1, <2>4, <3>1, <3>2, <4>1 DEF Behind
  <2>5. CASE g # f
    BY <1>1, <1>6, <2>1, <2>2, <2>5 DEF Behind, ReadsBehind
  <2> QED
    BY <2>3, <2>4, <2>5
<1>11. ToBeSeen'
  BY <1>1, <1>3 DEF ToBeSeen, IsRead, f
<1> QED
  BY <1>7, <1>8, <1>9, <1>10, <1>11

\* ProcessFile() returns the offset it got to, or gives the file up.
LEMMA ReturnPreserves ==
  ASSUME IInv, thread = "reading", NEW o \in {-1, cur.newoffset}, Return(o), events' \in Nat,
         UNCHANGED <<contents, size, present, config, server, nextnew, recurlevel, todo, dir, statefile,
                     fate, forgot>>
  PROVE  IInv'
<1> USE DEF IInv
<1> DEFINE f == cur.file
<1>1. /\ f \in Files /\ f \in DOMAIN filetree /\ cur.newoffset \in Nat /\ o \in Nat \cup {-1}
      /\ OffsetsDone(f, o) /\ filetree[f] \in NodeType
  BY DEF ReadingDone, CurTypes, OffsetsDone, FileTypes, TypeOK
<1>2. /\ thread' = "scanning"
      /\ filetree' = [filetree EXCEPT ![f] = [filetree[f] EXCEPT !.offset = o, !.scantime = "now"]]
  BY <1>1 DEF Return, TypeOK, NodeType
<1>3. /\ DOMAIN filetree' = DOMAIN filetree /\ filetree' \in [DOMAIN filetree -> NodeType]
      /\ filetree'[f].offset = o /\ filetree'[f].scantime = "now"
      /\ \A g \in DOMAIN filetree \ {f} : filetree'[g] = filetree[g]
  BY <1>1, <1>2 DEF TypeOK, NodeType
<1>4. \A g \in Files : IsRead(g) <=> g = f
  BY DEF IsRead
<1> HIDE DEF f
<1>5. TypeOK' /\ FileTypes' /\ StateTypes' /\ CurTypes' /\ Levels'
  BY <1>2, <1>3 DEF TypeOK, FileTypes, StateTypes, CurTypes, Levels
<1>6. TreeDone' /\ StateDone' /\ ReadingDone'
  BY <1>1, <1>2, <1>3 DEF TreeDone, StateDone, ReadingDone, OffsetsDone
<1>7. ReadsBehind'
  <2> SUFFICES ASSUME ~forgot, NEW g \in Files, NEW i \in 1 .. size[g], fate[g][i] = "read", g \in present
               PROVE  Behind(g, i)'
    BY <1>2 DEF ReadsBehind, IsRead
  <2>1. CASE g = f
    BY <1>1, <1>2, <1>3, <1>4, <2>1 DEF ReadsBehind, Behind, IsRead, Passed
  <2>2. CASE g # f
    BY <1>2, <1>3, <1>4, <2>2 DEF ReadsBehind, Behind, IsRead
  <2> QED
    BY <2>1, <2>2
<1>8. ToBeSeen'
  BY <1>2, <1>3, <1>4 DEF ToBeSeen, TypeOK
<1> QED
  BY <1>5, <1>6, <1>7, <1>8

\* WriteRecord() fails: the thread ends behind the record.
LEMMA RefusePreserves ==
  ASSUME IInv, RefuseRecord
  PROVE  IInv'
<1> USE DEF IInv
<1> DEFINE f == cur.file
           k == cur.newoffset + 1
           v == IF fate[f][k] = "new" THEN "passed" ELSE fate[f][k]
<1>1. /\ thread = "reading" /\ MoreToRead /\ thread' = "closing"
      /\ server' \in {server, "stopping"} /\ events' \in {events, events + 1}
      /\ todo' = NoTodo /\ dir' = "base"
      /\ UNCHANGED <<contents, size, present, config, nextnew, recurlevel, statefile, forgot>>
  BY DEF RefuseRecord, Event
<1>2. f \in Files /\ k \in Nat /\ k \in 1 .. size[f] /\ f \in DOMAIN filetree /\ filetree[f] \in NodeType
  BY <1>1, RecordAtHand DEF TypeOK
<1>3. /\ DOMAIN filetree' = DOMAIN filetree /\ filetree' \in [DOMAIN filetree -> NodeType]
      /\ filetree'[f].offset = k
      /\ \A g \in DOMAIN filetree \ {f} : filetree'[g] = filetree[g]
  BY <1>2 DEF RefuseRecord, TypeOK, NodeType
<1>4. fate' = [fate EXCEPT ![f][k] = v]
  BY <1>2 DEF RefuseRecord, FileTypes
<1>5. v \in Fates \ {"new"} /\ (~forgot => v = "passed")
  <2>1. fate[f][k] \in Fates
    BY <1>2, ElementOfSeq DEF FileTypes, TypeOK
  <2> QED
    BY <1>1, <2>1, RecordAtHand DEF Fates
<1> HIDE DEF v
<1>6. /\ fate' \in [Files -> Seq(Fates)] /\ \A g \in Files : Len(fate'[g]) = Len(fate[g])
      /\ fate'[f][k] = v
      /\ \A g \in Files : \A i \in 1 .. size[g] : g # f \/ i # k => fate'[g][i] = fate[g][i]
      /\ \A g \in Files, p \in Int : OffsetsDone(g, p) => DoneAfter(g, p)
      /\ DoneAfter(f, k)
  BY <1>1, <1>4, <1>5, RecordMarked
<1>7. \A g \in Files : IsRead(g) <=> g = f
  BY <1>1 DEF IsRead
<1>8. cur.newoffset <= k /\ cur.newoffset \in Nat
  BY <1>1, RecordAtHand
<1> HIDE DEF f, k
<1>9. TypeOK' /\ FileTypes' /\ StateTypes' /\ CurTypes' /\ Levels'
  <2>1. TypeOK'
    BY <1>1, <1>3, <1>6 DEF TypeOK, NoTodo
  <2>2. CurTypes' /\ Levels'
    BY <1>1 DEF CurTypes, Levels, NoTodo
  <2> QED
    BY <1>1, <1>6, <2>1, <2>2 DEF FileTypes, StateTypes
<1>10. TreeDone' /\ StateDone' /\ ReadingDone'
  <2>1. \A g \in DOMAIN filetree : g \in Files /\ filetree[g].offset \in Int
    BY DEF TypeOK, NodeType
  <2>2. TreeDone'
    BY <1>3, <1>6, <2>1, DoneNext DEF TreeDone
  <2>3. \A g \in DOMAIN statefile.offset : g \in Files /\ statefile.offset[g] \in Int
    BY DEF StateTypes
  <2>4. \A g \in DOMAIN statefile.offset : DoneAfter(g, statefile.offset[g])
    BY <1>6, <2>3 DEF StateDone
  <2>5. StateDone'
    BY <1>1, <2>4, DoneNext
  <2>6. ReadingDone'
    BY <1>1, DoneNext
  <2> QED
    BY <2>2, <2>5, <2>6
<1>11. ReadsBehind'
  <2> SUFFICES ASSUME ~forgot, NEW g \in Files, NEW i \in 1 .. size[g]
               PROVE  /\ fate'[g][i] # "twice"
                      /\ fate'[g][i] = "read" /\ g \in present => Behind(g, i)'
    BY <1>1 DEF ReadsBehind, IsRead
  <2>1. CASE g = f /\ i = k
    BY <1>5, <1>6, <2>1
  <2>2. CASE g = f /\ i # k
    <3>1. fate'[g][i] = fate[g][i] /\ (fate[g][i] = "read" => i <= cur.newoffset)
      <4>1. fate[g][i] = "read" => Behind(g, i)
        BY <1>7, <2>2 DEF ReadsBehind
      <4> QED
        BY <1>6, <1>7, <2>2, <4>1 DEF Behind
    <3>2. i <= cur.newoffset => i <= k
      BY <1>2, <1>8
    <3> QED
      BY <1>1, <1>2, <1>3, <2>2, <3>1, <3>2 DEF Behind, ReadsBehind, IsRead, Passed
  <2>3. CASE g # f
    BY <1>1, <1>3, <1>6, <1>7, <2>3 DEF Behind, ReadsBehind, IsRead
  <2> QED
    BY <2>1, <2>2, <2>3
<1>12. ToBeSeen'
  BY <1>1 DEF ToBeSeen
<1> QED
  BY <1>9, <1>10, <1>11, <1>12

-----------------------------------------------------------------------------
(* The end of a scan and of the thread                                     *)

\* A complete scan prunes the files that are gone.
LEMMA ScanEndPreserves ==
  ASSUME IInv, ScanEnd
  PROVE  IInv'
<1> USE DEF IInv
<1>1. /\ thread = "scanning" /\ dir = "base" /\ todo.base = {} /\ server = "up"
      /\ thread' = "idle" /\ todo' = NoTodo /\ filetree' = Pruned(filetree)
      /\ \/ statefile' = statefile
         \/ statefile' = StateOf(Pruned(filetree))
      /\ UNCHANGED <<contents, size, present, config, server, recurlevel, dir, cur, fate, forgot, events>>
  BY DEF ScanEnd, ScanComplete
<1>2. /\ DOMAIN filetree' \subseteq DOMAIN filetree /\ filetree' \in [DOMAIN filetree' -> NodeType]
      /\ \A f \in DOMAIN filetree' : filetree'[f] = filetree[f]
      /\ \A f \in DOMAIN filetree : filetree[f].scantime # "before" => f \in DOMAIN filetree'
  BY <1>1 DEF Pruned, TypeOK
<1>3. \/ statefile' = statefile
      \/ /\ DOMAIN statefile'.offset = DOMAIN filetree'
         /\ \A f \in DOMAIN filetree' : statefile'.offset[f] = filetree'[f].offset
         /\ statefile'.offset \in [DOMAIN filetree' -> Nat \cup {-1}]
  BY <1>1, <1>2 DEF StateOf, NodeType
<1>4. TypeOK' /\ FileTypes' /\ CurTypes' /\ Levels'
  BY <1>1, <1>2 DEF TypeOK, FileTypes, CurTypes, Levels, NoTodo
<1>5. StateTypes'
  BY <1>2, <1>3 DEF StateTypes, TypeOK
<1>6. TreeDone' /\ ReadingDone'
  BY <1>1, <1>2 DEF TreeDone, ReadingDone, OffsetsDone
<1>7. StateDone'
  BY <1>1, <1>2, <1>3 DEF TreeDone, StateDone, OffsetsDone
<1>8. ReadsBehind'
  <2> SUFFICES ASSUME ~forgot, NEW g \in Files, NEW i \in 1 .. size[g], fate[g][i] = "read", g \in present
               PROVE  Behind(g, i)'
    BY <1>1 DEF ReadsBehind, IsRead
  <2>1. g \in DOMAIN filetree /\ Passed(filetree[g].offset, i)
    BY <1>1 DEF ReadsBehind, Behind, IsRead
  <2>2. filetree[g].scantime # "before"
    BY <1>1, <2>1 DEF ToBeSeen, Levels, IsRead
  <2> QED
    BY <1>1, <1>2, <2>1, <2>2 DEF Behind, IsRead
<1>9. ToBeSeen'
  BY <1>1 DEF ToBeSeen
<1> QED
  BY <1>4, <1>5, <1>6, <1>7, <1>8, <1>9

\* A shutdown ends the loop.
LEMMA LeaveLoopPreserves ==
  ASSUME IInv, LeaveLoop
  PROVE  IInv'
<1> USE DEF IInv
<1>1. /\ thread \in {"idle", "scanning"} /\ thread' = "closing" /\ todo' = NoTodo /\ dir = "base"
      /\ server = "stopping"
      /\ UNCHANGED <<contents, size, present, config, server, filetree, nextnew, recurlevel, dir, cur,
                     statefile, fate, forgot, events>>
  BY DEF LeaveLoop
<1>2. TypeOK' /\ FileTypes' /\ StateTypes' /\ CurTypes' /\ Levels'
  BY <1>1 DEF TypeOK, FileTypes, StateTypes, CurTypes, Levels, NoTodo
<1>3. TreeDone' /\ StateDone' /\ ReadingDone'
  BY <1>1 DEF TreeDone, StateDone, ReadingDone, OffsetsDone
<1>4. ReadsBehind' /\ ToBeSeen'
  BY <1>1 DEF ReadsBehind, ToBeSeen, Behind, IsRead
<1> QED
  BY <1>2, <1>3, <1>4

\* The thread saves its offsets, or loses track.
LEMMA ClosePreserves ==
  ASSUME IInv, CloseThread
  PROVE  IInv'
<1> USE DEF IInv
<1>1. /\ thread = "closing" /\ thread' = "closed" /\ filetree' = NoTree
      /\ \/ statefile' = StateOf(filetree) /\ forgot' = forgot
         \/ statefile' = statefile /\ forgot' = TRUE
      /\ events' \in {events, events + 1}
      /\ UNCHANGED <<contents, size, present, config, server, nextnew, recurlevel, todo, dir, cur, fate>>
  BY DEF CloseThread, Event
<1>2. /\ DOMAIN StateOf(filetree).offset = DOMAIN filetree
      /\ \A f \in DOMAIN filetree : StateOf(filetree).offset[f] = filetree[f].offset
      /\ StateOf(filetree).offset \in [DOMAIN filetree -> Nat \cup {-1}]
  BY DEF StateOf, NodeType, TypeOK
<1>3. TypeOK' /\ FileTypes' /\ CurTypes' /\ Levels'
  BY <1>1 DEF TypeOK, FileTypes, CurTypes, Levels, NoTree
<1>4. StateTypes' /\ StateDone'
  BY <1>1, <1>2 DEF StateTypes, TypeOK, TreeDone, StateDone, OffsetsDone
<1>5. TreeDone' /\ ReadingDone'
  BY <1>1 DEF TreeDone, ReadingDone, NoTree
<1>6. ReadsBehind'
  <2> SUFFICES ASSUME ~forgot', NEW g \in Files, NEW i \in 1 .. size[g]
               PROVE  /\ fate[g][i] # "twice"
                      /\ fate[g][i] = "read" /\ g \in present => Behind(g, i)'
    BY <1>1 DEF ReadsBehind, IsRead
  <2>1. ~forgot /\ statefile' = StateOf(filetree)
    BY <1>1
  <2>2. fate[g][i] = "read" /\ g \in present => g \in DOMAIN filetree /\ Passed(filetree[g].offset, i)
    BY <1>1, <2>1 DEF ReadsBehind, Behind, IsRead
  <2> QED
    BY <1>1, <1>2, <2>1, <2>2 DEF ReadsBehind, Behind, IsRead
<1>7. ToBeSeen'
  BY <1>1 DEF ToBeSeen
<1> QED
  BY <1>3, <1>4, <1>5, <1>6, <1>7

-----------------------------------------------------------------------------
(* The specification                                                       *)

\* No file has a record and no thread runs.
LEMMA InitSatisfies ==
  Init => IInv
<1> SUFFICES ASSUME Init PROVE IInv
  OBVIOUS
<1> USE DEF Init
<1>1. TypeOK
  BY ScanAssumption, LimitIsNat, EmptySeq DEF TypeOK, NoTree, NoTodo
<1>2. FileTypes
  BY ScanAssumption, EmptySeq DEF FileTypes
<1>3. StateTypes /\ CurTypes /\ Levels
  BY DEF StateTypes, CurTypes, Levels, NoState, NoTree, NoTodo
<1>4. TreeDone /\ StateDone /\ ReadingDone
  BY DEF TreeDone, StateDone, ReadingDone, NoTree, NoState
<1>5. ReadsBehind /\ ToBeSeen
  BY DEF ReadsBehind, ToBeSeen
<1> QED
  BY <1>1, <1>2, <1>3, <1>4, <1>5 DEF IInv

\* Every step of the scanner, of the server and of the directory.
LEMMA NextPreserves ==
  IInv /\ [Next]_vars => IInv'
<1> SUFFICES ASSUME IInv, [Next]_vars PROVE IInv'
  OBVIOUS
<1>1. ASSUME NEW f \in Files, Remove(f) \/ Grow(f) PROVE IInv'
  BY <1>1, RemovePreserves, GrowPreserves
<1>2. ASSUME NEW f \in Files, PassOver(f) \/ StatFails(f) \/ Examine(f) PROVE IInv'
  BY <1>2, PassOverPreserves, ExaminePreserves
<1>3. CASE StopAtRecord \/ EndOfFile \/ ReadFails
  <2>1. PICK o \in {-1, cur.newoffset} : Return(o)
    BY <1>3 DEF StopAtRecord, EndOfFile, ReadFails, AfterRead
  <2>2. /\ thread = "reading" /\ events' \in {events, events + 1}
        /\ UNCHANGED <<contents, size, present, config, server, nextnew, recurlevel, todo, dir, statefile,
                       fate, forgot>>
    BY <1>3 DEF StopAtRecord, EndOfFile, ReadFails, Event
  <2>3. events' \in Nat
    BY <2>2 DEF IInv, CurTypes
  <2> QED
    BY <2>1, <2>2, <2>3, ReturnPreserves
<1>4. CASE UNCHANGED vars
  BY <1>4 DEF IInv, TypeOK, FileTypes, StateTypes, CurTypes, Levels, TreeDone, StateDone, ReadingDone,
              OffsetsDone, ReadsBehind, Behind, IsRead, ToBeSeen, vars, scanvars
<1> QED
  BY <1>1, <1>2, <1>3, <1>4, ServerPreserves, KillPreserves, SpawnPreserves, ScanStartPreserves,
     SubDirPreserves, ReadRecordPreserves, RefusePreserves, ScanEndPreserves, LeaveLoopPreserves,
     ClosePreserves DEF Next, Scanning

\* The inductive invariant holds of the scanner (mseedscan.c).
THEOREM ScanInvariant == Spec => []IInv
<1> QED
  BY InitSatisfies, NextPreserves, PTL DEF Spec

\* The nodes, entries and sizes have their types, and the recursion level stays
\* within its limit and never falls below 0, though a thread that ends inside
\* the sub-directory does not give its level back (mseedscan.c, ScanFiles()).
THEOREM TypeCorrect == Spec => []TypeOK
<1>1. IInv => TypeOK
  BY DEF IInv
<1> QED
  BY <1>1, ScanInvariant, PTL

\* Whatever fails and whenever the process dies, no offset in memory or in the
\* state file has passed a record that was not dealt with (mseedscan.c,
\* ScanFiles(), ProcessFile(), SaveState(), RecoverState()).
THEOREM NothingSkipped == Spec => []NoRecordSkipped
<1>1. IInv => NoRecordSkipped
  BY DEF IInv, TreeDone, StateDone, OffsetsDone, NoRecordSkipped
<1> QED
  BY <1>1, ScanInvariant, PTL

\* Unless the scanner lost track of its files, no record is added to the ring
\* twice, over any number of restarts and pruned files (mseedscan.c,
\* PruneFiles(), SaveState(), RecoverState()).
THEOREM NothingReadTwice == Spec => []ReadOnce
<1>1. IInv => ReadOnce
  BY DEF IInv, TypeOK, ReadsBehind, ReadOnce
<1> QED
  BY <1>1, ScanInvariant, PTL

=============================================================================
