------------------------------ MODULE Archive ------------------------------
(***************************************************************************)
(* The miniSEED archive of one client, dsarchive.c: the files it has open  *)
(* (DataStream and its DataStreamGroups), and the files on disk, which it  *)
(* shares with the other connections that archive.  A layout expands to a  *)
(* definition key and a file name.  The flags written with '#' are in the  *)
(* name but not in the key: the name begins with the value they had for    *)
(* the first record, and later records of the key are to go to the same    *)
(* file.  A layout without such flags is the case of a single value.       *)
(* Records with the same key here have the same pattern for glob() too:    *)
(* layouts whose key, the defining values run together, is the same for    *)
(* records that belong in different files are left out.                    *)
(***************************************************************************)
EXTENDS Integers, FiniteSets, Functions

CONSTANTS
  Keys,         \* definition keys
  Flags,        \* values of the non-defining flags
  MaxOpenFiles, \* DataStream.maxopenfiles
  MaxOthers     \* bound on the other connections about to open a file

ASSUME ArchiveAssumption ==
  /\ IsFiniteSet(Keys) /\ Flags \subseteq Nat /\ Flags # {}
  /\ MaxOpenFiles \in Nat /\ MaxOthers \in Nat

VARIABLES
  groups,        \* the DataStreamGroups: key -> name of the open file
  openfilecount, \* DataStream.openfilecount
  pending,       \* the record being added: its key, the file it goes to, and
                 \* how far it has come: "named", "archived", "skipped", "none"
  files,         \* the files on disk: the whole records in each
  others,        \* the names other connections have settled on but not opened
  doubtful       \* keys for which a name was made without knowing the files

diskvars == <<files, others, doubtful>>
archivevars == <<groups, openfilecount, pending, diskvars>>

FileNames == [key : Keys, flags : Flags]
NamesOf(key) == [key : {key}, flags : Flags]

NoRecord == [step |-> "none"]
Pending(step, key, f) == [step |-> step, key |-> key, file |-> f]

ArchiveInit ==
  /\ groups = [k \in {} |-> {}]
  /\ openfilecount = 0
  /\ pending = NoRecord
  /\ files = [f \in {} |-> {}]
  /\ others = {}
  /\ doubtful = {}

\* The files glob() finds for a key.
Matched(key) == {f \in DOMAIN files : f.key = key}

\* The name made from the record.  For FileFor it would be a mistake.
FileForRecord(key, flags) == [key |-> key, flags |-> flags]

\* ds_getstream(): the file of a key without an open group is a file of the
\* key that glob() finds, the last one, or a new one.
FileFor(key, flags) ==
  IF Matched(key) = {} THEN [key |-> key, flags |-> flags]
  ELSE CHOOSE f \in Matched(key) : \A g \in Matched(key) : g.flags <= f.flags

\* A connection is about to create a file of this key.
Settled == others \cup (IF pending.step = "named" THEN {pending.file} ELSE {})
InTheMaking(key) == \E f \in Settled \ DOMAIN files : f.key = key

\* Looking for the file of a key, without a group: the one found, or a new
\* one; when glob() fails, the record's own name.
Looks(key, flags, f) ==
  \/ /\ f = FileFor(key, flags)
     /\ doubtful' = IF Matched(key) = {} /\ InTheMaking(key) THEN doubtful \cup {key} ELSE doubtful
  \/ /\ f = FileForRecord(key, flags)
     /\ doubtful' = doubtful \cup {key}

\* ds_getstream() settles on the file a record of this client goes to.
Names(key, flags) ==
  /\ \E f \in NamesOf(key) :
       /\ IF key \in DOMAIN groups THEN f = groups[key] /\ UNCHANGED doubtful
                                   ELSE Looks(key, flags, f)
       /\ pending' = Pending("named", key, f)
  /\ UNCHANGED <<groups, openfilecount, files, others>>

\* A mistake for CountAfterClose: what is closed at the limit is not counted.
CountAfterIdle(idle, more) == openfilecount - Cardinality(idle)

\* The files open once idle groups and then more are closed.
CountAfterClose(idle, more) == openfilecount - Cardinality(idle) - Cardinality(more)

\* ds_openfile(): the limit is reached.
AtLimit(count) == count + 10 > MaxOpenFiles

\* ds_openfile() at the limit closes idle groups with shorter and shorter
\* timeouts.  It goes by the wall clock: after the clock was set back it may
\* close none, and the file is opened all the same.
ClosedForOpen(count, open) == IF AtLimit(count) THEN SUBSET open ELSE {{}}

\* The files on disk once file f is there and has records recs too.
FilesWith(f, recs) ==
  [g \in DOMAIN files \cup {f} |->
     (IF g \in DOMAIN files THEN files[g] ELSE {}) \cup (IF g = f THEN recs ELSE {})]

\* ds_streamproc() writing record rec: ds_closeidle() closes other groups not
\* used for a time, by the wall clock, then the file is open or is opened.
Archived(rec) ==
  LET key == pending.key
      f   == pending.file
  IN  /\ \E idle \in SUBSET (DOMAIN groups \ {key}) :
           IF key \in DOMAIN groups
             THEN /\ groups' = Restrict(groups, DOMAIN groups \ idle)
                  /\ openfilecount' = CountAfterClose(idle, {})
             ELSE \E more \in ClosedForOpen(CountAfterClose(idle, {}), DOMAIN groups \ idle) :
                    /\ groups' = [k \in (DOMAIN groups \ (idle \cup more)) \cup {key} |->
                                    IF k = key THEN f ELSE groups[k]]
                    /\ openfilecount' = CountAfterClose(idle, more) + 1
      /\ files' = FilesWith(f, {rec})
      /\ pending' = [pending EXCEPT !.step = "archived"]
      /\ UNCHANGED <<others, doubtful>>

\* ds_streamproc() failing: a directory or the file cannot be opened, or the
\* record is not written whole.
ArchiveFails == files' \in {files, FilesWith(pending.file, {})} /\ UNCHANGED <<others, doubtful>>

\* ds_shutdown(), when the client's thread ends.
ArchiveShutdown == groups' = [k \in {} |-> {}] /\ openfilecount' = 0 /\ pending' = NoRecord

\* Another connection, with its own groups, settles on the name for a key it
\* has no group of, and opens the file.
OtherNames(key, flags) ==
  /\ Cardinality(others) < MaxOthers
  /\ \E f \in NamesOf(key) : Looks(key, flags, f) /\ others' = others \cup {f}
  /\ UNCHANGED <<groups, openfilecount, pending, files>>

OtherOpens(f) ==
  /\ f \in others
  /\ others' = others \ {f}
  /\ files' = FilesWith(f, {})
  /\ UNCHANGED <<groups, openfilecount, pending, doubtful>>

-----------------------------------------------------------------------------
ArchiveTypeOK ==
  /\ DOMAIN groups \subseteq Keys
  /\ \A k \in DOMAIN groups : groups[k] \in FileNames
  /\ openfilecount \in Int
  /\ \/ pending = NoRecord
     \/ \E step \in {"named", "archived", "skipped"}, k \in Keys, f \in FileNames :
          pending = Pending(step, k, f)
  /\ DOMAIN files \subseteq FileNames
  /\ others \subseteq FileNames
  /\ doubtful \subseteq Keys

(* The count of open files is the number of files open, although files are *)
(* closed twice over in the middle of adding a record, for being idle and  *)
(* for the limit: a count that drifts would close files without end, or    *)
(* never (dsarchive.c, ds_openfile() and ds_closeidle()).                  *)
OpenFilesExact == openfilecount = Cardinality(DOMAIN groups)

(* All records of a key are in one file: the file is found again after it  *)
(* was closed for being idle, for the limit, or with the connection, by    *)
(* this connection and by others, although its name has flags the key has  *)
(* not.  Unless glob() failed for the key, or two connections were about   *)
(* to create a file of it at the same time (dsarchive.c, ds_getstream()).  *)
OneFilePerKey ==
  \A f, g \in DOMAIN files : f.key = g.key /\ f.key \notin doubtful => f = g

=============================================================================
