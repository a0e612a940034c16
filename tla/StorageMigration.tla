--------------------------- MODULE StorageMigration ---------------------------
(***************************************************************************)
(* The cutover of the Host's state from one JSON file to a directory and a *)
(* SQLite database (app/electron/piHostStorage.ts).  Host processes may    *)
(* overlap: nothing keeps two from starting, and a release from before the *)
(* cutover may run beside them.  A step is what a process does between two *)
(* awaits; it may die after any of them.                                   *)
(*                                                                         *)
(* A content stands for all of a state file.  0 is a fresh state, n > 0    *)
(* what the n-th write left, -n the same decoded and encoded again, which  *)
(* drops the memories.                                                     *)
(***************************************************************************)
EXTENDS Integers

CONSTANTS Host,       \* processes of this release
          Writes,     \* bound: writes of memories, by whatever process
          Stops,      \* bound: deaths, exits and I/O errors of Hosts
          Gaps        \* the older release may write between a check and its rename

ASSUME StorageAssumption == Writes \in Nat /\ Stops \in Nat /\ Gaps \in BOOLEAN

VARIABLES state,      \* what is at statePath
          backup,     \* statePath.pre-sqlite.json
          staged,     \* statePath.cutover
          marker,     \* the source whose migration the database reports
          rows,       \* the memories in the database
          pc, src,    \* each Host's place in openPiHostStorage, and its source
          old,        \* the content the older release works on
          written,    \* number of writes
          owed,       \* contents that nothing has superseded
          meddled,    \* the older release wrote after a Host had started
          stops

files == <<state, backup, staged, marker, rows>>
hosts == <<pc, src>>
users == <<old, written, owed, meddled>>
svars == <<files, hosts, users, stops>>

None    == -(Writes + 2)            \* no file, no source, not running
Foreign == -(Writes + 1)            \* an installed snapshot read as a source
Content == Foreign..Writes

\* What lstat finds; only a file or a directory with a snapshot has a content.
Absent       == [kind |-> "absent", of |-> None]
File(c)      == [kind |-> "file", of |-> c]
Directory(c) == [kind |-> "directory", of |-> c]

Step == {"down", "installed", "state", "backup", "load", "preserve", "copy", "migrate", "mkdir",
         "stage", "compare", "retire", "install", "serving"}

Directories == {Directory(c) : c \in Content \cup {None}}

STypeOK ==
  /\ state \in {Absent} \cup {File(c) : c \in 1..Writes} \cup Directories
  /\ staged \in {Absent} \cup Directories
  /\ backup \in Content \cup {None} /\ marker \in Content \cup {None}
  /\ rows \in (0..Writes) \cup {None} /\ old \in (0..Writes) \cup {None}
  /\ pc \in [Host -> Step] /\ src \in [Host -> Content \cup {None}]
  /\ written \in 0..Writes /\ owed \subseteq 1..Writes
  /\ meddled \in BOOLEAN /\ stops \in 0..Stops

\* A new installation, or one that an older release wrote.
SInit ==
  /\ \E n \in {0, 1} \cap 0..Writes :
       /\ written = n /\ owed = 1..n
       /\ state = IF n = 0 THEN Absent ELSE File(n)
  /\ backup = None /\ staged = Absent /\ marker = None /\ rows = None
  /\ pc = [h \in Host |-> "down"] /\ src = [h \in Host |-> None]
  /\ old = None /\ meddled = FALSE /\ stops = 0

-----------------------------------------------------------------------------
(* openPiHostStorage, step by step *)

Goto(h, to) == pc' = [pc EXCEPT ![h] = to] /\ UNCHANGED <<src, users, stops>>
Take(h, c)  == /\ pc' = [pc EXCEPT ![h] = "preserve"] /\ src' = [src EXCEPT ![h] = c]
               /\ UNCHANGED <<files, users, stops>>

\* An exception: the process ends and reports why it is not ready.
Refuse(h) == /\ pc' = [pc EXCEPT ![h] = "down"] /\ src' = [src EXCEPT ![h] = None]
             /\ UNCHANGED <<files, users, stops>>

Start(h) ==
  /\ pc[h] = "down"
  /\ Goto(h, IF state.kind = "directory" THEN "installed" ELSE "state")
  /\ UNCHANGED files

\* openInstalledStorage: snapshot and database must be of one migration.
OpenInstalled(h) ==
  /\ pc[h] = "installed"
  /\ IF state.kind = "directory" /\ state.of # None /\ marker = state.of
     THEN Goto(h, "serving") /\ UNCHANGED files
     ELSE Refuse(h)

\* legacySource reads the state, else the backup, else the state again.
ReadState(h) ==
  /\ pc[h] = "state"
  /\ \/ state.kind = "file" /\ Take(h, state.of)
     \/ state = Absent /\ Goto(h, "backup") /\ UNCHANGED files
     \/ state.kind = "directory" /\ Refuse(h)

\* mutant: the backup is not looked for, a missing state is a new installation
ReadBackupNot(h) ==
  /\ pc[h] = "backup"
  /\ Goto(h, "load") /\ UNCHANGED files

ReadBackup(h) ==
  /\ pc[h] = "backup"
  /\ IF backup # None THEN Take(h, backup) ELSE Goto(h, "load") /\ UNCHANGED files

Load(h) ==
  /\ pc[h] = "load"
  /\ \/ state.kind = "file" /\ Take(h, -state.of)
     \/ state = Absent /\ Take(h, 0)
     \/ state.kind = "directory" /\ Take(h, Foreign)

\* preserveBackup looks first and writes after an await.
PreserveBackup(h) ==
  /\ pc[h] = "preserve"
  /\ IF backup \in {None, src[h]}
     THEN Goto(h, IF backup = None THEN "copy" ELSE "migrate") /\ UNCHANGED files
     ELSE Refuse(h)

CopyBackup(h) ==
  /\ pc[h] = "copy"
  /\ backup' = src[h]
  /\ Goto(h, "migrate") /\ UNCHANGED <<state, staged, marker, rows>>

\* migrateLegacy: rows and marker in one transaction, once and for one source.
Memories(c) == IF c < 0 THEN 0 ELSE c

Migrate(h) ==
  /\ pc[h] = "migrate"
  /\ \/ /\ marker = None
        /\ marker' = src[h] /\ rows' = Memories(src[h])
        /\ Goto(h, "mkdir") /\ UNCHANGED <<state, backup, staged>>
     \/ /\ marker = src[h]
        /\ Goto(h, "mkdir") /\ UNCHANGED files
     \/ /\ marker \notin {None, src[h]}
        /\ Refuse(h)

\* The directory is shared by all Hosts; atomicWrite makes it again if need be.
MakeStaged(h) ==
  /\ pc[h] = "mkdir"
  /\ staged' = IF staged = Absent THEN Directory(None) ELSE staged
  /\ Goto(h, "stage") /\ UNCHANGED <<state, backup, marker, rows>>

WriteStaged(h) ==
  /\ pc[h] = "stage"
  /\ staged' = Directory(src[h])
  /\ Goto(h, "compare") /\ UNCHANGED <<state, backup, marker, rows>>

\* mutant: the state is not compared with the source before it is retired
CompareStateNot(h) ==
  /\ pc[h] = "compare"
  /\ Goto(h, IF state = Absent THEN "install" ELSE "retire") /\ UNCHANGED files

CompareState(h) ==
  /\ pc[h] = "compare"
  /\ IF state \in {Absent, File(src[h])}
     THEN Goto(h, IF state = Absent THEN "install" ELSE "retire") /\ UNCHANGED files
     ELSE Refuse(h)

\* rename moves what is there by now; it does not put a directory over a file.
RetireState(h) ==
  /\ pc[h] = "retire"
  /\ IF state.kind = "file"
     THEN /\ backup' = state.of /\ state' = Absent
          /\ Goto(h, "install") /\ UNCHANGED <<staged, marker, rows>>
     ELSE Refuse(h)

\* Nor does it put one over a file or over a directory that is not empty.
Install(h) ==
  /\ pc[h] = "install"
  /\ IF state = Absent /\ staged # Absent
     THEN /\ state' = staged /\ staged' = Absent
          /\ Goto(h, "serving") /\ UNCHANGED <<backup, marker, rows>>
     ELSE Refuse(h)

HostStep(h) ==
  \/ Start(h)
  \/ OpenInstalled(h)
  \/ ReadState(h)
  \/ ReadBackup(h)
  \/ Load(h)
  \/ PreserveBackup(h)
  \/ CopyBackup(h)
  \/ Migrate(h)
  \/ MakeStaged(h)
  \/ WriteStaged(h)
  \/ CompareState(h)
  \/ RetireState(h)
  \/ Install(h)

Stop(h) ==
  /\ pc[h] # "down" /\ stops < Stops /\ stops' = stops + 1
  /\ pc' = [pc EXCEPT ![h] = "down"] /\ src' = [src EXCEPT ![h] = None]
  /\ UNCHANGED <<files, users>>

-----------------------------------------------------------------------------
(* Whoever writes memories *)

Write(base) ==
  /\ written < Writes /\ written' = written + 1
  /\ owed' = (owed \ {base}) \cup {written'}

\* A mutation of the memories by a Host in service.
Remember(h) ==
  /\ pc[h] = "serving"
  /\ Write(rows) /\ rows' = written'
  /\ UNCHANGED <<state, backup, staged, marker, hosts, old, meddled, stops>>

\* The older release takes what it cannot read for a fresh state.
OldStart ==
  /\ old = None
  /\ old' = IF state.kind = "file" THEN state.of ELSE 0
  /\ UNCHANGED <<files, hosts, written, owed, meddled, stops>>

\* Its writer renames a file onto the path, which fails on a directory.
OldWrite ==
  /\ old # None /\ state.kind # "directory"
  /\ Gaps \/ \A h \in Host : pc[h] \notin {"copy", "retire"}
  /\ Write(old) /\ old' = written' /\ state' = File(written')
  /\ meddled' = (meddled \/ backup # None \/ \E h \in Host : pc[h] # "down")
  /\ UNCHANGED <<backup, staged, marker, rows, hosts, stops>>

OldStop == old # None /\ old' = None /\ UNCHANGED <<files, hosts, written, owed, meddled, stops>>

SNext ==
  \/ \E h \in Host : HostStep(h) \/ Stop(h) \/ Remember(h)
  \/ OldStart \/ OldWrite \/ OldStop

\* A Host that is not in service goes on, and is started again when it ended.
SSpec     == SInit /\ [][SNext]_svars
SFairSpec == SSpec /\ \A h \in Host : WF_svars(HostStep(h))

-----------------------------------------------------------------------------
(* Properties *)

(* What users had the application remember is in the state file or in the *)
(* database until a write that knew it superseded it: whichever processes  *)
(* overlap and wherever they die, no rename, no copy and no second import  *)
(* replaces it, and none of it is left in the backup alone, where no Host  *)
(* looks once the directory is installed (cutover-recovery.md).            *)
NothingForgotten == \A c \in owed : state = File(c) \/ rows = c

(* Unless the older release writes during the cutover, a Host gets into    *)
(* service: no death leaves files that every later start refuses, and      *)
(* Hosts that start together do not keep each other out for ever.          *)
ComesUp == <>(meddled \/ \E h \in Host : pc[h] = "serving")
===============================================================================
