------------------------ MODULE StorageMigrationProofs ------------------------
(***************************************************************************)
(* No memory is lost in the cutover, for any number of Hosts, writes and   *)
(* deaths, if the older release does not write between a check and its     *)
(* rename.                                                                 *)
(***************************************************************************)
EXTENDS StorageMigration, TLAPS

LEMMA Numbers ==
  /\ None \notin Content /\ 0 \in Content /\ Foreign \in Content
  /\ \A c \in 0..Writes : c \in Content /\ -c \in Content /\ c # None
  /\ \A c \in Content : Memories(c) \in 0..Writes
  /\ None \notin 0..Writes
  BY StorageAssumption DEF None, Content, Foreign, Memories

LEMMA Kinds ==
  ASSUME state \in {Absent} \cup {File(c) : c \in 1..Writes} \cup Directories
  PROVE  /\ state.kind = "file" <=> state \in {File(c) : c \in 1..Writes}
         /\ state.kind = "file" => state.of \in 1..Writes /\ state = File(state.of)
         /\ state.kind = "absent" <=> state = Absent
         /\ state.kind = "directory" <=> state \in Directories
  BY DEF Absent, File, Directory, Directories

LEMMA Counting ==
  /\ \A n \in 0..Writes : n < Writes => n + 1 \in 1..Writes
  /\ \A n \in 0..Stops : n < Stops => n + 1 \in 0..Stops
  BY StorageAssumption

LEMMA InitType == SInit => STypeOK
<1> SUFFICES ASSUME SInit PROVE STypeOK
  OBVIOUS
<1>1. PICK n \in {0, 1} \cap 0..Writes :
           /\ written = n /\ owed = 1..n
           /\ state = IF n = 0 THEN Absent ELSE File(n)
  BY DEF SInit
<1>2. written \in 0..Writes /\ owed \subseteq 1..Writes /\ (n # 0 => n \in 1..Writes)
  BY <1>1, StorageAssumption
<1>3. state \in {Absent} \cup {File(c) : c \in 1..Writes}
  BY <1>1, <1>2
<1>4. pc \in [Host -> Step] /\ src \in [Host -> Content \cup {None}]
  BY DEF SInit, Step
<1>5. /\ backup = None /\ staged = Absent /\ marker = None /\ rows = None
      /\ old = None /\ meddled = FALSE /\ stops = 0
  BY DEF SInit
<1>6. 0 \in 0..Stops
  BY StorageAssumption
<1> QED BY <1>2, <1>3, <1>4, <1>5, <1>6 DEF STypeOK

LEMMA HostType == ASSUME STypeOK, NEW h \in Host, HostStep(h) PROVE STypeOK'
<1> USE DEF STypeOK
<1>0. /\ None \in Content \cup {None} /\ src[h] \in Content \cup {None}
      /\ \A c \in Content \cup {None} : Directory(c) \in Directories
  BY DEF Directories
<1>1. /\ \A to \in Step : [pc EXCEPT ![h] = to] \in [Host -> Step]
      /\ \A c \in Content \cup {None} : [src EXCEPT ![h] = c] \in [Host -> Content \cup {None}]
  OBVIOUS
<1>2. ASSUME NEW to \in Step, Goto(h, to), UNCHANGED files PROVE STypeOK'
  BY <1>1, <1>2 DEF Goto, files, users
<1>3. ASSUME NEW c \in Content, Take(h, c) PROVE STypeOK'
  <2>1. "preserve" \in Step
    BY DEF Step
  <2> QED BY <1>1, <1>3, <2>1 DEF Take, files, users
<1>4. ASSUME Refuse(h) PROVE STypeOK'
  <2>1. "down" \in Step
    BY DEF Step
  <2> QED BY <1>0, <1>1, <1>4, <2>1 DEF Refuse, files, users
<1>5. CASE Start(h) \/ OpenInstalled(h) \/ PreserveBackup(h) \/ CompareState(h)
  BY <1>2, <1>4, <1>5 DEF Start, OpenInstalled, PreserveBackup, CompareState, Step
<1>6. CASE ReadState(h)
  <2>1. state.kind = "file" => state.of \in Content
    BY Kinds, Numbers
  <2> QED BY <1>2, <1>3, <1>4, <1>6, <2>1 DEF ReadState, Step
<1>7. CASE ReadBackup(h)
  BY <1>2, <1>3, <1>7 DEF ReadBackup, Step
<1>8. CASE Load(h)
  <2>1. state.kind = "file" => -state.of \in Content
    BY Kinds, Numbers
  <2> QED BY <1>3, <1>8, <2>1, Numbers DEF Load
<1>9. CASE CopyBackup(h)
  <2>1. "migrate" \in Step
    BY DEF Step
  <2> QED BY <1>0, <1>1, <1>9, <2>1 DEF CopyBackup, Goto, users
<1>10. CASE Migrate(h)
  <2>1. "mkdir" \in Step
    BY DEF Step
  <2>2. Memories(src[h]) \in (0..Writes) \cup {None}
    BY <1>0, Numbers DEF Memories
  <2>3. CASE marker' = src[h] /\ rows' = Memories(src[h]) /\ Goto(h, "mkdir")
             /\ UNCHANGED <<state, backup, staged>>
    BY <1>0, <1>1, <2>1, <2>2, <2>3 DEF Goto, users
  <2> QED BY <1>2, <1>4, <1>10, <2>1, <2>3 DEF Migrate
<1>11. CASE MakeStaged(h) \/ WriteStaged(h)
  <2>1. "stage" \in Step /\ "compare" \in Step
    BY DEF Step
  <2>2. staged' \in {Absent} \cup Directories
    BY <1>0, <1>11 DEF MakeStaged, WriteStaged
  <2> QED BY <1>1, <1>11, <2>1, <2>2 DEF MakeStaged, WriteStaged, Goto, users
<1>12. CASE RetireState(h)
  <2>1. "install" \in Step
    BY DEF Step
  <2>2. state.kind = "file" => state.of \in Content
    BY Kinds, Numbers
  <2>3. CASE state.kind = "file"
    BY <1>1, <1>12, <2>1, <2>2, <2>3 DEF RetireState, Goto, users
  <2> QED BY <1>4, <1>12, <2>3 DEF RetireState
<1>13. CASE Install(h)
  <2>1. "serving" \in Step
    BY DEF Step
  <2>2. CASE state = Absent /\ staged # Absent
    BY <1>1, <1>13, <2>1, <2>2 DEF Install, Goto, users
  <2> QED BY <1>4, <1>13, <2>2 DEF Install
<1> QED BY <1>5, <1>6, <1>7, <1>8, <1>9, <1>10, <1>11, <1>12, <1>13 DEF HostStep

LEMMA NextType == STypeOK /\ [SNext]_svars => STypeOK'
<1> SUFFICES ASSUME STypeOK, [SNext]_svars PROVE STypeOK'
  OBVIOUS
<1> USE DEF STypeOK
<1>1. ASSUME NEW h \in Host, Stop(h) PROVE STypeOK'
  <2>1. "down" \in Step
    BY DEF Step
  <2>2. stops' \in 0..Stops
    BY <1>1, Counting DEF Stop
  <2> QED BY <1>1, <2>1, <2>2 DEF Stop, files, users
<1>2. ASSUME NEW base, Write(base)
      PROVE  written' \in 1..Writes /\ written' \in 0..Writes /\ owed' \subseteq 1..Writes
  <2>1. written' \in 1..Writes
    BY <1>2, Counting DEF Write
  <2>2. written' \in 0..Writes
    BY <2>1, StorageAssumption
  <2>3. owed' = (owed \ {base}) \cup {written'}
    BY <1>2 DEF Write
  <2>4. owed' \subseteq 1..Writes
    BY <2>1, <2>3
  <2> QED BY <2>1, <2>2, <2>4
<1>3. ASSUME NEW h \in Host, Remember(h) PROVE STypeOK'
  BY <1>2, <1>3 DEF Remember, hosts
<1>4. CASE OldStart
  <2>1. state.kind = "file" => state.of \in 1..Writes
    BY Kinds
  <2>2. old' \in (0..Writes) \cup {None}
    BY <1>4, <2>1, StorageAssumption DEF OldStart
  <2> QED BY <1>4, <2>2 DEF OldStart, files, hosts
<1>5. CASE OldWrite
  <2>1. meddled' \in BOOLEAN
    BY <1>5 DEF OldWrite
  <2> QED BY <1>2, <1>5, <2>1 DEF OldWrite, hosts
<1>6. CASE OldStop
  BY <1>6 DEF OldStop, files, hosts
<1>7. CASE UNCHANGED svars
  BY <1>7 DEF svars, files, hosts, users
<1> QED BY <1>1, <1>3, <1>4, <1>5, <1>6, <1>7, HostType DEF SNext

(* Every variable keeps its type, whichever processes overlap.             *)
THEOREM STypeCorrect == SSpec => []STypeOK
<1> QED BY InitType, NextType, PTL DEF SSpec

-----------------------------------------------------------------------------
(* What is owed is in the state file or in the database *)

\* A Host past the migration has the source whose memories the database holds.
Migrated == {"mkdir", "stage", "compare", "retire", "install"}

InService ==
  /\ \A h \in Host : pc[h] \in Migrated => marker = src[h] /\ src[h] \in Content
  /\ \A h \in Host : pc[h] = "serving" => state.kind = "directory" /\ marker # None
  /\ \A h \in Host : pc[h] \in {"preserve", "copy", "migrate"} => src[h] \in Content
  /\ marker = None => rows = None
  /\ marker # None /\ state.kind # "directory" => rows = Memories(marker)

\* What an older release writes from is what the file holds, also at a rename.
OldKnows ==
  state.kind = "file" =>
    /\ old # None => old = state.of
    /\ \A h \in Host : pc[h] = "retire" => src[h] = state.of

SIndInv == STypeOK /\ InService /\ OldKnows /\ NothingForgotten

LEMMA InitInd == SInit => SIndInv
<1> SUFFICES ASSUME SInit PROVE SIndInv
  OBVIOUS
<1>1. PICK n \in {0, 1} \cap 0..Writes :
           owed = 1..n /\ state = IF n = 0 THEN Absent ELSE File(n)
  BY DEF SInit
<1>2. NothingForgotten
  BY <1>1, StorageAssumption DEF NothingForgotten
<1>3. InService
  BY <1>1 DEF SInit, InService, Migrated, Absent, File
<1>4. OldKnows
  BY DEF SInit, OldKnows
<1> QED BY <1>2, <1>3, <1>4, InitType DEF SIndInv

\* Steps that only move a Host, with another source or none.
LEMMA MoveKeeps ==
  ASSUME SIndInv, NEW h \in Host, UNCHANGED <<state, marker, rows, old, owed>>,
         \A g \in Host : g # h => pc'[g] = pc[g] /\ src'[g] = src[g],
         pc'[h] \in Migrated => marker = src'[h] /\ src'[h] \in Content,
         pc'[h] \in {"preserve", "copy", "migrate"} => src'[h] \in Content,
         pc'[h] = "serving" => state.kind = "directory" /\ marker # None,
         pc'[h] = "retire" /\ state.kind = "file" => src'[h] = state.of
  PROVE  (InService /\ OldKnows /\ NothingForgotten)'
<1>1. InService'
  BY DEF SIndInv, InService
<1>2. OldKnows'
  BY DEF SIndInv, OldKnows
<1>3. NothingForgotten'
  BY DEF SIndInv, NothingForgotten
<1> QED BY <1>1, <1>2, <1>3

LEMMA HostInd ==
  ASSUME SIndInv, NEW h \in Host, HostStep(h)
  PROVE  (InService /\ OldKnows /\ NothingForgotten)'
<1> USE DEF SIndInv
<1>0. /\ pc \in [Host -> Step] /\ src \in [Host -> Content \cup {None}]
      /\ state \in {Absent} \cup {File(c) : c \in 1..Writes} \cup Directories
      /\ backup \in Content \cup {None}
  BY DEF STypeOK
<1>1. ASSUME NEW to, Goto(h, to)
      PROVE  /\ pc'[h] = to /\ src'[h] = src[h] /\ UNCHANGED <<old, owed>>
             /\ \A g \in Host : g # h => pc'[g] = pc[g] /\ src'[g] = src[g]
  BY <1>0, <1>1 DEF Goto, users
<1>2. ASSUME NEW c \in Content, Take(h, c) PROVE (InService /\ OldKnows /\ NothingForgotten)'
  <2>1. /\ pc'[h] = "preserve" /\ src'[h] = c /\ UNCHANGED <<state, marker, rows, old, owed>>
        /\ \A g \in Host : g # h => pc'[g] = pc[g] /\ src'[g] = src[g]
    BY <1>0, <1>2 DEF Take, files, users
  <2> QED BY <2>1, MoveKeeps DEF Migrated
<1>3. ASSUME Refuse(h) PROVE (InService /\ OldKnows /\ NothingForgotten)'
  <2>1. /\ pc'[h] = "down" /\ UNCHANGED <<state, marker, rows, old, owed>>
        /\ \A g \in Host : g # h => pc'[g] = pc[g] /\ src'[g] = src[g]
    BY <1>0, <1>3 DEF Refuse, files, users
  <2> QED BY <2>1, MoveKeeps DEF Migrated
<1>4. CASE Start(h)
  BY <1>1, <1>4, MoveKeeps DEF Start, files, Migrated
<1>5. CASE OpenInstalled(h)
  BY <1>1, <1>3, <1>5, MoveKeeps DEF OpenInstalled, files, Migrated
<1>6. CASE ReadState(h)
  <2>1. state.kind = "file" => state.of \in Content
    BY <1>0, Kinds, Numbers
  <2> QED BY <1>1, <1>2, <1>3, <1>6, <2>1, MoveKeeps DEF ReadState, files, Migrated
<1>7. CASE ReadBackup(h)
  BY <1>0, <1>1, <1>2, <1>7, MoveKeeps DEF ReadBackup, files, Migrated
<1>8. CASE Load(h)
  <2>1. state.kind = "file" => -state.of \in Content
    BY <1>0, Kinds, Numbers
  <2> QED BY <1>2, <1>8, <2>1, Numbers DEF Load
<1>9. CASE PreserveBackup(h)
  BY <1>1, <1>3, <1>9, MoveKeeps DEF PreserveBackup, InService, files, Migrated
<1>10. CASE CopyBackup(h)
  BY <1>1, <1>10, MoveKeeps DEF CopyBackup, InService, Migrated
<1>11. CASE Migrate(h)
  <2>1. src[h] \in Content /\ src[h] # None
    BY <1>11, Numbers DEF Migrate, InService
  <2>2. CASE marker = None /\ marker' = src[h] /\ rows' = Memories(src[h])
             /\ Goto(h, "mkdir") /\ UNCHANGED <<state, backup, staged>>
    <3>1. \A g \in Host : pc[g] \notin Migrated
      BY <2>2, Numbers DEF InService
    <3>2. rows = None
      BY <2>2 DEF InService
    <3>3. owed \subseteq 1..Writes /\ None \notin 1..Writes
      BY StorageAssumption DEF STypeOK, None
    <3>4. InService'
      BY <1>1, <2>1, <2>2, <3>1 DEF InService, Migrated
    <3>5. OldKnows'
      BY <1>1, <2>2 DEF OldKnows
    <3>6. NothingForgotten'
      BY <1>1, <2>2, <3>2, <3>3 DEF NothingForgotten
    <3> QED BY <3>4, <3>5, <3>6
  <2>3. CASE marker = src[h] /\ Goto(h, "mkdir") /\ UNCHANGED files
    BY <1>1, <2>1, <2>3, MoveKeeps DEF files, Migrated
  <2> QED BY <1>3, <1>11, <2>2, <2>3 DEF Migrate
<1>12. CASE MakeStaged(h) \/ WriteStaged(h)
  BY <1>1, <1>12, MoveKeeps DEF MakeStaged, WriteStaged, InService, Migrated
<1>13. CASE CompareState(h)
  BY <1>1, <1>3, <1>13, MoveKeeps DEF CompareState, InService, Migrated, files, Absent, File
<1>14. CASE RetireState(h)
  <2>1. CASE state.kind = "file"
    <3>1. /\ state' = Absent /\ Goto(h, "install") /\ UNCHANGED <<marker, rows>>
      BY <1>14, <2>1 DEF RetireState
    <3>2. /\ src[h] = state.of /\ state.of \in 1..Writes /\ state = File(state.of)
          /\ marker = src[h] /\ src[h] \in Content
      BY <1>0, <1>14, <2>1, Kinds DEF RetireState, OldKnows, InService, Migrated
    <3>3. rows = state.of
      BY <2>1, <3>2, Numbers DEF InService, Memories
    <3>4. NothingForgotten'
      BY <1>1, <3>1, <3>2, <3>3 DEF NothingForgotten, File
    <3>5. InService'
      BY <1>1, <2>1, <3>1, <3>2 DEF InService, Migrated, Absent
    <3> QED BY <3>1, <3>4, <3>5 DEF OldKnows, Absent
  <2> QED BY <1>3, <1>14, <2>1 DEF RetireState
<1>15. CASE Install(h)
  <2>1. CASE state = Absent /\ staged # Absent
    <3>1. /\ state' = staged /\ Goto(h, "serving") /\ UNCHANGED <<marker, rows>>
      BY <1>15, <2>1 DEF Install
    <3>2. state'.kind = "directory"
      BY <2>1, <3>1 DEF STypeOK, Directories, Directory, Absent
    <3>3. NothingForgotten'
      BY <1>1, <2>1, <3>1 DEF NothingForgotten, Absent, File
    <3>4. InService'
      BY <1>1, <1>15, <3>1, <3>2, Numbers DEF Install, InService, Migrated
    <3> QED BY <3>2, <3>3, <3>4 DEF OldKnows
  <2> QED BY <1>3, <1>15, <2>1 DEF Install
<1> QED
  BY <1>4, <1>5, <1>6, <1>7, <1>8, <1>9, <1>10, <1>11, <1>12, <1>13, <1>14, <1>15 DEF HostStep

LEMMA NextInd == ~Gaps => (SIndInv /\ [SNext]_svars => SIndInv')
<1> SUFFICES ASSUME ~Gaps, SIndInv, [SNext]_svars PROVE (InService /\ OldKnows /\ NothingForgotten)'
  BY NextType DEF SIndInv
<1> USE DEF SIndInv
<1>0. /\ pc \in [Host -> Step] /\ src \in [Host -> Content \cup {None}]
      /\ state \in {Absent} \cup {File(c) : c \in 1..Writes} \cup Directories
  BY DEF STypeOK
<1>1. ASSUME NEW h \in Host, Stop(h) PROVE (InService /\ OldKnows /\ NothingForgotten)'
  <2>1. /\ pc'[h] = "down" /\ UNCHANGED <<state, marker, rows, old, owed>>
        /\ \A g \in Host : g # h => pc'[g] = pc[g] /\ src'[g] = src[g]
    BY <1>0, <1>1 DEF Stop, files, users
  <2> QED BY <2>1, MoveKeeps DEF Migrated
<1>2. ASSUME NEW h \in Host, Remember(h) PROVE (InService /\ OldKnows /\ NothingForgotten)'
  <2>1. state.kind = "directory" /\ marker # None /\ UNCHANGED <<state, marker, pc, src, old>>
    BY <1>2 DEF Remember, InService, hosts
  <2>2. \A c \in owed : rows = c
    BY <2>1 DEF NothingForgotten, File
  <2>3. NothingForgotten'
    BY <1>2, <2>2 DEF Remember, Write, NothingForgotten
  <2> QED BY <2>1, <2>3 DEF InService, OldKnows
<1>3. CASE OldStart
  <2>1. UNCHANGED <<state, marker, rows, pc, src, owed>>
    BY <1>3 DEF OldStart, files, hosts
  <2>2. state.kind = "file" => old' = state.of
    BY <1>3 DEF OldStart
  <2> QED BY <2>1, <2>2 DEF InService, OldKnows, NothingForgotten
<1>4. CASE OldWrite
  <2>1. /\ UNCHANGED <<marker, rows, pc, src>> /\ state' = File(written') /\ old' = written'
        /\ state.kind # "directory" /\ owed' = (owed \ {old}) \cup {written'}
        /\ \A h \in Host : pc[h] # "retire"
    BY <1>4 DEF OldWrite, Write, hosts
  <2>2. \A c \in owed : c # old => rows = c
    BY <1>4 DEF OldWrite, OldKnows, NothingForgotten, File
  <2>3. NothingForgotten'
    BY <2>1, <2>2 DEF NothingForgotten
  <2>4. state'.kind = "file" /\ state'.of = written'
    BY <2>1 DEF File
  <2> QED BY <2>1, <2>3, <2>4 DEF InService, OldKnows
<1>5. CASE OldStop
  <2>1. UNCHANGED <<state, marker, rows, pc, src, owed>> /\ old' = None
    BY <1>5 DEF OldStop, files, hosts
  <2> QED BY <2>1 DEF InService, OldKnows, NothingForgotten
<1>6. CASE UNCHANGED svars
  BY <1>6 DEF svars, files, hosts, users, InService, OldKnows, NothingForgotten
<1> QED BY <1>1, <1>2, <1>3, <1>4, <1>5, <1>6, HostInd DEF SNext

(* What users had remembered is in the state file or in the database,      *)
(* wherever Hosts die and however many of them overlap, also beside an     *)
(* older release that writes at any other moment than between a check and  *)
(* its rename.                                                             *)
THEOREM NothingForgottenHolds == ASSUME ~Gaps PROVE SSpec => []NothingForgotten
<1>1. SIndInv => NothingForgotten
  BY DEF SIndInv
<1> QED BY <1>1, InitInd, NextInd, PTL DEF SSpec
===============================================================================
