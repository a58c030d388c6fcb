--------------------------- MODULE CatalogueProofs ---------------------------
(****************************************************************************)
(* Backups as VolumeBackup makes, prunes and deletes them implement         *)
(* BackupCatalogue, for every set of backups, requests, containers and      *)
(* storages and every kind of disturbance.                                  *)
(*                                                                          *)
(* A step is somebody's: a run's or a request's on one backup, or the end   *)
(* of the process.  For the backups it is not about, what the catalogue     *)
(* shows is unchanged (Unseen); for the one it is about it is the step the  *)
(* lemmas name.  The abstract guards are what VolumeBackupProofs calls      *)
(* RowStage, DelMarked, DeletionSettled and FileKept.                       *)
(****************************************************************************)
EXTENDS VolumeBackupProofs

\* What the catalogue tells of the marks of b.
MarksOf(b) == blame[b] \cap {"asked", "raced", "kept"}

Known == Typed /\ Rows /\ Files

Shown(b) == [Catalogue(b)!Next]_(Catalogue(b)!vars)

\* A step that leaves the row, the archive, the stage and the history of a
\* backup alone is no step of its catalogue.
LEMMA Unseen ==
    ASSUME NEW y \in Backups,
           row'[y] = row[y], file'[y] = file[y], pc'[y] = pc[y], blame'[y] = blame[y]
    PROVE  Shown(y)
<1>1. RunOf(y)' = RunOf(y)
  BY DEF RunOf, WillWrite
<1>2. QED
  BY <1>1 DEF Shown, Catalogue!vars

\* How far a run is, from the stage it is in.
LEMMA RunOfStage ==
    ASSUME NEW b \in Backups
    PROVE  /\ pc[b] = "idle" => RunOf(b) = "new"
           /\ pc[b] \in {"prepare", "open", "copy"} => RunOf(b) = "writing"
           /\ pc[b] \in {"closeOk", "closeErr", "complete", "fail"} => RunOf(b) = "written"
           /\ pc[b] = "cleanup" => RunOf(b) = "failing"
           /\ pc[b] \in {"retain", "prune", "restore", "done", "killed"} => RunOf(b) = "over"
  BY DEF RunOf, WillWrite

\* The same of the stage a step leads to.
LEMMA RunOfNextStage ==
    ASSUME NEW b \in Backups
    PROVE  /\ pc'[b] \in {"prepare", "open", "copy"} => RunOf(b)' = "writing"
           /\ pc'[b] \in {"closeOk", "closeErr", "complete", "fail"} => RunOf(b)' = "written"
           /\ pc'[b] = "cleanup" => RunOf(b)' = "failing"
           /\ pc'[b] \in {"retain", "prune", "restore", "done", "killed"} => RunOf(b)' = "over"
  BY DEF RunOf, WillWrite

\* A step that writes, or gives writing up.
LEMMA WriteShown ==
    ASSUME Known, NEW b \in Backups, NEW y \in Backups,
           \/ Prepare(b) \/ PrepareFails(b) \/ OpenStream(b) \/ OpenStreamFails(b)
           \/ SaveFile(b) \/ SaveFileFails(b)
    PROVE  Shown(y)
<1>1. CASE y # b
  <2>1. /\ row'[y] = row[y] /\ file'[y] = file[y]
        /\ pc'[y] = pc[y] /\ blame'[y] = blame[y]
    BY <1>1 DEF Known, Typed, TypeOK, Prepare, PrepareFails, OpenStream, OpenStreamFails,
       SaveFile, SaveFileFails, Goto, Accuse, dbVars, dockVars, ghostVars
  <2>2. QED
    BY <2>1, Unseen
<1>2. CASE y = b
  <2>1. /\ pc[b] \in {"prepare", "open", "copy"}
        /\ pc'[b] \in {"open", "copy", "closeOk", "closeErr", "fail"}
    BY DEF Known, Typed, TypeOK, Prepare, PrepareFails, OpenStream, OpenStreamFails,
       SaveFile, SaveFileFails, Goto
  <2>2. row' = row /\ file'[b] \in {"absent", "partial", "whole"}
    BY DEF Known, Typed, TypeOK, Prepare, PrepareFails, OpenStream, OpenStreamFails,
       SaveFile, SaveFileFails, dbVars
  <2>3. MarksOf(b)' = MarksOf(b)
    BY DEF Known, Typed, TypeOK, Prepare, PrepareFails, OpenStream, OpenStreamFails,
       SaveFile, SaveFileFails, Accuse, ghostVars, MarksOf
  <2>4. RunOf(b) = "writing" /\ RunOf(b)' \in {"writing", "written"}
    BY <2>1, RunOfStage, RunOfNextStage
  <2>5. Catalogue(b)!Write
    BY <2>2, <2>3, <2>4 DEF Catalogue!Write, MarksOf
  <2>6. QED
    BY <1>2, <2>5 DEF Shown, Catalogue!Next
<1>3. QED
  BY <1>1, <1>2

\* The run says COMPLETED, of an archive that is whole or is being deleted.
LEMMA CompleteShown ==
    ASSUME Known, NEW b \in Backups, NEW y \in Backups, Complete(b)
    PROVE  Shown(y)
<1>1. CASE y # b
  <2>1. /\ row'[y] = row[y] /\ file'[y] = file[y]
        /\ pc'[y] = pc[y] /\ blame'[y] = blame[y]
    BY <1>1 DEF Known, Typed, TypeOK, Complete, SaveRow, Goto, Accuse, dbVars, dockVars, ghostVars
  <2>2. QED
    BY <2>1, Unseen
<1>2. CASE y = b
  <2>1. RunOf(b) = "written" /\ RunOf(b)' = "over"
    <3>1. pc[b] = "complete" /\ pc'[b] \in {"retain", "restore"}
      BY DEF Known, Typed, TypeOK, Complete, Goto
    <3>2. QED
      BY <3>1, RunOfStage, RunOfNextStage
  <2>2. file[b] = "whole" \/ "asked" \in MarksOf(b)
    BY DEF Known, Files, FileKept, Complete, MarksOf
  <2>3. row'[b] = "COMPLETED" /\ file' = file /\ MarksOf(b)' = MarksOf(b)
    BY DEF Known, Typed, TypeOK, Complete, SaveRow, ghostVars, MarksOf
  <2>4. Catalogue(b)!Succeed
    BY <2>1, <2>2, <2>3 DEF Catalogue!Succeed, MarksOf
  <2>5. QED
    BY <1>2, <2>4 DEF Shown, Catalogue!Next
<1>3. QED
  BY <1>1, <1>2

\* The run says FAILED, or fails to say so.
LEMMA FinalizeFailedShown ==
    ASSUME Known, NEW b \in Backups, NEW y \in Backups, FinalizeFailed(b)
    PROVE  Shown(y)
<1>1. CASE y # b
  <2>1. /\ row'[y] = row[y] /\ file'[y] = file[y]
        /\ pc'[y] = pc[y] /\ blame'[y] = blame[y]
    BY <1>1 DEF Known, Typed, TypeOK, FinalizeFailed, SaveRow, Goto, Accuse, dbVars, dockVars, ghostVars
  <2>2. QED
    BY <2>1, Unseen
<1>2. CASE y = b
  <2>1. RunOf(b) = "written" /\ RunOf(b)' = "failing"
    <3>1. pc[b] = "fail" /\ pc'[b] = "cleanup"
      BY DEF Known, Typed, TypeOK, FinalizeFailed, Goto
    <3>2. QED
      BY <3>1, RunOfStage, RunOfNextStage
  <2>2. row'[b] \in {"FAILED", row[b]} /\ file' = file /\ MarksOf(b)' = MarksOf(b)
    BY DEF Known, Typed, TypeOK, FinalizeFailed, SaveRow, Accuse, MarksOf
  <2>3. Catalogue(b)!Fail
    BY <2>1, <2>2 DEF Catalogue!Fail, MarksOf
  <2>4. QED
    BY <1>2, <2>3 DEF Shown, Catalogue!Next
<1>3. QED
  BY <1>1, <1>2

\* The archive of a failed run goes, or stays and is marked.
LEMMA DeletePartialShown ==
    ASSUME Known, NEW b \in Backups, NEW y \in Backups, DeletePartial(b)
    PROVE  Shown(y)
<1>1. CASE y # b
  <2>1. /\ row'[y] = row[y] /\ file'[y] = file[y]
        /\ pc'[y] = pc[y] /\ blame'[y] = blame[y]
    BY <1>1 DEF Known, Typed, TypeOK, DeletePartial, Goto, Accuse, dbVars, dockVars, ghostVars
  <2>2. QED
    BY <2>1, Unseen
<1>2. CASE y = b
  <2>1. RunOf(b) = "failing" /\ RunOf(b)' = "over"
    <3>1. pc[b] = "cleanup" /\ pc'[b] \in {"restore", "done"}
      BY DEF Known, Typed, TypeOK, DeletePartial, Goto
    <3>2. QED
      BY <3>1, RunOfStage, RunOfNextStage
  <2>2. /\ row' = row
        /\ \/ file'[b] = "absent" /\ MarksOf(b)' = MarksOf(b)
           \/ file' = file /\ MarksOf(b)' = MarksOf(b) \cup {"kept"}
    BY DEF Known, Typed, TypeOK, DeletePartial, Accuse, dbVars, MarksOf
  <2>3. Catalogue(b)!Clean
    BY <2>1, <2>2 DEF Catalogue!Clean, MarksOf
  <2>4. QED
    BY <1>2, <2>3 DEF Shown, Catalogue!Next
<1>3. QED
  BY <1>1, <1>2

\* SaveFile panicked, or the last Save failed.
LEMMA AbandonShown ==
    ASSUME Known, NEW b \in Backups, NEW y \in Backups, SaveFilePanics(b) \/ CompleteFails(b)
    PROVE  Shown(y)
<1>1. CASE y # b
  <2>1. /\ row'[y] = row[y] /\ file'[y] = file[y]
        /\ pc'[y] = pc[y] /\ blame'[y] = blame[y]
    BY <1>1 DEF Known, Typed, TypeOK, SaveFilePanics, CompleteFails, Goto, Accuse, dbVars, dockVars, ghostVars
  <2>2. QED
    BY <2>1, Unseen
<1>2. CASE y = b
  <2>1. RunOf(b) \in {"writing", "written"} /\ RunOf(b)' = "over"
    <3>1. pc[b] \in {"copy", "complete"} /\ pc'[b] = "restore"
      BY DEF Known, Typed, TypeOK, SaveFilePanics, CompleteFails, Goto
    <3>2. QED
      BY <3>1, RunOfStage, RunOfNextStage
  <2>2. row' = row /\ file' = file /\ MarksOf(b)' = MarksOf(b)
    BY DEF Known, Typed, TypeOK, SaveFilePanics, CompleteFails, Accuse, dbVars, MarksOf
  <2>3. Catalogue(b)!Abandon
    BY <2>1, <2>2 DEF Catalogue!Abandon, MarksOf
  <2>4. QED
    BY <1>2, <2>3 DEF Shown, Catalogue!Next
<1>3. QED
  BY <1>1, <1>2

\* A run closes its stream, prunes, or restores its container: the catalogue
\* does not show it.
LEMMA RestShown ==
    ASSUME Known, NEW b \in Backups, NEW y \in Backups,
           \/ CloseStream(b) \/ Retain(b) \/ PruneSkips(b) \/ PruneDone(b) \/ Restore(b)
    PROVE  Shown(y)
<1>1. row' = row /\ file' = file
  BY DEF CloseStream, Retain, PruneSkips, PruneDone, Restore, dbVars
<1>2. MarksOf(y)' = MarksOf(y)
  <2>1. blame'[y] \in {blame[y], blame[y] \cup {"leaked"}}
    <3>1. CloseStream(b) => blame'[y] \in {blame[y], blame[y] \cup {"leaked"}}
      <4>1. CloseStream(b) => blame' \in {blame, [blame EXCEPT ![b] = @ \cup {"leaked"}]}
        BY DEF CloseStream, Accuse
      <4>2. blame \in [Backups -> SUBSET Causes]
        BY DEF Known, Typed, TypeOK
      <4>3. QED
        BY <4>1, <4>2
    <3>2. ~CloseStream(b) => blame' = blame
      BY DEF Retain, PruneSkips, PruneDone, Restore, ghostVars
    <3>3. QED
      BY <3>1, <3>2
  <2>2. QED
    BY <2>1 DEF MarksOf
<1>3. \/ pc'[y] = pc[y]
      \/ pc[y] \in {"closeOk", "closeErr"} /\ pc'[y] \in {"complete", "fail"}
      \/ pc[y] \in {"retain", "prune", "restore"} /\ pc'[y] \in {"prune", "restore", "done"}
  BY DEF Known, Typed, TypeOK, CloseStream, AfterClose, Retain, PruneSkips, PruneDone,
     Restore, Goto
<1>4. RunOf(y)' = RunOf(y)
  <2>1. CASE pc'[y] = pc[y]
    BY <2>1 DEF RunOf, WillWrite
  <2>2. CASE pc'[y] # pc[y]
    BY <1>3, <2>2, RunOfStage, RunOfNextStage
  <2>3. QED
    BY <2>1, <2>2
<1>5. QED
  BY <1>1, <1>2, <1>4 DEF Shown, Catalogue!vars, MarksOf

\* A creation enters a backup into the list.
LEMMA LaunchShown ==
    ASSUME Known, NEW x \in Backups, NEW y \in Backups, NEW c, NEW s, NEW m, NEW r,
           startBackup(x, c, s, m, r)
    PROVE  Shown(y)
<1>1. CASE y # x
  <2>1. /\ row'[y] = row[y] /\ file'[y] = file[y]
        /\ pc'[y] = pc[y] /\ blame'[y] = blame[y]
    BY <1>1 DEF Known, Typed, TypeOK, startBackup, Goto, dbVars, dockVars, ghostVars
  <2>2. QED
    BY <2>1, Unseen
<1>2. CASE y = x
  <2>1. RunOf(x) = "new" /\ RunOf(x)' = "writing"
    <3>1. pc[x] = "idle" /\ pc'[x] = "prepare"
      BY DEF Known, Typed, TypeOK, startBackup, Goto
    <3>2. QED
      BY <3>1, RunOfStage, RunOfNextStage
  <2>2. row'[x] = "RUNNING" /\ file' = file /\ MarksOf(x)' = MarksOf(x)
    BY DEF Known, Typed, TypeOK, startBackup, ghostVars, MarksOf
  <2>3. Catalogue(x)!Launch
    BY <2>1, <2>2 DEF Catalogue!Launch, MarksOf
  <2>4. QED
    BY <1>2, <2>3 DEF Shown, Catalogue!Next
<1>3. QED
  BY <1>1, <1>2

\* A deletion finds its row, and its storage or not.
LEMMA FindBackupShown ==
    ASSUME Known, NEW a \in Actors, NEW x \in Backups, NEW y \in Backups, FindBackup(a, x)
    PROVE  Shown(y)
<1>1. CASE y # x
  <2>1. /\ row'[y] = row[y] /\ file'[y] = file[y]
        /\ pc'[y] = pc[y] /\ blame'[y] = blame[y]
    BY <1>1 DEF Known, Typed, TypeOK, FindBackup, Accuse, dbVars, dockVars, ghostVars
  <2>2. QED
    BY <2>1, Unseen
<1>2. CASE y = x
  <2>1. \E more \in {{"asked"}, {"asked", "kept"}} : blame'[x] = blame[x] \cup more
    BY DEF Known, Typed, TypeOK, FindBackup, Accuse
  <2>2. \E more \in {{"asked"}, {"asked", "kept"}} : MarksOf(x)' = MarksOf(x) \cup more
    BY <2>1 DEF MarksOf
  <2>3. row[x] # None /\ row' = row /\ file' = file /\ pc' = pc
    BY DEF FindBackup, dbVars
  <2>4. RunOf(x)' = RunOf(x)
    BY <2>3 DEF RunOf, WillWrite
  <2>5. Catalogue(x)!Ask
    BY <2>2, <2>3, <2>4 DEF Catalogue!Ask, MarksOf
  <2>6. QED
    BY <1>2, <2>5 DEF Shown, Catalogue!Next
<1>3. QED
  BY <1>1, <1>2

\* A deletion removes the archive of a row it has found, or leaves it behind.
LEMMA DeleteFileShown ==
    ASSUME Known, NEW a \in Actors, NEW y \in Backups, DeleteFile(a)
    PROVE  Shown(y)
<1> DEFINE x == del[a].id
<1>0. x \in Backups /\ "asked" \in MarksOf(x)
  BY DEF Known, Typed, TypeOK, Deletion, Rows, DelMarked, DeleteFile, MarksOf
<1>1. CASE y # x
  <2>1. /\ row'[y] = row[y] /\ file'[y] = file[y]
        /\ pc'[y] = pc[y] /\ blame'[y] = blame[y]
    BY <1>1 DEF Known, Typed, TypeOK, DeleteFile, Accuse, dbVars, dockVars, ghostVars
  <2>2. QED
    BY <2>1, Unseen
<1>2. CASE y = x
  <2>1. row' = row /\ pc' = pc
    BY DEF DeleteFile, dbVars
  <2>2. RunOf(y)' = RunOf(y)
    BY <2>1 DEF RunOf, WillWrite
  <2>3. pc[y] # "idle"
    BY <1>2 DEF Known, Rows, DelMarked, DeleteFile
  <2>4. RunOf(y) = "writing" <=> WillWrite(y)
    <3>1. pc[y] \in Stages \cup Ended
      BY DEF Known, Typed, TypeOK
    <3>2. QED
      BY <2>3, <3>1, RunOfStage DEF Stages, Ended, WillWrite
  <2>5. \/ /\ file'[y] = "absent"
           /\ blame'[y] = blame[y] \cup (IF WillWrite(y) THEN {"raced"} ELSE {})
        \/ file' = file /\ blame'[y] = blame[y] \cup {"kept"}
    BY <1>2 DEF Known, Typed, TypeOK, DeleteFile, Accuse
  <2>6. \/ /\ file'[y] = "absent"
           /\ MarksOf(y)' = IF RunOf(y) = "writing" THEN MarksOf(y) \cup {"raced"}
                                                    ELSE MarksOf(y)
        \/ file' = file /\ MarksOf(y)' = MarksOf(y) \cup {"kept"}
    BY <2>4, <2>5 DEF MarksOf
  <2>7. Catalogue(y)!RemoveArchive
    BY <1>0, <1>2, <2>1, <2>2, <2>6 DEF Catalogue!RemoveArchive, MarksOf
  <2>8. QED
    BY <2>7 DEF Shown, Catalogue!Next
<1>3. QED
  BY <1>1, <1>2

\* A deletion removes the row: nothing of the archive is left, or a mark tells.
LEMMA DeleteRowShown ==
    ASSUME Known, NEW a \in Actors, NEW y \in Backups, DeleteRow(a)
    PROVE  Shown(y)
<1> DEFINE x == del[a].id
<1>0. x \in Backups /\ "asked" \in MarksOf(x)
  BY DEF Known, Typed, TypeOK, Deletion, Rows, DelMarked, DeleteRow, MarksOf
<1>1. CASE row'[y] = row[y]
  <2>1. file'[y] = file[y] /\ pc'[y] = pc[y] /\ blame'[y] = blame[y]
    BY DEF DeleteRow, dockVars, ghostVars
  <2>2. QED
    BY <1>1, <2>1, Unseen
<1>2. CASE row'[y] # row[y]
  <2>1. y = x /\ row'[y] = None
    BY <1>0, <1>2 DEF Known, Typed, TypeOK, DeleteRow
  <2>2. file' = file /\ pc' = pc /\ blame' = blame
    BY DEF DeleteRow, dockVars, ghostVars
  <2>3. RunOf(y)' = RunOf(y)
    BY <2>2 DEF RunOf, WillWrite
  <2>4. Settled(x)
    BY DEF Known, Files, DeletionSettled, DeleteRow
  <2>5. pc[x] # "idle" /\ pc[x] \in Stages \cup Ended
    BY <1>0 DEF Known, Typed, TypeOK, Rows, DelMarked, DeleteRow
  <2>6. \/ file[y] = "absent" /\ RunOf(y) # "writing"
        \/ MarksOf(y) \cap {"raced", "kept"} # {}
    BY <2>1, <2>4, <2>5, RunOfStage DEF Settled, WillWrite, MarksOf, Stages, Ended
  <2>7. Catalogue(y)!RemoveEntry
    BY <1>0, <2>1, <2>2, <2>3, <2>6 DEF Catalogue!RemoveEntry, MarksOf
  <2>8. QED
    BY <2>7 DEF Shown, Catalogue!Next
<1>3. QED
  BY <1>1, <1>2

\* The process ends: the runs that were going break off.
LEMMA RestartShown ==
    ASSUME Known, NEW y \in Backups, ProcessRestarts
    PROVE  Shown(y)
<1>1. row' = row /\ file' = file /\ blame' = blame
  BY DEF ProcessRestarts, dbVars
<1>2. CASE Active(y) /\ pc[y] \notin {"retain", "prune", "restore"}
  <2>1. RunOf(y) \in {"writing", "written", "failing"} /\ RunOf(y)' = "over"
    <3>1. pc[y] \in Stages \ {"retain", "prune", "restore"} /\ pc'[y] = "killed"
      BY <1>2 DEF ProcessRestarts, Active
    <3>2. QED
      BY <3>1, RunOfStage, RunOfNextStage DEF Stages
  <2>2. Catalogue(y)!Abandon
    BY <1>1, <2>1 DEF Catalogue!Abandon
  <2>3. QED
    BY <2>2 DEF Shown, Catalogue!Next
<1>3. CASE pc[y] \in {"retain", "prune", "restore"}
  <2>1. pc'[y] = "killed"
    BY <1>3 DEF ProcessRestarts, Active, Stages
  <2>2. RunOf(y)' = RunOf(y)
    BY <1>3, <2>1, RunOfStage, RunOfNextStage
  <2>3. QED
    BY <1>1, <2>2 DEF Shown, Catalogue!vars
<1>4. CASE ~Active(y)
  <2>1. pc'[y] = pc[y]
    BY <1>4 DEF ProcessRestarts
  <2>2. QED
    BY <1>1, <2>1, Unseen
<1>5. QED
  BY <1>2, <1>3, <1>4

\* Every step of the system is a step of each backup's catalogue, or none.
LEMMA EveryStepShown ==
    ASSUME Known, [Next]_vars, NEW y \in Backups
    PROVE  Shown(y)
<1>1. CASE \E b \in Backups, c \in Containers, s \in Storages, m \in Modes, r \in Nat :
              startBackup(b, c, s, m, r)
  BY <1>1, LaunchShown
<1>2. CASE \E b \in Backups :
              \/ Prepare(b) \/ PrepareFails(b) \/ OpenStream(b) \/ OpenStreamFails(b)
              \/ SaveFile(b) \/ SaveFileFails(b) \/ SaveFilePanics(b) \/ CloseStream(b)
              \/ Complete(b) \/ CompleteFails(b) \/ FinalizeFailed(b) \/ DeletePartial(b)
              \/ Restore(b) \/ Retain(b) \/ PruneSkips(b) \/ PruneDone(b)
  BY <1>2, WriteShown, CompleteShown, FinalizeFailedShown, DeletePartialShown,
     AbandonShown, RestShown
<1>3. CASE \E a \in Actors :
              \/ \E x \in Backups : FindBackup(a, x)
              \/ DeleteFile(a) \/ DeleteRow(a)
  BY <1>3, FindBackupShown, DeleteFileShown, DeleteRowShown
<1>4. CASE ProcessRestarts
  BY <1>4, RestartShown
<1>5. CASE \/ \E s \in Storages : DeleteStorage(s)
           \/ \E c \in Containers : OperatorStops(c) \/ OperatorStarts(c)
           \/ DayPasses
           \/ UNCHANGED vars
  <2>1. row' = row /\ file' = file /\ pc' = pc /\ blame' = blame
    BY <1>5 DEF DeleteStorage, OperatorStops, OperatorStarts, DayPasses, dbVars,
       dockVars, runVars, ghostVars, vars
  <2>2. QED
    BY <2>1, Unseen
<1>6. QED
  BY <1>1, <1>2, <1>3, <1>4, <1>5, NextCases DEF Known, Typed

\* Every backup starts as a new entry of a catalogue.
LEMMA NewInCatalogue == Init => \A b \in Backups : Catalogue(b)!Init
<1> SUFFICES ASSUME Init, NEW b \in Backups PROVE Catalogue(b)!Init
  OBVIOUS
<1>1. row[b] = None /\ file[b] = "absent" /\ pc[b] = "idle" /\ blame[b] = {}
  BY DEF Init
<1>2. RunOf(b) = "new"
  BY <1>1, RunOfStage
<1>3. QED
  BY <1>1, <1>2 DEF Catalogue!Init

\* Whatever runs, deletions, retention and the end of the process do to any
\* number of backups together, each backup is an entry of a catalogue: it is
\* COMPLETED only with a whole archive or while it is being deleted, it loses
\* its row only with nothing left of its archive or a mark that tells, and
\* nothing is added to it once its run is over.
THEOREM BackupsCatalogued == Spec => Catalogued
<1>1. Init => \A b \in Backups : Catalogue(b)!Init
  BY NewInCatalogue
<1>2. IInv /\ [Next]_vars => \A b \in Backups : Shown(b)
  BY EveryStepShown DEF IInv, Known
<1>3. IInv /\ [Next]_vars
         => [\A b \in Backups : [Catalogue(b)!Next]_(Catalogue(b)!vars)]_vars
  BY <1>2 DEF Shown
<1>4. QED
  BY <1>1, <1>3, Invariance, PTL DEF Spec, Catalogued

\* Once its run is over a backup only ever loses what it has, its archive before
\* its row, and only to a deletion that was asked for: what retention, restores,
\* other runs and restarts do beside it never brings a row or an archive back.
FinishedStep ==
    \A b \in Backups : RunOf(b) = "over" =>
        /\ row'[b] \in {row[b], None}
        /\ file'[b] \in {file[b], "absent"}
        /\ row'[b] # row[b] \/ file'[b] # file[b] => "asked" \in blame[b]
        /\ row'[b] # row[b] /\ file'[b] # "absent" => blame[b] \cap {"raced", "kept"} # {}

OnlyDeletionsTouchFinished == [][FinishedStep]_vars

\* What the catalogue may do with an entry whose run is over.
LEMMA FinishedShown ==
    ASSUME NEW b \in Backups, Shown(b), RunOf(b) = "over"
    PROVE  /\ row'[b] \in {row[b], None}
           /\ file'[b] \in {file[b], "absent"}
           /\ row'[b] # row[b] \/ file'[b] # file[b] => "asked" \in blame[b]
           /\ row'[b] # row[b] /\ file'[b] # "absent" => blame[b] \cap {"raced", "kept"} # {}
<1>1. CASE UNCHANGED Catalogue(b)!vars
  BY <1>1 DEF Catalogue!vars
<1>2. CASE Catalogue(b)!Ask
  BY <1>2 DEF Catalogue!Ask
<1>3. CASE Catalogue(b)!RemoveArchive
  BY <1>3 DEF Catalogue!RemoveArchive
<1>4. CASE Catalogue(b)!RemoveEntry
  BY <1>4 DEF Catalogue!RemoveEntry
<1>5. Catalogue(b)!Next \/ UNCHANGED Catalogue(b)!vars
  BY DEF Shown
<1>6. QED
  BY <1>1, <1>2, <1>3, <1>4, <1>5
     DEF Catalogue!Next, Catalogue!Launch, Catalogue!Write, Catalogue!Succeed,
         Catalogue!Fail, Catalogue!Clean, Catalogue!Abandon

\* A finished backup that was deleted stays deleted, and one that was not asked
\* to go keeps its row and its archive as they are.
THEOREM FinishedBackupsStand == Spec => OnlyDeletionsTouchFinished
<1>1. IInv /\ [Next]_vars => [FinishedStep]_vars
  BY EveryStepShown, FinishedShown DEF IInv, Known, FinishedStep
<1>2. QED
  BY <1>1, Invariance, PTL DEF Spec, OnlyDeletionsTouchFinished
=============================================================================
