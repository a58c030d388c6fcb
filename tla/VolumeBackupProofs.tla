------------------------- MODULE VolumeBackupProofs -------------------------
(***************************************************************************)
(* The safety properties of VolumeBackup, for every set of backups,        *)
(* requests, containers and storages and every kind of disturbance.        *)
(*                                                                         *)
(* None of the properties is inductive.  IInv adds what the code relies on *)
(* silently: which stages a row's status can be seen in, that a deletion   *)
(* in progress has marked its victim, that a deleted row leaves a file     *)
(* only behind a mark, and that a run holding a restore() is active.       *)
(***************************************************************************)
EXTENDS VolumeBackup, TLAPS

\* What is known of a backup once it is launched; a restore() is pending in the
\* active runs that got past prepareForBackup, and in no others.
JobKnown == \A b \in Backups : pc[b] # "idle" => job[b] \in Job
HeldActive ==
    /\ \A b \in held : pc[b] \in Stages \ {"prepare"}
    /\ \A b \in Backups : pc[b] \in Stages \ {"prepare", "fail", "cleanup"} => b \in held
Typed == TypeOK /\ JobKnown /\ HeldActive

\* The stages in which each status can be on record.
RowStage ==
    \A b \in Backups :
        /\ pc[b] = "idle" => row[b] = None
        /\ row[b] = "COMPLETED" => pc[b] \in {"retain", "prune", "restore", "done", "killed"}
        /\ row[b] = "FAILED" => pc[b] \in {"cleanup", "restore", "done", "killed"}
        /\ row[b] = "RUNNING" /\ pc[b] \in {"cleanup", "retain", "prune", "restore", "done"}
              => "unsaved" \in blame[b] \/ "panicked" \in blame[b]

\* A DeleteBackup call has found, and marked, the row of a launched backup.
DelMarked ==
    \A a \in Actors : del[a] # None =>
        /\ "asked" \in blame[del[a].id]
        /\ pc[del[a].id] # "idle"

\* Nothing of b is left behind on its storage, now or later, without a mark.
Settled(b) ==
    \/ blame[b] \cap {"raced", "kept"} # {}
    \/ file[b] = "absent" /\ ~WillWrite(b)

NotYetWritten == \A b \in Backups : pc[b] \in {"idle", "prepare", "open"} => file[b] = "absent"
RowlessSettled == \A b \in Backups : pc[b] # "idle" /\ row[b] = None => Settled(b)
DeletionSettled == \A a \in Actors : del[a] # None /\ del[a].at = "row" => Settled(del[a].id)

\* The archive of a run that is about to report success, or has done so.
FileKept ==
    \A b \in Backups :
        /\ pc[b] = "copy" /\ job[b].storage \in InPlace
              => file[b] = "partial" \/ "asked" \in blame[b]
        /\ pc[b] \in {"closeOk", "complete"}
              => file[b] = "whole" \/ "asked" \in blame[b]
        /\ pc[b] \in {"retain", "prune"}
              => row[b] = "COMPLETED" \/ "asked" \in blame[b]

DoomedInPrune ==
    \A b \in Backups : \A x \in doomed[b] :
        /\ pc[b] = "prune"
        /\ pc[x] # "idle"
        /\ job[x].container = job[b].container

Rows  == RowStage /\ DelMarked /\ RunningHasRun
Files ==
    /\ NotYetWritten /\ RowlessSettled /\ DeletionSettled
    /\ FileKept /\ CompletedHasFile /\ FailedLeavesNoFile
    /\ DoomedInPrune

IInv == Typed /\ Rows /\ Files /\ SidecarReaped /\ BroughtBack

\* Every step of a correctly typed state is a step of one of these actions: the
\* operators of Next, with the parameters of the creations merged and the
\* deletions of runs and requests taken together.
LEMMA NextCases ==
    ASSUME TypeOK, Next
    PROVE
    \/ \E b \in Backups, c \in Containers, s \in Storages, m \in Modes, r \in Nat :
          startBackup(b, c, s, m, r)
    \/ \E b \in Backups :
          \/ Prepare(b) \/ PrepareFails(b) \/ OpenStream(b) \/ OpenStreamFails(b)
          \/ SaveFile(b) \/ SaveFileFails(b) \/ SaveFilePanics(b) \/ CloseStream(b)
          \/ Complete(b) \/ CompleteFails(b) \/ FinalizeFailed(b) \/ DeletePartial(b)
          \/ Restore(b) \/ Retain(b) \/ PruneSkips(b) \/ PruneDone(b)
    \/ \E a \in Actors :
          \/ \E x \in Backups : FindBackup(a, x)
          \/ DeleteFile(a) \/ DeleteRow(a)
    \/ \E s \in Storages : DeleteStorage(s)
    \/ \E c \in Containers : OperatorStops(c) \/ OperatorStarts(c)
    \/ ProcessRestarts
    \/ DayPasses
<1>1. ASSUME NEW b \in Backups, Create(b)
      PROVE  \E c \in Containers, s \in Storages, m \in Modes, r \in Nat :
                startBackup(b, c, s, m, r)
  BY <1>1, VolumeBackupAssumption DEF Create, CreateBackup, CreateBackupForConfig
<1>2. ASSUME NEW b \in Backups, runBackup(b)
      PROVE  \/ Prepare(b) \/ PrepareFails(b) \/ OpenStream(b) \/ OpenStreamFails(b)
             \/ SaveFile(b) \/ SaveFileFails(b) \/ SaveFilePanics(b) \/ CloseStream(b)
             \/ Complete(b) \/ CompleteFails(b) \/ FinalizeFailed(b) \/ DeletePartial(b)
             \/ Restore(b) \/ Retain(b) \/ PruneSkips(b) \/ PruneDone(b)
             \/ \E x \in Backups : FindBackup(b, x)
             \/ DeleteFile(b) \/ DeleteRow(b)
  <2>1. PruneNext(b) => \E x \in Backups : FindBackup(b, x)
    BY <1>2, Zenon DEF PruneNext, TypeOK
  <2>2. QED
    BY <1>2, <2>1, Zenon DEF runBackup, Stream, Retention
<1>3. ASSUME NEW q \in Requests, DeleteBackup(q)
      PROVE  \/ \E x \in Backups : FindBackup(q, x)
             \/ DeleteFile(q) \/ DeleteRow(q)
  BY <1>3, Zenon DEF DeleteBackup, RequestDelete
<1>4. Backups \subseteq Actors /\ Requests \subseteq Actors
  BY DEF Actors
<1>5. CASE \E b \in Backups : Create(b)
  BY <1>1, <1>5, Zenon
<1>6. CASE \E b \in Backups : runBackup(b)
  BY <1>2, <1>4, <1>6, Zenon
<1>7. CASE \E q \in Requests : DeleteBackup(q)
  BY <1>3, <1>4, <1>7, Zenon
<1>8. CASE Environment
  BY <1>8, Zenon DEF Environment
<1>9. QED
  BY <1>5, <1>6, <1>7, <1>8, Zenon DEF Next

\* Types are kept, a launched backup keeps its job, and restore() stays pending
\* from prepareForBackup to the end of the run.
LEMMA TypedStep == Typed /\ [Next]_vars => Typed'
<1> SUFFICES ASSUME Typed, [Next]_vars PROVE Typed'
  OBVIOUS
<1> USE VolumeBackupAssumption DEF Typed, TypeOK, JobKnown, HeldActive, Job, Deletion,
       Statuses, Stages, Ended, Causes, Actors, dbVars, dockVars, runVars,
       ghostVars, Goto, Accuse
<1>1. ASSUME NEW b \in Backups, NEW c \in Containers, NEW s \in Storages,
               NEW m \in Modes, NEW r \in Nat, startBackup(b, c, s, m, r)
      PROVE  Typed'
  BY <1>1 DEF startBackup
<1>2. ASSUME NEW b \in Backups, Prepare(b)
      PROVE  Typed'
  BY <1>2 DEF Prepare, CanQuiesce, Quiesced
<1>3. ASSUME NEW b \in Backups, PrepareFails(b)
      PROVE  Typed'
  BY <1>3 DEF PrepareFails, CanQuiesce, Quiesced
<1>4. ASSUME NEW b \in Backups, OpenStream(b)
      PROVE  Typed'
  BY <1>4 DEF OpenStream
<1>5. ASSUME NEW b \in Backups, OpenStreamFails(b)
      PROVE  Typed'
  BY <1>5 DEF OpenStreamFails
<1>6. ASSUME NEW b \in Backups, SaveFile(b)
      PROVE  Typed'
  BY <1>6 DEF SaveFile
<1>7. ASSUME NEW b \in Backups, SaveFileFails(b)
      PROVE  Typed'
  BY <1>7 DEF SaveFileFails
<1>8. ASSUME NEW b \in Backups, SaveFilePanics(b)
      PROVE  Typed'
  BY <1>8 DEF SaveFilePanics
<1>9. ASSUME NEW b \in Backups, CloseStream(b)
      PROVE  Typed'
  BY SMTT(30), <1>9 DEF CloseStream, AfterClose
<1>10. ASSUME NEW b \in Backups, Complete(b)
      PROVE  Typed'
  BY <1>10 DEF Complete, SaveRow
<1>11. ASSUME NEW b \in Backups, CompleteFails(b)
      PROVE  Typed'
  BY <1>11 DEF CompleteFails
<1>12. ASSUME NEW b \in Backups, FinalizeFailed(b)
      PROVE  Typed'
  BY <1>12 DEF FinalizeFailed, SaveRow
<1>13. ASSUME NEW b \in Backups, DeletePartial(b)
      PROVE  Typed'
  BY <1>13 DEF DeletePartial
<1>14. ASSUME NEW b \in Backups, Restore(b)
      PROVE  Typed'
  BY <1>14 DEF Restore, Revived
<1>15. ASSUME NEW a \in Actors, NEW x \in Backups, FindBackup(a, x)
      PROVE  Typed'
  <2>1. blame' \in [Backups -> SUBSET Causes]
    BY <1>15 DEF FindBackup
  <2>2. del' \in [Actors -> Deletion \cup {None}]
    BY <1>15 DEF FindBackup
  <2>3. UNCHANGED <<row, storages, file, container, sidecar, job, pc, held,
                    doomed, now, lost, byHand>>
    BY <1>15 DEF FindBackup
  <2>4. QED
    BY <2>1, <2>2, <2>3
<1>16. ASSUME NEW a \in Actors, DeleteFile(a)
      PROVE  Typed'
  <2>1. blame' \in [Backups -> SUBSET Causes]
    BY <1>16 DEF DeleteFile, WillWrite
  <2>2. file' \in [Backups -> {"absent", "partial", "whole"}]
    BY <1>16 DEF DeleteFile
  <2>3. del' \in [Actors -> Deletion \cup {None}]
    BY <1>16 DEF DeleteFile
  <2>4. UNCHANGED <<row, storages, container, sidecar, job, pc, held, doomed,
                    now, lost, byHand>>
    BY <1>16 DEF DeleteFile
  <2>5. QED
    BY <2>1, <2>2, <2>3, <2>4
<1>17. ASSUME NEW a \in Actors, DeleteRow(a)
      PROVE  Typed'
  BY <1>17 DEF DeleteRow
<1>18. ASSUME NEW b \in Backups, Retain(b)
      PROVE  Typed'
  <2>1. Expired(b) \in SUBSET Backups
    BY DEF Expired
  <2>2. doomed' \in [Backups -> SUBSET Backups]
    BY <1>18, <2>1 DEF Retain
  <2>3. QED
    BY <1>18, <2>2 DEF Retain
<1>19. ASSUME NEW b \in Backups, PruneSkips(b)
      PROVE  Typed'
  BY <1>19 DEF PruneSkips
<1>20. ASSUME NEW b \in Backups, PruneDone(b)
      PROVE  Typed'
  BY <1>20 DEF PruneDone
<1>21. ASSUME NEW s \in Storages, DeleteStorage(s)
      PROVE  Typed'
  BY <1>21 DEF DeleteStorage
<1>22. ASSUME ProcessRestarts
      PROVE  Typed'
  BY <1>22 DEF ProcessRestarts, Active
<1>23. ASSUME NEW c \in Containers, OperatorStops(c)
      PROVE  Typed'
  BY <1>23 DEF OperatorStops
<1>24. ASSUME NEW c \in Containers, OperatorStarts(c)
      PROVE  Typed'
  BY <1>24 DEF OperatorStarts
<1>25. ASSUME DayPasses
      PROVE  Typed'
  BY <1>25 DEF DayPasses
<1>26. CASE UNCHANGED vars
  BY <1>26 DEF vars
<1>27. QED
  BY <1>1, <1>2, <1>3, <1>4, <1>5, <1>6, <1>7, <1>8, <1>9, <1>10, <1>11, <1>12, <1>13,
     <1>14, <1>15, <1>16, <1>17, <1>18, <1>19, <1>20, <1>21, <1>22, <1>23, <1>24,
     <1>25, <1>26, NextCases

\* A row's status follows the stage of its run, until the row is deleted, and
\* a row left RUNNING is accounted for.
LEMMA RowsStep == Typed /\ Rows /\ [Next]_vars => Rows'
<1> SUFFICES ASSUME Typed /\ Rows, [Next]_vars PROVE Rows'
  OBVIOUS
<1> USE DEF Typed, TypeOK, JobKnown, HeldActive, Job, Deletion,
       Statuses, Stages, Ended, Causes, Actors, dbVars, dockVars, runVars,
       ghostVars, Goto, Accuse,
       Rows, RowStage, DelMarked, RunningHasRun, Active
<1>1. ASSUME NEW b \in Backups, NEW c \in Containers, NEW s \in Storages,
               NEW m \in Modes, NEW r \in Nat, startBackup(b, c, s, m, r)
      PROVE  Rows'
  BY <1>1 DEF startBackup
<1>2. ASSUME NEW b \in Backups, Prepare(b)
      PROVE  Rows'
  BY <1>2 DEF Prepare, CanQuiesce, Quiesced
<1>3. ASSUME NEW b \in Backups, PrepareFails(b)
      PROVE  Rows'
  BY <1>3 DEF PrepareFails, CanQuiesce, Quiesced
<1>4. ASSUME NEW b \in Backups, OpenStream(b)
      PROVE  Rows'
  BY <1>4 DEF OpenStream
<1>5. ASSUME NEW b \in Backups, OpenStreamFails(b)
      PROVE  Rows'
  BY <1>5 DEF OpenStreamFails
<1>6. ASSUME NEW b \in Backups, SaveFile(b)
      PROVE  Rows'
  BY <1>6 DEF SaveFile
<1>7. ASSUME NEW b \in Backups, SaveFileFails(b)
      PROVE  Rows'
  BY <1>7 DEF SaveFileFails
<1>8. ASSUME NEW b \in Backups, SaveFilePanics(b)
      PROVE  Rows'
  BY <1>8 DEF SaveFilePanics
<1>9. ASSUME NEW b \in Backups, CloseStream(b)
      PROVE  Rows'
  <2>1. /\ pc[b] \in {"closeOk", "closeErr"}
        /\ pc' \in {[pc EXCEPT ![b] = "complete"], [pc EXCEPT ![b] = "fail"]}
        /\ \A y \in Backups : blame[y] \subseteq blame'[y]
        /\ UNCHANGED <<row, del>>
    BY <1>9 DEF CloseStream, AfterClose
  <2>2. RowStage'
    BY <2>1
  <2>3. DelMarked'
    BY <2>1
  <2>4. RunningHasRun'
    BY <2>1
  <2>5. QED
    BY <2>2, <2>3, <2>4
<1>10. ASSUME NEW b \in Backups, Complete(b)
      PROVE  Rows'
  BY <1>10 DEF Complete, SaveRow
<1>11. ASSUME NEW b \in Backups, CompleteFails(b)
      PROVE  Rows'
  BY <1>11 DEF CompleteFails
<1>12. ASSUME NEW b \in Backups, FinalizeFailed(b)
      PROVE  Rows'
  BY <1>12 DEF FinalizeFailed, SaveRow
<1>13. ASSUME NEW b \in Backups, DeletePartial(b)
      PROVE  Rows'
  BY <1>13 DEF DeletePartial
<1>14. ASSUME NEW b \in Backups, Restore(b)
      PROVE  Rows'
  BY <1>14 DEF Restore, Revived
<1>15. ASSUME NEW a \in Actors, NEW x \in Backups, FindBackup(a, x)
      PROVE  Rows'
  <2>1. \A y \in Backups : blame[y] \subseteq blame'[y]
    BY <1>15 DEF FindBackup
  <2>2. "asked" \in blame'[x]
    BY <1>15 DEF FindBackup
  <2>3. RowStage' /\ RunningHasRun'
    BY <1>15, <2>1 DEF FindBackup
  <2>4. DelMarked'
    BY <1>15, <2>1, <2>2 DEF FindBackup
  <2>5. QED
    BY <2>3, <2>4
<1>16. ASSUME NEW a \in Actors, DeleteFile(a)
      PROVE  Rows'
  <2>1. del[a] \in Deletion /\ del[a].id \in Backups /\ del[a] # None
    BY <1>16 DEF DeleteFile
  <2>2. \A y \in Backups : blame[y] \subseteq blame'[y]
    BY <1>16, <2>1 DEF DeleteFile
  <2>3. RowStage' /\ RunningHasRun'
    BY <1>16, <2>2 DEF DeleteFile
  <2>4. DelMarked'
    BY <1>16, <2>1, <2>2 DEF DeleteFile
  <2>5. QED
    BY <2>3, <2>4
<1>17. ASSUME NEW a \in Actors, DeleteRow(a)
      PROVE  Rows'
  <2>1. del[a] \in Deletion /\ del[a].id \in Backups /\ del[a] # None
    BY <1>17 DEF DeleteRow
  <2>2. \A y \in Backups : row'[y] \in {row[y], None}
    BY <1>17, <2>1 DEF DeleteRow
  <2>3. RowStage' /\ RunningHasRun'
    BY <1>17, <2>2, VolumeBackupAssumption DEF DeleteRow
  <2>4. DelMarked'
    BY <1>17 DEF DeleteRow
  <2>5. QED
    BY <2>3, <2>4
<1>18. ASSUME NEW b \in Backups, Retain(b)
      PROVE  Rows'
  BY <1>18 DEF Retain
<1>19. ASSUME NEW b \in Backups, PruneSkips(b)
      PROVE  Rows'
  BY <1>19 DEF PruneSkips
<1>20. ASSUME NEW b \in Backups, PruneDone(b)
      PROVE  Rows'
  BY <1>20 DEF PruneDone
<1>21. ASSUME NEW s \in Storages, DeleteStorage(s)
      PROVE  Rows'
  BY <1>21 DEF DeleteStorage
<1>22. ASSUME ProcessRestarts
      PROVE  Rows'
  BY <1>22 DEF ProcessRestarts, Active
<1>23. ASSUME NEW c \in Containers, OperatorStops(c)
      PROVE  Rows'
  BY <1>23 DEF OperatorStops
<1>24. ASSUME NEW c \in Containers, OperatorStarts(c)
      PROVE  Rows'
  BY <1>24 DEF OperatorStarts
<1>25. ASSUME DayPasses
      PROVE  Rows'
  BY <1>25 DEF DayPasses
<1>26. CASE UNCHANGED vars
  BY <1>26 DEF vars
<1>27. QED
  BY <1>1, <1>2, <1>3, <1>4, <1>5, <1>6, <1>7, <1>8, <1>9, <1>10, <1>11, <1>12, <1>13,
     <1>14, <1>15, <1>16, <1>17, <1>18, <1>19, <1>20, <1>21, <1>22, <1>23, <1>24,
     <1>25, <1>26, NextCases

\* Rows and archives stay in step, whatever is deleted while a run writes.
LEMMA FilesStep == Typed /\ Rows /\ Files /\ [Next]_vars => Files'
<1> SUFFICES ASSUME Typed /\ Rows /\ Files, [Next]_vars PROVE Files'
  OBVIOUS
<1> USE DEF Typed, TypeOK, JobKnown, HeldActive, Job, Deletion,
       Statuses, Stages, Ended, Causes, Actors, dbVars, dockVars, runVars,
       ghostVars, Goto, Accuse,
       Rows, RowStage, DelMarked, RunningHasRun, Active,
       Files, NotYetWritten, RowlessSettled, DeletionSettled, FileKept, CompletedHasFile,
       FailedLeavesNoFile, DoomedInPrune, Settled, WillWrite
<1>1. ASSUME NEW b \in Backups, NEW c \in Containers, NEW s \in Storages,
               NEW m \in Modes, NEW r \in Nat, startBackup(b, c, s, m, r)
      PROVE  Files'
  <2>1. NotYetWritten'
    BY <1>1, VolumeBackupAssumption DEF startBackup
  <2>2. RowlessSettled'
    BY <1>1, VolumeBackupAssumption DEF startBackup
  <2>3. DeletionSettled'
    BY <1>1, VolumeBackupAssumption DEF startBackup
  <2>4. FileKept'
    BY <1>1, VolumeBackupAssumption DEF startBackup
  <2>5. CompletedHasFile'
    BY <1>1, VolumeBackupAssumption DEF startBackup
  <2>6. FailedLeavesNoFile'
    BY <1>1, VolumeBackupAssumption DEF startBackup
  <2>7. DoomedInPrune'
    BY <1>1, VolumeBackupAssumption DEF startBackup
  <2>8. QED
    BY <2>1, <2>2, <2>3, <2>4, <2>5, <2>6, <2>7
<1>2. ASSUME NEW b \in Backups, Prepare(b)
      PROVE  Files'
  BY <1>2 DEF Prepare, CanQuiesce, Quiesced
<1>3. ASSUME NEW b \in Backups, PrepareFails(b)
      PROVE  Files'
  BY <1>3 DEF PrepareFails, CanQuiesce, Quiesced
<1>4. ASSUME NEW b \in Backups, OpenStream(b)
      PROVE  Files'
  BY <1>4 DEF OpenStream
<1>5. ASSUME NEW b \in Backups, OpenStreamFails(b)
      PROVE  Files'
  <2>1. NotYetWritten'
    BY <1>5, VolumeBackupAssumption DEF OpenStreamFails
  <2>2. RowlessSettled'
    BY <1>5, VolumeBackupAssumption DEF OpenStreamFails
  <2>3. DeletionSettled'
    BY <1>5, VolumeBackupAssumption DEF OpenStreamFails
  <2>4. FileKept'
    BY <1>5, VolumeBackupAssumption DEF OpenStreamFails
  <2>5. CompletedHasFile'
    BY <1>5, VolumeBackupAssumption DEF OpenStreamFails
  <2>6. FailedLeavesNoFile'
    BY <1>5, VolumeBackupAssumption DEF OpenStreamFails
  <2>7. DoomedInPrune'
    BY <1>5, VolumeBackupAssumption DEF OpenStreamFails
  <2>8. QED
    BY <2>1, <2>2, <2>3, <2>4, <2>5, <2>6, <2>7
<1>6. ASSUME NEW b \in Backups, SaveFile(b)
      PROVE  Files'
  BY <1>6 DEF SaveFile
<1>7. ASSUME NEW b \in Backups, SaveFileFails(b)
      PROVE  Files'
  BY <1>7 DEF SaveFileFails
<1>8. ASSUME NEW b \in Backups, SaveFilePanics(b)
      PROVE  Files'
  BY <1>8 DEF SaveFilePanics
<1>9. ASSUME NEW b \in Backups, CloseStream(b)
      PROVE  Files'
  <2>1. NotYetWritten'
    BY <1>9, VolumeBackupAssumption DEF CloseStream, AfterClose
  <2>2. RowlessSettled'
    BY <1>9, VolumeBackupAssumption DEF CloseStream, AfterClose
  <2>3. DeletionSettled'
    BY <1>9, VolumeBackupAssumption DEF CloseStream, AfterClose
  <2>4. FileKept'
    BY <1>9, VolumeBackupAssumption DEF CloseStream, AfterClose
  <2>5. CompletedHasFile'
    BY <1>9, VolumeBackupAssumption DEF CloseStream, AfterClose
  <2>6. FailedLeavesNoFile'
    BY <1>9, VolumeBackupAssumption DEF CloseStream, AfterClose
  <2>7. DoomedInPrune'
    BY <1>9, VolumeBackupAssumption DEF CloseStream, AfterClose
  <2>8. QED
    BY <2>1, <2>2, <2>3, <2>4, <2>5, <2>6, <2>7
<1>10. ASSUME NEW b \in Backups, Complete(b)
      PROVE  Files'
  <2>1. NotYetWritten'
    BY <1>10, VolumeBackupAssumption DEF Complete, SaveRow
  <2>2. RowlessSettled'
    BY <1>10, VolumeBackupAssumption DEF Complete, SaveRow
  <2>3. DeletionSettled'
    BY <1>10, VolumeBackupAssumption DEF Complete, SaveRow
  <2>4. FileKept'
    BY <1>10, VolumeBackupAssumption DEF Complete, SaveRow
  <2>5. CompletedHasFile'
    BY <1>10, VolumeBackupAssumption DEF Complete, SaveRow
  <2>6. FailedLeavesNoFile'
    BY <1>10, VolumeBackupAssumption DEF Complete, SaveRow
  <2>7. DoomedInPrune'
    BY <1>10, VolumeBackupAssumption DEF Complete, SaveRow
  <2>8. QED
    BY <2>1, <2>2, <2>3, <2>4, <2>5, <2>6, <2>7
<1>11. ASSUME NEW b \in Backups, CompleteFails(b)
      PROVE  Files'
  BY <1>11 DEF CompleteFails
<1>12. ASSUME NEW b \in Backups, FinalizeFailed(b)
      PROVE  Files'
  <2>1. NotYetWritten'
    BY <1>12, VolumeBackupAssumption DEF FinalizeFailed, SaveRow
  <2>2. RowlessSettled'
    BY <1>12, VolumeBackupAssumption DEF FinalizeFailed, SaveRow
  <2>3. DeletionSettled'
    BY <1>12, VolumeBackupAssumption DEF FinalizeFailed, SaveRow
  <2>4. FileKept'
    BY <1>12, VolumeBackupAssumption DEF FinalizeFailed, SaveRow
  <2>5. CompletedHasFile'
    BY <1>12, VolumeBackupAssumption DEF FinalizeFailed, SaveRow
  <2>6. FailedLeavesNoFile'
    BY <1>12, VolumeBackupAssumption DEF FinalizeFailed, SaveRow
  <2>7. DoomedInPrune'
    BY <1>12, VolumeBackupAssumption DEF FinalizeFailed, SaveRow
  <2>8. QED
    BY <2>1, <2>2, <2>3, <2>4, <2>5, <2>6, <2>7
<1>13. ASSUME NEW b \in Backups, DeletePartial(b)
      PROVE  Files'
  BY <1>13 DEF DeletePartial
<1>14. ASSUME NEW b \in Backups, Restore(b)
      PROVE  Files'
  BY <1>14 DEF Restore, Revived
<1>15. ASSUME NEW a \in Actors, NEW x \in Backups, FindBackup(a, x)
      PROVE  Files'
  <2>1. \A y \in Backups : blame[y] \subseteq blame'[y]
    BY <1>15 DEF FindBackup
  <2>2. \A y \in Backups : Settled(y) => Settled(y)'
    BY <1>15, <2>1 DEF FindBackup
  <2>3. \A y \in Backups : "kept" \in blame'[y] => Settled(y)'
    OBVIOUS
  <2>4. NotYetWritten'
    BY <1>15, <2>1, <2>2, <2>3, VolumeBackupAssumption DEF FindBackup
  <2>5. RowlessSettled'
    BY <1>15, <2>1, <2>2, <2>3, VolumeBackupAssumption DEF FindBackup
  <2>6. DeletionSettled'
    BY <1>15, <2>1, <2>2, <2>3, VolumeBackupAssumption DEF FindBackup
  <2>7. FileKept'
    BY <1>15, <2>1, <2>2, <2>3, VolumeBackupAssumption DEF FindBackup
  <2>8. CompletedHasFile'
    BY <1>15, <2>1, <2>2, <2>3, VolumeBackupAssumption DEF FindBackup
  <2>9. FailedLeavesNoFile'
    BY <1>15, <2>1, <2>2, <2>3, VolumeBackupAssumption DEF FindBackup
  <2>10. DoomedInPrune'
    BY <1>15, <2>1, <2>2, <2>3, VolumeBackupAssumption DEF FindBackup
  <2>11. QED
    BY <2>4, <2>5, <2>6, <2>7, <2>8, <2>9, <2>10
<1>16. ASSUME NEW a \in Actors, DeleteFile(a)
      PROVE  Files'
  <2>1. del[a] \in Deletion /\ del[a].id \in Backups /\ del[a] # None
    BY <1>16 DEF DeleteFile
  <2>2. \A y \in Backups : blame[y] \subseteq blame'[y]
    BY SMTT(30), <1>16, <2>1 DEF DeleteFile
  <2>3. \A y \in Backups : Settled(y) => Settled(y)'
    BY <1>16, <2>1, <2>2 DEF DeleteFile
  <2>4. \A y \in Backups : y = del[a].id => Settled(y)'
    <3>1. ASSUME NEW y \in Backups, y = del[a].id
          PROVE  \/ "kept" \in blame'[y]
                 \/ file'[y] = "absent" /\ (WillWrite(y) => "raced" \in blame'[y])
      BY <1>16, <2>1, <3>1 DEF DeleteFile
    <3>2. pc' = pc
      BY <1>16 DEF DeleteFile
    <3>3. QED
      BY <3>1, <3>2
  <2>5. del' = [del EXCEPT ![a] = [at |-> "row", id |-> del[a].id]]
    BY <1>16 DEF DeleteFile
  <2>6. NotYetWritten'
    BY <1>16, <2>1, <2>2, <2>3, <2>4, <2>5, VolumeBackupAssumption DEF DeleteFile
  <2>7. RowlessSettled'
    BY <1>16, <2>1, <2>2, <2>3, <2>4, <2>5, VolumeBackupAssumption DEF DeleteFile
  <2>8. DeletionSettled'
    BY <1>16, <2>1, <2>2, <2>3, <2>4, <2>5, VolumeBackupAssumption DEF DeleteFile
  <2>9. FileKept'
    BY <1>16, <2>1, <2>2, <2>3, <2>4, <2>5, VolumeBackupAssumption DEF DeleteFile
  <2>10. CompletedHasFile'
    BY <1>16, <2>1, <2>2, <2>3, <2>4, <2>5, VolumeBackupAssumption DEF DeleteFile
  <2>11. FailedLeavesNoFile'
    BY <1>16, <2>1, <2>2, <2>3, <2>4, <2>5, VolumeBackupAssumption DEF DeleteFile
  <2>12. DoomedInPrune'
    BY <1>16, <2>1, <2>2, <2>3, <2>4, <2>5, VolumeBackupAssumption DEF DeleteFile
  <2>13. QED
    BY <2>6, <2>7, <2>8, <2>9, <2>10, <2>11, <2>12
<1>17. ASSUME NEW a \in Actors, DeleteRow(a)
      PROVE  Files'
  <2>1. del[a] \in Deletion /\ del[a].id \in Backups /\ del[a] # None
    BY <1>17 DEF DeleteRow
  <2>2. \A y \in Backups : row'[y] \in {row[y], None} /\ (y # del[a].id => row'[y] = row[y])
    BY <1>17, <2>1 DEF DeleteRow
  <2>3. \A y \in Backups : doomed'[y] \subseteq doomed[y]
    BY <1>17, <2>1 DEF DeleteRow
  <2>4. NotYetWritten'
    BY <1>17, <2>1, <2>2, <2>3, VolumeBackupAssumption DEF DeleteRow
  <2>5. RowlessSettled'
    BY <1>17, <2>1, <2>2, <2>3, VolumeBackupAssumption DEF DeleteRow
  <2>6. DeletionSettled'
    BY <1>17, <2>1, <2>2, <2>3, VolumeBackupAssumption DEF DeleteRow
  <2>7. FileKept'
    BY <1>17, <2>1, <2>2, <2>3, VolumeBackupAssumption DEF DeleteRow
  <2>8. CompletedHasFile'
    BY <1>17, <2>1, <2>2, <2>3, VolumeBackupAssumption DEF DeleteRow
  <2>9. FailedLeavesNoFile'
    BY <1>17, <2>1, <2>2, <2>3, VolumeBackupAssumption DEF DeleteRow
  <2>10. DoomedInPrune'
    BY <1>17, <2>1, <2>2, <2>3, VolumeBackupAssumption DEF DeleteRow
  <2>11. QED
    BY <2>4, <2>5, <2>6, <2>7, <2>8, <2>9, <2>10
<1>18. ASSUME NEW b \in Backups, Retain(b)
      PROVE  Files'
  BY SMTT(30), <1>18 DEF Retain, Expired
<1>19. ASSUME NEW b \in Backups, PruneSkips(b)
      PROVE  Files'
  BY <1>19 DEF PruneSkips
<1>20. ASSUME NEW b \in Backups, PruneDone(b)
      PROVE  Files'
  BY <1>20 DEF PruneDone
<1>21. ASSUME NEW s \in Storages, DeleteStorage(s)
      PROVE  Files'
  BY <1>21 DEF DeleteStorage
<1>22. ASSUME ProcessRestarts
      PROVE  Files'
  BY <1>22 DEF ProcessRestarts, Active
<1>23. ASSUME NEW c \in Containers, OperatorStops(c)
      PROVE  Files'
  BY <1>23 DEF OperatorStops
<1>24. ASSUME NEW c \in Containers, OperatorStarts(c)
      PROVE  Files'
  BY <1>24 DEF OperatorStarts
<1>25. ASSUME DayPasses
      PROVE  Files'
  BY <1>25 DEF DayPasses
<1>26. CASE UNCHANGED vars
  BY <1>26 DEF vars
<1>27. QED
  BY <1>1, <1>2, <1>3, <1>4, <1>5, <1>6, <1>7, <1>8, <1>9, <1>10, <1>11, <1>12, <1>13,
     <1>14, <1>15, <1>16, <1>17, <1>18, <1>19, <1>20, <1>21, <1>22, <1>23, <1>24,
     <1>25, <1>26, NextCases

\* A sidecar outlives its stream only with a reason.
LEMMA SidecarStep == Typed /\ SidecarReaped /\ [Next]_vars => SidecarReaped'
<1> SUFFICES ASSUME Typed /\ SidecarReaped, [Next]_vars PROVE SidecarReaped'
  OBVIOUS
<1> USE DEF Typed, TypeOK, JobKnown, HeldActive, Job, Deletion,
       Statuses, Stages, Ended, Causes, Actors, dbVars, dockVars, runVars,
       ghostVars, Goto, Accuse, SidecarReaped, Streaming
<1>1. ASSUME NEW b \in Backups, NEW c \in Containers, NEW s \in Storages,
               NEW m \in Modes, NEW r \in Nat, startBackup(b, c, s, m, r)
      PROVE  SidecarReaped'
  BY <1>1 DEF startBackup
<1>2. ASSUME NEW b \in Backups, Prepare(b)
      PROVE  SidecarReaped'
  BY <1>2 DEF Prepare, CanQuiesce, Quiesced
<1>3. ASSUME NEW b \in Backups, PrepareFails(b)
      PROVE  SidecarReaped'
  BY <1>3 DEF PrepareFails, CanQuiesce, Quiesced
<1>4. ASSUME NEW b \in Backups, OpenStream(b)
      PROVE  SidecarReaped'
  BY <1>4 DEF OpenStream
<1>5. ASSUME NEW b \in Backups, OpenStreamFails(b)
      PROVE  SidecarReaped'
  BY <1>5 DEF OpenStreamFails
<1>6. ASSUME NEW b \in Backups, SaveFile(b)
      PROVE  SidecarReaped'
  BY <1>6 DEF SaveFile
<1>7. ASSUME NEW b \in Backups, SaveFileFails(b)
      PROVE  SidecarReaped'
  BY <1>7 DEF SaveFileFails
<1>8. ASSUME NEW b \in Backups, SaveFilePanics(b)
      PROVE  SidecarReaped'
  BY <1>8 DEF SaveFilePanics
<1>9. ASSUME NEW b \in Backups, CloseStream(b)
      PROVE  SidecarReaped'
  BY <1>9 DEF CloseStream, AfterClose
<1>10. ASSUME NEW b \in Backups, Complete(b)
      PROVE  SidecarReaped'
  BY <1>10 DEF Complete, SaveRow
<1>11. ASSUME NEW b \in Backups, CompleteFails(b)
      PROVE  SidecarReaped'
  BY <1>11 DEF CompleteFails
<1>12. ASSUME NEW b \in Backups, FinalizeFailed(b)
      PROVE  SidecarReaped'
  BY <1>12 DEF FinalizeFailed, SaveRow
<1>13. ASSUME NEW b \in Backups, DeletePartial(b)
      PROVE  SidecarReaped'
  BY <1>13 DEF DeletePartial
<1>14. ASSUME NEW b \in Backups, Restore(b)
      PROVE  SidecarReaped'
  BY <1>14 DEF Restore, Revived
<1>15. ASSUME NEW a \in Actors, NEW x \in Backups, FindBackup(a, x)
      PROVE  SidecarReaped'
  BY <1>15 DEF FindBackup
<1>16. ASSUME NEW a \in Actors, DeleteFile(a)
      PROVE  SidecarReaped'
  BY <1>16 DEF DeleteFile, WillWrite
<1>17. ASSUME NEW a \in Actors, DeleteRow(a)
      PROVE  SidecarReaped'
  BY <1>17 DEF DeleteRow
<1>18. ASSUME NEW b \in Backups, Retain(b)
      PROVE  SidecarReaped'
  BY <1>18 DEF Retain, Expired
<1>19. ASSUME NEW b \in Backups, PruneSkips(b)
      PROVE  SidecarReaped'
  BY <1>19 DEF PruneSkips
<1>20. ASSUME NEW b \in Backups, PruneDone(b)
      PROVE  SidecarReaped'
  BY <1>20 DEF PruneDone
<1>21. ASSUME NEW s \in Storages, DeleteStorage(s)
      PROVE  SidecarReaped'
  BY <1>21 DEF DeleteStorage
<1>22. ASSUME ProcessRestarts
      PROVE  SidecarReaped'
  BY <1>22 DEF ProcessRestarts, Active
<1>23. ASSUME NEW c \in Containers, OperatorStops(c)
      PROVE  SidecarReaped'
  BY <1>23 DEF OperatorStops
<1>24. ASSUME NEW c \in Containers, OperatorStarts(c)
      PROVE  SidecarReaped'
  BY <1>24 DEF OperatorStarts
<1>25. ASSUME DayPasses
      PROVE  SidecarReaped'
  BY <1>25 DEF DayPasses
<1>26. CASE UNCHANGED vars
  BY <1>26 DEF vars
<1>27. QED
  BY <1>1, <1>2, <1>3, <1>4, <1>5, <1>6, <1>7, <1>8, <1>9, <1>10, <1>11, <1>12, <1>13,
     <1>14, <1>15, <1>16, <1>17, <1>18, <1>19, <1>20, <1>21, <1>22, <1>23, <1>24,
     <1>25, <1>26, NextCases

\* No step leaves a container down with nobody to bring it back; the runs that
\* share a container may come and go in any order.
LEMMA BroughtBackStep == Typed /\ BroughtBack /\ [Next]_vars => BroughtBack'
<1> SUFFICES ASSUME Typed /\ BroughtBack, [Next]_vars PROVE BroughtBack'
  OBVIOUS
<1> USE DEF Typed, TypeOK, JobKnown, HeldActive, Job, Deletion,
       Statuses, Stages, Ended, Causes, Actors, dbVars, dockVars, runVars,
       ghostVars, Goto, Accuse, BroughtBack, BringsBack, Active
<1>1. ASSUME NEW b \in Backups, NEW c \in Containers, NEW s \in Storages,
               NEW m \in Modes, NEW r \in Nat, startBackup(b, c, s, m, r)
      PROVE  BroughtBack'
  BY <1>1 DEF startBackup
<1>2. ASSUME NEW b \in Backups, Prepare(b)
      PROVE  BroughtBack'
  <2>1. job[b].container \in Containers /\ job[b].mode \in Modes /\ b \notin held
    BY <1>2 DEF Prepare
  <2>2. \A o \in Backups, k \in Containers :
           k # job[b].container /\ BringsBack(o, k) => BringsBack(o, k)'
    BY <1>2, <2>1 DEF Prepare
  <2>3. ASSUME NEW k \in Containers, k # job[b].container
        PROVE  \/ container'[k] = "running"
               \/ k \in byHand' \cup lost'
               \/ \E o \in Backups : BringsBack(o, k)'
    BY <1>2, <2>1, <2>2, <2>3 DEF Prepare
  <2>4. CASE job[b].mode = "NONE"
    BY <1>2, <2>1, <2>4 DEF Prepare, Quiesced
  <2>5. CASE job[b].mode # "NONE"
    <3>1. container'[job[b].container] = IF job[b].mode = "PAUSE" THEN "paused" ELSE "stopped"
      BY <1>2, <2>1, <2>5 DEF Prepare, Quiesced
    <3>2. job' = job /\ b \in held' /\ pc'[b] = "open"
      BY <1>2 DEF Prepare
    <3>3. job[b].mode \in {"PAUSE", "STOP"}
      BY <2>1, <2>5, VolumeBackupAssumption
    <3>4. \A k \in Containers : k = job[b].container => BringsBack(b, k)'
      BY <3>1, <3>2, <3>3
    <3>5. QED
      BY <2>3, <3>4
  <2>6. QED
    BY <2>4, <2>5
<1>3. ASSUME NEW b \in Backups, PrepareFails(b)
      PROVE  BroughtBack'
  BY <1>3 DEF PrepareFails, CanQuiesce, Quiesced
<1>4. ASSUME NEW b \in Backups, OpenStream(b)
      PROVE  BroughtBack'
  BY <1>4 DEF OpenStream
<1>5. ASSUME NEW b \in Backups, OpenStreamFails(b)
      PROVE  BroughtBack'
  BY <1>5 DEF OpenStreamFails
<1>6. ASSUME NEW b \in Backups, SaveFile(b)
      PROVE  BroughtBack'
  BY <1>6 DEF SaveFile
<1>7. ASSUME NEW b \in Backups, SaveFileFails(b)
      PROVE  BroughtBack'
  BY <1>7 DEF SaveFileFails
<1>8. ASSUME NEW b \in Backups, SaveFilePanics(b)
      PROVE  BroughtBack'
  BY <1>8 DEF SaveFilePanics
<1>9. ASSUME NEW b \in Backups, CloseStream(b)
      PROVE  BroughtBack'
  BY <1>9 DEF CloseStream, AfterClose
<1>10. ASSUME NEW b \in Backups, Complete(b)
      PROVE  BroughtBack'
  BY <1>10 DEF Complete, SaveRow
<1>11. ASSUME NEW b \in Backups, CompleteFails(b)
      PROVE  BroughtBack'
  BY <1>11 DEF CompleteFails
<1>12. ASSUME NEW b \in Backups, FinalizeFailed(b)
      PROVE  BroughtBack'
  BY <1>12 DEF FinalizeFailed, SaveRow
<1>13. ASSUME NEW b \in Backups, DeletePartial(b)
      PROVE  BroughtBack'
  BY <1>13 DEF DeletePartial
<1>14. ASSUME NEW b \in Backups, Restore(b)
      PROVE  BroughtBack'
  BY <1>14 DEF Restore, Revived
<1>15. ASSUME NEW a \in Actors, NEW x \in Backups, FindBackup(a, x)
      PROVE  BroughtBack'
  BY <1>15 DEF FindBackup
<1>16. ASSUME NEW a \in Actors, DeleteFile(a)
      PROVE  BroughtBack'
  BY <1>16 DEF DeleteFile, WillWrite
<1>17. ASSUME NEW a \in Actors, DeleteRow(a)
      PROVE  BroughtBack'
  BY <1>17 DEF DeleteRow
<1>18. ASSUME NEW b \in Backups, Retain(b)
      PROVE  BroughtBack'
  BY <1>18 DEF Retain, Expired
<1>19. ASSUME NEW b \in Backups, PruneSkips(b)
      PROVE  BroughtBack'
  BY <1>19 DEF PruneSkips
<1>20. ASSUME NEW b \in Backups, PruneDone(b)
      PROVE  BroughtBack'
  BY <1>20 DEF PruneDone
<1>21. ASSUME NEW s \in Storages, DeleteStorage(s)
      PROVE  BroughtBack'
  BY <1>21 DEF DeleteStorage
<1>22. ASSUME ProcessRestarts
      PROVE  BroughtBack'
  BY <1>22 DEF ProcessRestarts, Active
<1>23. ASSUME NEW c \in Containers, OperatorStops(c)
      PROVE  BroughtBack'
  BY <1>23 DEF OperatorStops
<1>24. ASSUME NEW c \in Containers, OperatorStarts(c)
      PROVE  BroughtBack'
  BY <1>24 DEF OperatorStarts
<1>25. ASSUME DayPasses
      PROVE  BroughtBack'
  BY <1>25 DEF DayPasses
<1>26. CASE UNCHANGED vars
  BY <1>26 DEF vars
<1>27. QED
  BY <1>1, <1>2, <1>3, <1>4, <1>5, <1>6, <1>7, <1>8, <1>9, <1>10, <1>11, <1>12, <1>13,
     <1>14, <1>15, <1>16, <1>17, <1>18, <1>19, <1>20, <1>21, <1>22, <1>23, <1>24,
     <1>25, <1>26, NextCases

\* Only an operator, or another run's restore(), starts a container whose
\* mounts a run is reading.
LEMMA SnapshotStepHolds == Typed /\ [Next]_vars => SnapshotStep
<1> SUFFICES ASSUME Typed, [Next]_vars PROVE SnapshotStep
  OBVIOUS
<1> USE DEF Typed, TypeOK, JobKnown, HeldActive, Job, Deletion,
       Statuses, Stages, Ended, Causes, Actors, dbVars, dockVars, runVars,
       ghostVars, Goto, Accuse, SnapshotStep, Streaming
<1>1. ASSUME NEW b \in Backups, NEW c \in Containers, NEW s \in Storages,
               NEW m \in Modes, NEW r \in Nat, startBackup(b, c, s, m, r)
      PROVE  SnapshotStep
  BY <1>1 DEF startBackup
<1>2. ASSUME NEW b \in Backups, Prepare(b)
      PROVE  SnapshotStep
  BY <1>2 DEF Prepare, CanQuiesce, Quiesced
<1>3. ASSUME NEW b \in Backups, PrepareFails(b)
      PROVE  SnapshotStep
  BY <1>3 DEF PrepareFails, CanQuiesce, Quiesced
<1>4. ASSUME NEW b \in Backups, OpenStream(b)
      PROVE  SnapshotStep
  BY <1>4 DEF OpenStream
<1>5. ASSUME NEW b \in Backups, OpenStreamFails(b)
      PROVE  SnapshotStep
  BY <1>5 DEF OpenStreamFails
<1>6. ASSUME NEW b \in Backups, SaveFile(b)
      PROVE  SnapshotStep
  BY <1>6 DEF SaveFile
<1>7. ASSUME NEW b \in Backups, SaveFileFails(b)
      PROVE  SnapshotStep
  BY <1>7 DEF SaveFileFails
<1>8. ASSUME NEW b \in Backups, SaveFilePanics(b)
      PROVE  SnapshotStep
  BY <1>8 DEF SaveFilePanics
<1>9. ASSUME NEW b \in Backups, CloseStream(b)
      PROVE  SnapshotStep
  BY <1>9 DEF CloseStream, AfterClose
<1>10. ASSUME NEW b \in Backups, Complete(b)
      PROVE  SnapshotStep
  BY <1>10 DEF Complete, SaveRow
<1>11. ASSUME NEW b \in Backups, CompleteFails(b)
      PROVE  SnapshotStep
  BY <1>11 DEF CompleteFails
<1>12. ASSUME NEW b \in Backups, FinalizeFailed(b)
      PROVE  SnapshotStep
  BY <1>12 DEF FinalizeFailed, SaveRow
<1>13. ASSUME NEW b \in Backups, DeletePartial(b)
      PROVE  SnapshotStep
  BY <1>13 DEF DeletePartial
<1>14. ASSUME NEW b \in Backups, Restore(b)
      PROVE  SnapshotStep
  BY <1>14 DEF Restore, Revived
<1>15. ASSUME NEW a \in Actors, NEW x \in Backups, FindBackup(a, x)
      PROVE  SnapshotStep
  BY <1>15 DEF FindBackup
<1>16. ASSUME NEW a \in Actors, DeleteFile(a)
      PROVE  SnapshotStep
  BY <1>16 DEF DeleteFile, WillWrite
<1>17. ASSUME NEW a \in Actors, DeleteRow(a)
      PROVE  SnapshotStep
  BY <1>17 DEF DeleteRow
<1>18. ASSUME NEW b \in Backups, Retain(b)
      PROVE  SnapshotStep
  BY <1>18 DEF Retain, Expired
<1>19. ASSUME NEW b \in Backups, PruneSkips(b)
      PROVE  SnapshotStep
  BY <1>19 DEF PruneSkips
<1>20. ASSUME NEW b \in Backups, PruneDone(b)
      PROVE  SnapshotStep
  BY <1>20 DEF PruneDone
<1>21. ASSUME NEW s \in Storages, DeleteStorage(s)
      PROVE  SnapshotStep
  BY <1>21 DEF DeleteStorage
<1>22. ASSUME ProcessRestarts
      PROVE  SnapshotStep
  BY <1>22 DEF ProcessRestarts, Active
<1>23. ASSUME NEW c \in Containers, OperatorStops(c)
      PROVE  SnapshotStep
  BY <1>23 DEF OperatorStops
<1>24. ASSUME NEW c \in Containers, OperatorStarts(c)
      PROVE  SnapshotStep
  <2>1. ASSUME NEW b \in held, container[job[b].container] # container'[job[b].container]
        PROVE  job[b].container = c
    BY <1>24, <2>1 DEF OperatorStarts
  <2>2. QED
    BY <1>24, <2>1
<1>25. ASSUME DayPasses
      PROVE  SnapshotStep
  BY <1>25 DEF DayPasses
<1>26. CASE UNCHANGED vars
  BY <1>26 DEF vars
<1>27. QED
  BY <1>1, <1>2, <1>3, <1>4, <1>5, <1>6, <1>7, <1>8, <1>9, <1>10, <1>11, <1>12, <1>13,
     <1>14, <1>15, <1>16, <1>17, <1>18, <1>19, <1>20, <1>21, <1>22, <1>23, <1>24,
     <1>25, <1>26, NextCases

----------------------------------------------------------------------------
\* The inductive invariant holds in the initial states: nothing is launched,
\* stored, pending or down but by its operator's hand.
LEMMA InitIInv == Init => IInv
<1> SUFFICES ASSUME Init PROVE IInv
  OBVIOUS
<1>1. Typed
  <2>1. byHand \subseteq Containers
    BY DEF Init
  <2>2. container \in [Containers -> {"running", "paused", "stopped"}]
    BY DEF Init
  <2>3. QED
    BY <2>1, <2>2 DEF Init, Typed, TypeOK, JobKnown, HeldActive, Stages, Ended
<1>2. Rows
  BY VolumeBackupAssumption DEF Init, Rows, RowStage, DelMarked, RunningHasRun, Statuses
<1>3. Files
  BY VolumeBackupAssumption
     DEF Init, Files, NotYetWritten, RowlessSettled, DeletionSettled, FileKept,
         CompletedHasFile, FailedLeavesNoFile, DoomedInPrune, Statuses
<1>4. SidecarReaped
  BY DEF Init, SidecarReaped
<1>5. BroughtBack
  BY DEF Init, BroughtBack
<1>6. QED
  BY <1>1, <1>2, <1>3, <1>4, <1>5 DEF IInv

\* Every step keeps the inductive invariant.
LEMMA IInvStep == IInv /\ [Next]_vars => IInv'
  BY TypedStep, RowsStep, FilesStep, SidecarStep, BroughtBackStep DEF IInv

\* In every reachable state, and whatever befalls the runs, the stage of each
\* run, its row, its archive, its sidecar and its container agree as IInv says.
THEOREM Invariance == Spec => []IInv
<1>1. Init => IInv
  BY InitIInv
<1>2. IInv /\ [Next]_vars => IInv'
  BY IInvStep
<1>3. QED
  BY <1>1, <1>2, PTL DEF Spec

\* The variables keep their types.
THEOREM TypeCorrect == Spec => []TypeOK
<1>1. IInv => TypeOK
  BY DEF IInv, Typed
<1>2. QED
  BY <1>1, Invariance, PTL

\* consistency.go:12-15 for every number of runs that pause and stop the same
\* container: one that is down is owed a matching restore() by a live run, or
\* its operator wants it down, or a restore() failed or died with the process.
THEOREM ContainersBroughtBack == Spec => []BroughtBack
<1>1. IInv => BroughtBack
  BY DEF IInv
<1>2. QED
  BY <1>1, Invariance, PTL

\* A COMPLETED row names a whole archive until its deletion is asked for.
THEOREM CompletedBackupsHaveFiles == Spec => []CompletedHasFile
<1>1. IInv => CompletedHasFile
  BY DEF IInv, Files
<1>2. QED
  BY <1>1, Invariance, PTL

\* Past finalizeFailed a FAILED backup has no bytes on its storage, unless the
\* storage refused to delete them.
THEOREM FailedBackupsLeaveNoFile == Spec => []FailedLeavesNoFile
<1>1. IInv => FailedLeavesNoFile
  BY DEF IInv, Files
<1>2. QED
  BY <1>1, Invariance, PTL

\* An archive without a row is the work of a failed or skipped DeleteFile, or
\* of a DeleteBackup that overtook the run: there is no third way.
THEOREM OrphansAreExplained == Spec => []NoOrphanFile
<1>1. IInv => NoOrphanFile
  BY DEF IInv, Files, NotYetWritten, RowlessSettled, Settled, NoOrphanFile
<1>2. QED
  BY <1>1, Invariance, PTL

\* A row that says RUNNING has a run, or the process died under it, or the Save
\* of its final status failed, or SaveFile panicked and runBackup's recover let
\* the process live on with the row as it was.
THEOREM RunningRowsHaveRuns == Spec => []RunningHasRun
<1>1. IInv => RunningHasRun
  BY DEF IInv, Rows
<1>2. QED
  BY <1>1, Invariance, PTL

\* A sidecar outlives its stream only when Docker or the run was cut short.
THEOREM SidecarsAreReaped == Spec => []SidecarReaped
<1>1. IInv => SidecarReaped
  BY DEF IInv
<1>2. QED
  BY <1>1, Invariance, PTL

\* Retention touches rows of its own container only, and only for a run that
\* left a recorded and complete backup, unless that one is being deleted too.
THEOREM RetentionIsSafe == Spec => []RetentionSafe
<1>1. IInv => RetentionSafe
  <2> SUFFICES ASSUME IInv, NEW b \in Backups, NEW x \in doomed[b]
               PROVE  /\ job[x].container = job[b].container
                      /\ \/ row[b] = "COMPLETED" /\ file[b] = "whole"
                         \/ "asked" \in blame[b]
    BY DEF RetentionSafe
  <2>1. x \in Backups
    BY DEF IInv, Typed, TypeOK
  <2>2. pc[b] = "prune" /\ job[x].container = job[b].container
    BY <2>1 DEF IInv, Files, DoomedInPrune
  <2>3. row[b] = "COMPLETED" \/ "asked" \in blame[b]
    BY <2>2 DEF IInv, Files, FileKept
  <2>4. QED
    BY <2>2, <2>3 DEF IInv, Files, CompletedHasFile
<1>2. QED
  BY <1>1, Invariance, PTL

\* While a run reads the mounts of the container it stopped, no step but its
\* operator's or another run's restore() sets that container going.
THEOREM SnapshotsUndisturbed == Spec => OnlyOthersWake
<1>1. IInv /\ [Next]_vars => [SnapshotStep]_vars
  BY SnapshotStepHolds DEF IInv
<1>2. QED
  BY <1>1, Invariance, PTL DEF Spec, OnlyOthersWake
=============================================================================
