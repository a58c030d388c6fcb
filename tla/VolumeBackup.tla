---------------------------- MODULE VolumeBackup ----------------------------
(***************************************************************************)
(* The life of a volume backup: its database row, the goroutine that runs  *)
(* it, the archive it leaves on a storage, the container it pauses or      *)
(* stops, the tar sidecar it reads through, and the deletions (by request  *)
(* or by retention) that race with all of these.                           *)
(*                                                                         *)
(* Source: backend/internal/features/docker/{backuper,consistency,backup,  *)
(* repository}.go; the Docker daemon, the storages and the process         *)
(* supervisor are the environment.                                         *)
(*                                                                         *)
(* One action per database statement, Docker call or storage call of a     *)
(* goroutine: those are the points at which another goroutine can step in. *)
(***************************************************************************)
EXTENDS Naturals, FiniteSets

CONSTANTS
    Backups,     \* identifiers (uuid.New) that backups may take
    Requests,    \* HTTP handlers that may be executing DeleteBackup
    Containers,  \* containers, by the name they keep when recreated
    Storages,    \* rows of the storages table
    InPlace,     \* storages that write the archive under its final name
                 \* (SFTP, FTP, NAS); the others publish it when complete
    Modes,       \* consistency modes a backup may ask for
    Retentions,  \* retentionDays a config may ask for
    MaxNow,      \* bound on the clock, in days
    Upsets,      \* disturbances the environment may cause
    None         \* "no value"

Statuses == {"RUNNING", "COMPLETED", "FAILED"}

UpsetKinds == {"docker", "db", "storage", "panic", "exit", "operator"}

ASSUME VolumeBackupAssumption ==
    /\ InPlace \subseteq Storages
    /\ Modes \subseteq {"NONE", "PAUSE", "STOP"}
    /\ Retentions \subseteq Nat
    /\ MaxNow \in Nat
    /\ Upsets \subseteq UpsetKinds
    /\ Backups \cap Requests = {}
    /\ None \notin Statuses

VARIABLES
    row,        \* status column of the volume_backups row, None if no row
    storages,   \* rows of the storages table
    file,       \* the archive of a backup, as its storage shows it
    container,  \* state of a container, as the Docker daemon has it
    sidecar,    \* backups whose tar sidecar exists in the Docker daemon
    job,        \* what a backup was asked to do (VolumeBackup, backupSpec)
    pc,         \* where the goroutine of a backup is
    held,       \* runs whose deferred restore() is still pending
    doomed,     \* rows that a run's applyRetention has still to delete
    del,        \* the DeleteBackup call an actor is executing
    now,        \* the clock, in days
    blame,      \* history: what befell a backup
    lost,       \* history: containers whose restore() failed or never ran, or
                \* whom a call that reported failure took down all the same
    byHand      \* history: containers whose operator's last word was "stop"

dbVars    == <<row, storages>>
dockVars  == <<container, sidecar>>
runVars   == <<pc, held, doomed, del>>
ghostVars == <<blame, lost, byHand>>
vars == <<row, storages, file, container, sidecar, job, pc, held, doomed,
          del, now, blame, lost, byHand>>

Actors   == Backups \cup Requests

Job == [container : Containers, storage : Storages, mode : Modes,
        retention : Nat, created : Nat]

Deletion == [at : {"file", "row"}, id : Backups]

\* Causes recorded in blame: a DeleteBackup found the row; its DeleteFile came
\* while the run could still write the archive; the Save of the run's final
\* status failed; SaveFile panicked; a DeleteFile failed or was skipped; a
\* sidecar was not removed.
Causes == {"asked", "raced", "unsaved", "panicked", "kept", "leaked"}

Ended   == {"idle", "done", "killed"}
Stages  == {"prepare", "open", "copy", "closeOk", "closeErr", "complete",
            "fail", "cleanup", "retain", "prune", "restore"}

Active(b)    == pc[b] \in Stages
WillWrite(b) == pc[b] \in {"prepare", "open", "copy"}
Streaming(b) == pc[b] \in {"copy", "closeOk", "closeErr"}

Accuse(b, cause) == blame' = [blame EXCEPT ![b] = @ \cup {cause}]
Goto(b, stage)   == pc' = [pc EXCEPT ![b] = stage]

TypeOK ==
    /\ row \in [Backups -> Statuses \cup {None}]
    /\ storages \subseteq Storages
    /\ file \in [Backups -> {"absent", "partial", "whole"}]
    /\ container \in [Containers -> {"running", "paused", "stopped"}]
    /\ sidecar \subseteq Backups
    /\ job \in [Backups -> Job \cup {None}]
    /\ pc \in [Backups -> Stages \cup Ended]
    /\ held \subseteq Backups
    /\ doomed \in [Backups -> SUBSET Backups]
    /\ del \in [Actors -> Deletion \cup {None}]
    /\ now \in Nat
    /\ blame \in [Backups -> SUBSET Causes]
    /\ lost \subseteq Containers
    /\ byHand \subseteq Containers

\* An installation with no backups yet; an operator, where there is one, may
\* have left any container stopped.
Init ==
    /\ row = [b \in Backups |-> None]
    /\ storages = Storages
    /\ file = [b \in Backups |-> "absent"]
    /\ container \in [Containers -> IF "operator" \in Upsets
                                   THEN {"running", "stopped"} ELSE {"running"}]
    /\ sidecar = {}
    /\ job = [b \in Backups |-> None]
    /\ pc = [b \in Backups |-> "idle"]
    /\ held = {}
    /\ doomed = [b \in Backups |-> {}]
    /\ del = [a \in Actors |-> None]
    /\ now = 0
    /\ blame = [b \in Backups |-> {}]
    /\ lost = {}
    /\ byHand = {c \in Containers : container[c] = "stopped"}

----------------------------------------------------------------------------
(* Faults.  Each is an operator below it as a plausible bug would have it;  *)
(* nothing refers to them: putting one in the place of its original shows   *)
(* which property notices.                                                  *)

\* Mutant: runBackup returns without finalizeFailed.
PrepareFailsSilently(b) ==
    /\ pc[b] = "prepare"
    /\ "docker" \in Upsets
    /\ Goto(b, "done")
    /\ UNCHANGED <<dbVars, file, dockVars, job, held, doomed, del, now, ghostVars>>

\* Mutant: the error of SaveFile or Close is logged and the run returns.
AfterCloseReturns(b, removed) ==
    IF pc[b] = "closeOk" /\ removed THEN "complete" ELSE "restore"

\* Mutant: the stream is not closed after a partial read.
SaveFileFailsUnclosed(b) ==
    /\ pc[b] = "copy"
    /\ {"storage", "docker"} \cap Upsets # {}
    /\ \E left \in {"absent", "partial"} : file' = [file EXCEPT ![b] = left]
    /\ Goto(b, "fail")
    /\ UNCHANGED <<dbVars, dockVars, job, held, doomed, del, now, ghostVars>>

\* Mutant: the exit code of tar and the error of SaveFile are dropped.
AfterCloseUnchecked(b, removed) == IF removed THEN "complete" ELSE "fail"

\* Mutant: no return after the failed Save.
CompleteFailsButPrunes(b) ==
    /\ pc[b] = "complete"
    /\ "db" \in Upsets
    /\ Accuse(b, "unsaved")
    /\ Goto(b, "retain")
    /\ UNCHANGED <<dbVars, file, dockVars, job, held, doomed, del, now, lost, byHand>>

\* Mutant: the partial archive is not deleted.
FinalizeFailedKeeps(b) ==
    /\ pc[b] = "fail"
    /\ row' = [row EXCEPT ![b] = "FAILED"]
    /\ Goto(b, IF b \in held THEN "restore" ELSE "done")
    /\ UNCHANGED <<storages, file, dockVars, job, held, doomed, del, now, ghostVars>>

\* Mutant: restore() is not deferred but only called on success.
DeletePartialThenDone(b) ==
    /\ pc[b] = "cleanup"
    /\ file' = [file EXCEPT ![b] = "absent"]
    /\ Goto(b, "done")
    /\ UNCHANGED <<dbVars, dockVars, job, held, doomed, del, now, ghostVars>>

\* Mutant: restore() unpauses whatever the mode was.
RevivedByUnpause(mode, state) == IF state = "paused" THEN "running" ELSE state

\* Mutant: the file is left to its storage.
FindBackupRowOnly(a, x) ==
    /\ del[a] = None
    /\ row[x] # None
    /\ del' = [del EXCEPT ![a] = [at |-> "row", id |-> x]]
    /\ Accuse(x, "asked")
    /\ UNCHANGED <<dbVars, file, dockVars, job, pc, held, doomed, now, lost, byHand>>

\* Mutant: a row that is gone is tried again.
PruneRetries(b) ==
    /\ pc[b] = "prune"
    /\ del[b] = None
    /\ \E x \in doomed[b] : row[x] = None
    /\ UNCHANGED vars

----------------------------------------------------------------------------
(* Starting a backup: the row is saved, then the goroutine is launched.    *)

startBackup(b, c, s, m, r) ==
    /\ pc[b] = "idle"
    /\ s \in storages
    /\ job' = [job EXCEPT ![b] = [container |-> c, storage |-> s, mode |-> m,
                                  retention |-> r, created |-> now]]
    /\ row' = [row EXCEPT ![b] = "RUNNING"]
    /\ Goto(b, "prepare")
    /\ UNCHANGED <<storages, file, dockVars, held, doomed, del, now, ghostVars>>

\* POST /docker/backup: nothing is pruned afterwards.
CreateBackup(b, c, s, m) == startBackup(b, c, s, m, 0)

\* The scheduler's call, with the config's retention.
CreateBackupForConfig(b, c, s, m, r) == startBackup(b, c, s, m, r)

----------------------------------------------------------------------------
(* runBackup, one action per call it makes.                                *)

\* prepareForBackup.  Docker refuses to pause what is not running, and
\* treats stopping a stopped container as done.
Quiesced(mode, state) ==
    IF mode = "NONE" THEN state ELSE IF mode = "PAUSE" THEN "paused" ELSE "stopped"

CanQuiesce(mode, state) == mode = "PAUSE" => state = "running"

Prepare(b) ==
    LET c == job[b].container  m == job[b].mode
    IN  /\ pc[b] = "prepare"
        /\ CanQuiesce(m, container[c])
        /\ container' = [container EXCEPT ![c] = Quiesced(m, @)]
        /\ held' = held \cup {b}
        /\ Goto(b, "open")
        /\ UNCHANGED <<dbVars, file, sidecar, job, doomed, del, now, ghostVars>>

\* The call is refused, or is answered with an error after it took effect; in
\* either case there is no restore() to defer.
PrepareFails(b) ==
    LET c == job[b].container  m == job[b].mode
    IN  /\ pc[b] = "prepare"
        /\ \/ /\ ~CanQuiesce(m, container[c]) \/ "docker" \in Upsets
              /\ UNCHANGED <<container, lost>>
           \/ /\ m # "NONE" /\ CanQuiesce(m, container[c]) /\ "docker" \in Upsets
              /\ container' = [container EXCEPT ![c] = Quiesced(m, @)]
              /\ lost' = lost \cup {c}
        /\ Goto(b, "fail")
        /\ UNCHANGED <<dbVars, file, sidecar, job, held, doomed, del, now, blame, byHand>>

\* StreamContainerMounts starts the sidecar, SaveFile begins to write.
OpenStream(b) ==
    /\ pc[b] = "open"
    /\ sidecar' = sidecar \cup {b}
    /\ file' = IF job[b].storage \in InPlace
               THEN [file EXCEPT ![b] = "partial"] ELSE file
    /\ Goto(b, "copy")
    /\ UNCHANGED <<dbVars, container, job, held, doomed, del, now, ghostVars>>

\* No image, no sidecar, no attach, or no cipher key; the removal of a sidecar
\* that was created may fail as well, and its error is dropped.
OpenStreamFails(b) ==
    /\ pc[b] = "open"
    /\ "docker" \in Upsets
    /\ \/ UNCHANGED <<sidecar, blame>>
       \/ sidecar' = sidecar \cup {b} /\ Accuse(b, "leaked")
    /\ Goto(b, "fail")
    /\ UNCHANGED <<dbVars, file, container, job, held, doomed, del, now, lost, byHand>>

\* SaveFile consumed the whole archive.  A storage that writes in place lost
\* it if the file was deleted while it was being written.
SaveFile(b) ==
    /\ pc[b] = "copy"
    /\ file' = IF job[b].storage \in InPlace /\ file[b] = "absent"
               THEN file ELSE [file EXCEPT ![b] = "whole"]
    /\ Goto(b, "closeOk")
    /\ UNCHANGED <<dbVars, dockVars, job, held, doomed, del, now, ghostVars>>

\* SaveFile failed, or tar did (the stream ends early and looks complete to
\* SaveFile; Close reports tar's exit code).
SaveFileFails(b) ==
    /\ pc[b] = "copy"
    /\ {"storage", "docker"} \cap Upsets # {}
    /\ \E left \in {"absent", "partial"} : file' = [file EXCEPT ![b] = left]
    /\ Goto(b, "closeErr")
    /\ UNCHANGED <<dbVars, dockVars, job, held, doomed, del, now, ghostVars>>

\* SaveFile panicked: restore() runs and runBackup's recover logs.  Nothing
\* closes the stream, and no final status is ever saved.
SaveFilePanics(b) ==
    /\ pc[b] = "copy"
    /\ "panic" \in Upsets
    /\ blame' = [blame EXCEPT ![b] = @ \cup {"panicked", "leaked"}]
    /\ Goto(b, "restore")
    /\ UNCHANGED <<dbVars, file, dockVars, job, held, doomed, del, now, lost, byHand>>

\* stream.Close reaps and removes the sidecar; its error joins SaveFile's.
AfterClose(b, removed) == IF pc[b] = "closeOk" /\ removed THEN "complete" ELSE "fail"

CloseStream(b) ==
    /\ pc[b] \in {"closeOk", "closeErr"}
    /\ \/ /\ sidecar' = sidecar \ {b}
          /\ Goto(b, AfterClose(b, TRUE))
          /\ UNCHANGED blame
       \/ /\ "docker" \in Upsets
          /\ Accuse(b, "leaked")
          /\ Goto(b, AfterClose(b, FALSE))
          /\ UNCHANGED sidecar
    /\ UNCHANGED <<dbVars, file, container, job, held, doomed, del, now, lost, byHand>>

\* gorm's Save updates the row and inserts it again when it is gone.
SaveRow(b, status) == row' = [row EXCEPT ![b] = status]

Complete(b) ==
    /\ pc[b] = "complete"
    /\ SaveRow(b, "COMPLETED")
    /\ Goto(b, IF job[b].retention > 0 THEN "retain" ELSE "restore")
    /\ UNCHANGED <<storages, file, dockVars, job, held, doomed, del, now, ghostVars>>

CompleteFails(b) ==
    /\ pc[b] = "complete"
    /\ "db" \in Upsets
    /\ Accuse(b, "unsaved")
    /\ Goto(b, "restore")
    /\ UNCHANGED <<dbVars, file, dockVars, job, held, doomed, del, now, lost, byHand>>

\* finalizeFailed: save FAILED, then delete the partial archive, each at most
\* logged when it fails.
FinalizeFailed(b) ==
    /\ pc[b] = "fail"
    /\ \/ SaveRow(b, "FAILED") /\ UNCHANGED blame
       \/ "db" \in Upsets /\ Accuse(b, "unsaved") /\ UNCHANGED row
    /\ Goto(b, "cleanup")
    /\ UNCHANGED <<storages, file, dockVars, job, held, doomed, del, now, lost, byHand>>

DeletePartial(b) ==
    /\ pc[b] = "cleanup"
    /\ \/ file' = [file EXCEPT ![b] = "absent"] /\ UNCHANGED blame
       \/ "storage" \in Upsets /\ Accuse(b, "kept") /\ UNCHANGED file
    /\ Goto(b, IF b \in held THEN "restore" ELSE "done")
    /\ UNCHANGED <<dbVars, dockVars, job, held, doomed, del, now, lost, byHand>>

\* The deferred restore(): Unpause fails on a container that is not paused,
\* Start fails on one that is paused and does nothing on one that runs.
Revived(mode, state) ==
    IF <<mode, state>> \in {<<"PAUSE", "paused">>, <<"STOP", "stopped">>}
    THEN "running" ELSE state

Restore(b) ==
    LET c == job[b].container
    IN  /\ pc[b] = "restore"
        /\ \/ /\ container' = [container EXCEPT ![c] = Revived(job[b].mode, @)]
              /\ lost' = IF container'[c] = "running" THEN lost \ {c} ELSE lost
           \/ /\ "docker" \in Upsets /\ job[b].mode # "NONE"
              /\ lost' = lost \cup {c}
              /\ UNCHANGED container
        /\ held' = held \ {b}
        /\ Goto(b, "done")
        /\ UNCHANGED <<dbVars, file, sidecar, job, doomed, del, now, blame, byHand>>

----------------------------------------------------------------------------
(* DeleteBackup, executed by a request or by a run's applyRetention.       *)

\* FindByID and GetStorageByID: when the storage row is not there, or is not
\* to be had, the file is skipped.
FindBackup(a, x) ==
    /\ del[a] = None
    /\ row[x] # None
    /\ \/ /\ job[x].storage \in storages
          /\ del' = [del EXCEPT ![a] = [at |-> "file", id |-> x]]
          /\ Accuse(x, "asked")
       \/ /\ job[x].storage \notin storages \/ "db" \in Upsets
          /\ del' = [del EXCEPT ![a] = [at |-> "row", id |-> x]]
          /\ blame' = [blame EXCEPT ![x] = @ \cup {"asked", "kept"}]
    /\ UNCHANGED <<dbVars, file, dockVars, job, pc, held, doomed, now, lost, byHand>>

RequestDelete(q, x) == FindBackup(q, x)

\* The archive goes; a failure is only a warning.
DeleteFile(a) ==
    LET x == del[a].id
    IN  /\ del[a] # None /\ del[a].at = "file"
        /\ \/ /\ file' = [file EXCEPT ![x] = "absent"]
              /\ blame' = [blame EXCEPT ![x] = @ \cup
                              (IF WillWrite(x) THEN {"raced"} ELSE {})]
           \/ /\ "storage" \in Upsets
              /\ Accuse(x, "kept")
              /\ UNCHANGED file
        /\ del' = [del EXCEPT ![a] = [at |-> "row", id |-> x]]
        /\ UNCHANGED <<dbVars, dockVars, job, pc, held, doomed, now, lost, byHand>>

\* The row goes, unless the statement fails; either way the call is over.
DeleteRow(a) ==
    LET x == del[a].id
    IN  /\ del[a] # None /\ del[a].at = "row"
        /\ \/ row' = [row EXCEPT ![x] = None]
           \/ "db" \in Upsets /\ UNCHANGED row
        /\ del' = [del EXCEPT ![a] = None]
        /\ doomed' = [b \in Backups |->
                         IF b = a THEN doomed[b] \ {x} ELSE doomed[b]]
        /\ UNCHANGED <<storages, file, dockVars, job, pc, held, now, ghostVars>>

\* applyRetention: ListOlderThan is read once, whatever the rows' status.
Expired(b) ==
    {x \in Backups : /\ row[x] # None
                     /\ job[x].container = job[b].container
                     /\ job[x].created + job[b].retention < now}

Retain(b) ==
    /\ pc[b] = "retain"
    /\ \/ doomed' = [doomed EXCEPT ![b] = Expired(b)] /\ Goto(b, "prune")
       \/ "db" \in Upsets /\ Goto(b, "restore") /\ UNCHANGED doomed
    /\ UNCHANGED <<dbVars, file, dockVars, job, held, del, now, ghostVars>>

PruneNext(b) ==
    /\ pc[b] = "prune"
    /\ \E x \in doomed[b] : FindBackup(b, x)

\* FindByID fails: the row was deleted by someone else in the meantime.
PruneSkips(b) ==
    /\ pc[b] = "prune"
    /\ del[b] = None
    /\ \E x \in doomed[b] :
          /\ row[x] = None \/ "db" \in Upsets
          /\ doomed' = [doomed EXCEPT ![b] = @ \ {x}]
    /\ UNCHANGED <<dbVars, file, dockVars, job, pc, held, del, now, ghostVars>>

PruneDone(b) ==
    /\ pc[b] = "prune"
    /\ del[b] = None
    /\ doomed[b] = {}
    /\ Goto(b, "restore")
    /\ UNCHANGED <<dbVars, file, dockVars, job, held, doomed, del, now, ghostVars>>

----------------------------------------------------------------------------
(* The environment.                                                        *)

\* DeleteStorage: no backup is registered as a user of its storage, so
\* nothing keeps the row.
DeleteStorage(s) ==
    /\ s \in storages
    /\ storages' = storages \ {s}
    /\ UNCHANGED <<row, file, dockVars, job, runVars, now, ghostVars>>

\* The process ends (crash, or a shutdown, which waits for HTTP handlers
\* only) and is started again; no start-up code looks at unfinished runs.
ProcessRestarts ==
    /\ "exit" \in Upsets
    /\ pc' = [b \in Backups |-> IF Active(b) THEN "killed" ELSE pc[b]]
    /\ held' = {}
    /\ doomed' = [b \in Backups |-> {}]
    /\ del' = [a \in Actors |-> None]
    /\ lost' = lost \cup {job[b].container : b \in held}
    /\ UNCHANGED <<dbVars, file, dockVars, job, now, blame, byHand>>

OperatorStops(c) ==
    /\ "operator" \in Upsets
    /\ container[c] = "running"
    /\ container' = [container EXCEPT ![c] = "stopped"]
    /\ byHand' = byHand \cup {c}
    /\ UNCHANGED <<dbVars, file, sidecar, job, runVars, now, blame, lost>>

OperatorStarts(c) ==
    /\ "operator" \in Upsets
    /\ container[c] = "stopped"
    /\ container' = [container EXCEPT ![c] = "running"]
    /\ byHand' = byHand \ {c}
    /\ lost' = lost \ {c}
    /\ UNCHANGED <<dbVars, file, sidecar, job, runVars, now, blame>>

DayPasses ==
    /\ now < MaxNow
    /\ now' = now + 1
    /\ UNCHANGED <<dbVars, file, dockVars, job, runVars, ghostVars>>

----------------------------------------------------------------------------
Stream(b) ==
    \/ OpenStream(b) \/ OpenStreamFails(b)
    \/ SaveFile(b) \/ SaveFileFails(b) \/ SaveFilePanics(b)
    \/ CloseStream(b)

Retention(b) ==
    \/ Retain(b) \/ PruneNext(b) \/ PruneSkips(b) \/ PruneDone(b)
    \/ DeleteFile(b) \/ DeleteRow(b)

runBackup(b) ==
    \/ Prepare(b) \/ PrepareFails(b)
    \/ Stream(b)
    \/ Complete(b) \/ CompleteFails(b)
    \/ FinalizeFailed(b) \/ DeletePartial(b)
    \/ Retention(b)
    \/ Restore(b)

DeleteBackup(q) ==
    \/ \E x \in Backups : RequestDelete(q, x)
    \/ DeleteFile(q) \/ DeleteRow(q)

Create(b) ==
    \E c \in Containers, s \in Storages, m \in Modes :
        \/ CreateBackup(b, c, s, m)
        \/ \E r \in Retentions : CreateBackupForConfig(b, c, s, m, r)

Environment ==
    \/ \E s \in Storages : DeleteStorage(s)
    \/ ProcessRestarts
    \/ \E c \in Containers : OperatorStops(c) \/ OperatorStarts(c)
    \/ DayPasses

Next ==
    \/ \E b \in Backups : Create(b) \/ runBackup(b)
    \/ \E q \in Requests : DeleteBackup(q)
    \/ Environment

Spec == Init /\ [][Next]_vars

\* A goroutine that can take a step takes one: every call of runBackup is to
\* a local daemon, database or storage and returns; requests, operators and
\* the clock owe nothing.
LiveSpec == Spec /\ \A b \in Backups : WF_vars(runBackup(b))
----------------------------------------------------------------------------
(* Safety.                                                                 *)

\* A row that says COMPLETED names a complete archive, whatever failed on the
\* way, unless its deletion has been asked for (backuper.go:265-281: the
\* status follows the joined errors of SaveFile and Close).
CompletedHasFile ==
    \A b \in Backups :
        row[b] = "COMPLETED" /\ file[b] # "whole" => "asked" \in blame[b]

\* A failed run leaves no bytes behind once it is past finalizeFailed, unless
\* the storage refused the deletion (backuper.go:308).
FailedLeavesNoFile ==
    \A b \in Backups :
        row[b] = "FAILED" /\ pc[b] \in {"restore", "done"} /\ file[b] # "absent"
            => "kept" \in blame[b]

\* An archive without a row is unreachable for ever.  The only ways to get one
\* are a DeleteFile that failed or was skipped, and a DeleteBackup that came
\* while the run was still writing (backuper.go:189-203 against 241-292).
NoOrphanFile ==
    \A b \in Backups :
        row[b] = None /\ file[b] # "absent" => blame[b] \cap {"raced", "kept"} # {}

\* A row says RUNNING only while a goroutine works on it, or because the
\* process died under it, or the Save of its final status failed, or SaveFile
\* panicked: the recover of runBackup only logs (backuper.go:244-248), so the
\* row stays RUNNING in a process that lives on.  No other path forgets it.
RunningHasRun ==
    \A b \in Backups :
        row[b] = "RUNNING" =>
            \/ Active(b)
            \/ pc[b] = "killed"
            \/ "unsaved" \in blame[b]
            \/ "panicked" \in blame[b]

\* A container is down only while a live run still owes it the matching
\* restore(), or because its operator wants it down, or because a Docker call
\* went wrong or died with the process (consistency.go:11-15).  It holds with any
\* number of runs pausing and stopping the same container.
BringsBack(b, c) ==
    /\ b \in held /\ Active(b)
    /\ job[b].container = c
    /\ job[b].mode = IF container[c] = "paused" THEN "PAUSE" ELSE "STOP"

BroughtBack ==
    \A c \in Containers :
        \/ container[c] = "running"
        \/ c \in byHand \cup lost
        \/ \E b \in Backups : BringsBack(b, c)

\* A sidecar exists only while its run streams, or because Docker refused to
\* remove it or the run was cut short (backup.go:30-31).
SidecarReaped ==
    \A b \in sidecar :
        Streaming(b) \/ pc[b] = "killed" \/ "leaked" \in blame[b]

\* Retention deletes rows of the run's own container only, and only on behalf
\* of a run whose own success is on record with its archive in place, unless
\* somebody deletes that very backup meanwhile (backuper.go:277-291).
RetentionSafe ==
    \A b \in Backups : \A x \in doomed[b] :
        /\ job[x].container = job[b].container
        /\ \/ row[b] = "COMPLETED" /\ file[b] = "whole"
           \/ "asked" \in blame[b]

(* Action property.                                                        *)

\* While a run that paused or stopped its container reads the mounts, only
\* the operator or the restore() of ANOTHER run can set the container going;
\* no step of the run itself does (backuper.go:261, the defer).
SnapshotStep ==
    \A b \in held :
        LET c == job[b].container
        IN  /\ job[b].mode # "NONE" /\ Streaming(b) /\ Streaming(b)'
            /\ container[c] # "running" /\ container'[c] = "running"
            => \/ OperatorStarts(c)
               \/ \E o \in (held \ held') \ {b} : job[o].container = c

OnlyOthersWake == [][SnapshotStep]_vars

(* Each backup keeps what BackupCatalogue promises.                        *)

\* How far the run of b is, to somebody who looks at its row and its archive.
RunOf(b) ==
    CASE pc[b] = "idle"                              -> "new"
      [] WillWrite(b)                                -> "writing"
      [] pc[b] \in {"closeOk", "closeErr", "complete", "fail"} -> "written"
      [] pc[b] = "cleanup"                           -> "failing"
      [] OTHER                                       -> "over"

Catalogue(b) == INSTANCE BackupCatalogue WITH
    entry <- row[b], archive <- file[b], run <- RunOf(b),
    marks <- blame[b] \cap {"asked", "raced", "kept"}

\* Whatever runs, deletions, retention and the end of the process do to the
\* backups together, each of them takes a step of BackupCatalogue, or none.
Catalogued ==
    /\ \A b \in Backups : Catalogue(b)!Init
    /\ [][\A b \in Backups : [Catalogue(b)!Next]_(Catalogue(b)!vars)]_vars

(* Liveness, under LiveSpec.                                               *)

\* Every run that was launched returns, however its calls turn out and however
\* many deletions run beside it: retention's loop and the deferred restore
\* included.
RunsEnd == \A b \in Backups : pc[b] = "prepare" ~> pc[b] \in {"done", "killed"}

\* While Docker answers, a container that a run took down is running again
\* later, even if the backup fails (consistency.go:12-14).
ContainerReturns ==
    \A c \in Containers :
        container[c] # "running" /\ c \notin byHand ~> container[c] = "running"

\* No row stays RUNNING, whatever fails on the way (backuper.go:223-292,
\* 308-325), with two exceptions: the Save of its final status failed, or
\* SaveFile panicked, after which nothing writes the row again.
RunningResolves ==
    \A b \in Backups :
        row[b] = "RUNNING" ~>
            \/ row[b] # "RUNNING"
            \/ "unsaved" \in blame[b]
            \/ "panicked" \in blame[b]

----------------------------------------------------------------------------
(* What the repository says of the program and the code does not do.       *)

\* "DeleteBackup removes the record": controller_test.go:70-86 lists no backup
\* after the DELETE answered.
DeletedStaysDeleted ==
    [][\A b \in Backups : pc[b] # "idle" /\ row[b] = None => row'[b] = None]_vars

\* "Pausing or stopping it yields a consistent snapshot", enums.go:11-13.
ConsistentSnapshot ==
    \A b \in Backups :
        Streaming(b) /\ job[b].mode # "NONE"
            => container[job[b].container] # "running"
=============================================================================
