# Dockvol in TLA+

Dockvol backs up the volumes of Docker containers: a Go backend (one process,
SQLite through one connection) with a React client. This directory holds TLA+
models of the backend, the TLC configurations that check them, and proofs of
their main safety properties for TLAPS.

    tlc -config archives.cfg MCVolumeBackup.tla      # any .cfg with its MC module
    tlapm VolumeBackupProofs.tla                     # or another *Proofs.tla

## The system

All paths are under `src/backend/`; `docker/` is `internal/features/docker/`.

| component | state it keeps | operations | what is hard | what makes it correct |
|---|---|---|---|---|
| Backup runs: `docker/backuper.go`, `consistency.go`, `backup.go`, `repository.go` | rows of `volume_backups`, one goroutine per run, archives on storages, containers paused or stopped, tar sidecars | `CreateBackup`, `CreateBackupForConfig`, `runBackup`, `finalizeFailed`, `applyRetention`, `DeleteBackup` | runs overlap each other and deletions; every call can fail; the process can end at any point | rows, archives, containers and sidecars agree at every point |
| Schedules: `docker/scheduler.go`, `config_service.go`, `config_repository.go`, `volume_backup_config.go` | rows of `volume_backup_configs`, next run | tick, `SaveConfig`, `DeleteConfig`, `NextRun` | the tick saves what it read before a slow call | a config is what its owner last saved; a window is run once |
| Restore and download: `docker/restore.go`, `OpenBackup`, `RestoreBackup`, `DownloadBackup` | a restore sidecar, the container's volumes | open, decrypt, extract | archives being saved, removed, cut short or damaged | what is extracted is a whole archive or the call fails |
| S3 storage: `internal/features/storages/models/s3/model.go` | part objects, a manifest, one plain object | save, read, delete | a crash between objects, boundary sizes | the manifest is there only if every part is; deletion leaves nothing |
| Local, NAS, SFTP, FTP, Azure, rclone storages: `.../models/*/model.go` | a file, a temporary file or uncommitted blocks | save, read, delete | copying across devices, partial files under the final name (rclone writes to remotes of both ways), crashes, a source that breaks off | success means a whole archive; what is left over has an owner |
| Stream cipher: `internal/util/encryption/stream_cipher.go` | index, pending chunk | encrypting and decrypting readers | lookahead of one chunk, end marker | a damaged stream fails on reading |
| Field encryption, secret key: `internal/util/encryption/`, `internal/features/encryption/secrets/` | key file, cached key, a row of an earlier version | get, generate, migrate | two first uses at once, the end of the process within the move | the key that sealed something is the key of the file |
| Users: `internal/features/users/` | users, tokens, reset codes, settings | sign up, sign in, OAuth, invite, reset, manage | looking and writing are apart, no unique index | an account per address; a token dies with its password; the root account stays |
| Workspaces, memberships: `internal/features/workspaces/` | workspaces, members and roles | create, delete, add, remove, change role, transfer | several statements without a transaction | an owner stays; a workspace takes its contents along |
| Storages and notifiers as rows: `internal/features/storages/`, `internal/features/notifiers/` (`service.go`) | rows and the settings of their types | save, delete, test, move | rows read, used and saved whole later; settings of an earlier type | what was deleted stays deleted and can be deleted |
| Cache, rate limiter, pub/sub, cancellation: `internal/util/cache/`, `internal/features/tasks/cancellation/` | maps, channels, counters | check, subscribe, publish, close | windows that are forgotten at a restart | the limiter bounds what is counted after it |
| Intervals, senders, email, audit logs, disk, version | little | pure functions, outgoing calls | | |
| Start and shutdown: `cmd/main.go` | | | goroutines are not waited for | |
| Web client: `src/frontend/` | | | | |

The HTTP handlers call the services; the scheduler, in a goroutine of its own,
calls `CreateBackupForConfig`. A run is another goroutine: it calls Docker,
the storage and the database, and shares with the handlers nothing but those.
Since the database has one connection, a statement is atomic; nothing larger is.

## Plan

In order of what matters to somebody whose volumes are in these archives:

1. **VolumeBackup** (done): runs, deletions, retention, containers, sidecars.
2. **NextRun**, **BackupSchedule** (done): `runDueBackups` in its steps against
   `SaveConfig` and `DeleteConfig`; the calendar as a function of its own.
3. **ArchiveStore**, **ChunkedUpload** (done): what a storage promises for one
   name, and the S3 layout shown to keep it: part objects, manifest, `abandon`,
   boundary sizes, deletion, reads, crashes.
4. **FileStores**, **SecretKeys**, **Restores** (done): the other storages, the
   master key, and what composes them: archives sealed, saved, damaged, opened
   and restored; the storages that publish by one call shown to keep ArchiveStore.
5. **Accounts** (done): users, tokens, reset codes, the rate limiter.
6. **Workspaces** (done): memberships, and storages and notifiers as rows.
7. **BackupCatalogue** (done): the abstract promise of VolumeBackup (a backup is
   requested, then available or failed, then gone), shown to be kept by every
   backup, also where something is deleted under a run.

| module | checked by | proved in |
|---|---|---|
| `VolumeBackup`, `BackupCatalogue` | `MCVolumeBackup`: archives, returning, undeleted, overlap | `VolumeBackupProofs`, `CatalogueProofs` |
| `NextRun`, `BackupSchedule` | `MCBackupSchedule`: schedules, advancing, lastword | `BackupScheduleProofs` |
| `ArchiveStore`, `ChunkedUpload` | `MCChunkedUpload`: chunks, leftovers | `ChunkedUploadProofs` |
| `FileStores`, `SecretKeys`, `Restores` | `MCRestores`: restores | `RestoresProofs`, `PublishingProofs` |
| `Accounts` | `MCAccounts`: accounts | `AccountsProofs` |
| `Workspaces` | `MCWorkspaces`: workspaces | `WorkspacesProofs` |

`undeleted`, `overlap`, `lastword` and `leftovers` end in a counterexample: each
checks what a test or a comment says and the code does not keep.

BackupSchedule starts a backup without saying how it ends, VolumeBackup starts
without saying who asked: they meet in `CreateBackupForConfig`, which either
launches a run or fails, and neither module needs to know more. VolumeBackup
sees a storage as a name that is absent, partial or whole; ArchiveStore is the
case without partial archives, ChunkedUpload shows that S3 is one, and Restores
shows that local folders on one filesystem, Azure and those rclone remotes are
that show an object when it is complete (`Publishes`).
Restores extends FileStores and SecretKeys: its archives lie in the one and are
sealed with the keys of the other. Accounts and Workspaces share the names of
users and nothing that changes in both: Workspaces takes the global roles and
settings of Accounts as constants, and which accounts exist as a set that
invitations extend.

Every module also holds faults, above the actions or beside them: definitions as
a plausible bug would have them, which nothing refers to. Put in place of its
original, each makes TLC find one property violated; `PROJECT.json` lists them.

## VolumeBackup

`VolumeBackup.tla` models every step of a backup's life. One action is one
database statement, one Docker call or one storage call of one goroutine.

| variable | in the code |
|---|---|
| `row` | `volume_backups.status`, `None` without a row |
| `storages` | rows of `storages` |
| `file` | the object named `FileName`: absent, partial, whole |
| `container` | the target container, in the Docker daemon |
| `sidecar` | backups whose tar sidecar exists |
| `job` | `backupSpec` and the immutable columns of the row |
| `pc` | where `runBackup` is; `killed` when the process ended under it |
| `held` | runs with a deferred `restore()` |
| `doomed` | what is left of `applyRetention`'s list |
| `del` | the `DeleteBackup` a request or a run is executing |
| `now` | days, up to `MaxNow` |
| `blame`, `lost`, `byHand` | history, read by properties only |

| stage of a run | action | code |
|---|---|---|
| prepare | `Prepare`, `PrepareFails` | `prepareForBackup` |
| open | `OpenStream`, `OpenStreamFails` | `StreamContainerMounts`, `EncryptingReader`, first write of `SaveFile` |
| copy | `SaveFile`, `SaveFileFails`, `SaveFilePanics` | the storage's `SaveFile` reading the stream |
| closeOk, closeErr | `CloseStream` | `mountStream.Close`, `errors.Join` |
| complete | `Complete`, `CompleteFails` | the Save of COMPLETED |
| fail, cleanup | `FinalizeFailed`, `DeletePartial` | `finalizeFailed` |
| retain, prune | `Retain`, `PruneNext`, `PruneSkips`, `PruneDone`, `DeleteFile`, `DeleteRow` | `applyRetention` |
| restore | `Restore` | the deferred `restore()` |

`DeleteBackup` is the same three actions (`FindBackup`, `DeleteFile`,
`DeleteRow`) for a request and for a run's retention. A delete statement on a
row that is gone succeeds, as in SQL; gorm's `Save` inserts a row that is gone.

What a storage does is kept to what the properties need: storages in `InPlace`
(SFTP, FTP, NAS, rclone remotes like them) show the archive under its final name while it is written, and
lose it if that name is deleted meanwhile; the others (local: temporary file and
rename, on one filesystem; S3, Azure: commit at the end; rclone's object stores) show it whole or not at all. What Docker
does is external too: of a stream that ends early, tar's exit code tells at `Close` (one that
breaks off while tar exits with zero is outside the model); pausing needs a running container, stopping a stopped one
succeeds, unpausing one that is not paused fails, starting one that runs does
nothing and starting one that is paused fails.

`Upsets` says which disturbances an instance allows: failing calls of
`docker`, `db` and `storage`, a `panic` in SaveFile, the `exit` and restart of
the process, and an `operator` who stops and starts containers. A Docker call
may report an error and have taken effect. Deleting a storage row is always
allowed.

History variables say what befell a backup, so that a property can name its
exceptions: a deletion was `asked` for; it `raced` with a run that was going to
write; the final status was `unsaved`, since its Save failed; SaveFile
`panicked`, after which no Save is tried; the file was `kept` because a
`DeleteFile` failed or was skipped; a sidecar `leaked`. No action reads them.

### Properties

| property | run | what would break it |
|---|---|---|
| `CompletedHasFile` | archives | trusting SaveFile without the exit code of tar |
| `FailedLeavesNoFile` | archives | finalizeFailed without its DeleteFile |
| `NoOrphanFile` | archives | deleting the row without the file, on any path |
| `RunningHasRun`: RUNNING means a live run, or one that died with the process, whose last Save failed, or whose SaveFile panicked | archives | a return without finalizeFailed |
| `SidecarReaped` | archives | a path that does not close the stream |
| `RetentionSafe` | archives | pruning after a Save that failed |
| `Catalogued` | archives | finalizeFailed without its DeleteFile; deleting the row before the file |
| `BroughtBack` | returning | a return that does not run the deferred restore |
| `ContainerReturns` | returning | a restore that does not match its mode |
| `RunsEnd` | returning | a retention loop that waits for a row that is gone |
| `RunningResolves`: RUNNING ends, unless the last Save failed or SaveFile panicked | returning | a failure path that forgets the row |

`Catalogued` says that every backup, seen through `Catalogue(b)`, behaves as
`BackupCatalogue` allows: `entry` is its row, `archive` its file, `run` how far
its run is (`RunOf`: new, writing, written, failing, over) and `marks` its
history. Every step of a run, a deletion, retention or the process is, for each
backup, one of nine abstract actions or none. The guards of the abstract actions
are the promise: `Succeed` needs a whole archive, `RemoveEntry` an archive that
is gone for good, and after the run is over no action grows anything. A deletion asked for while
the run is going weakens both, and says so by a mark (`asked`, `raced`, `kept`).

`OnlyOthersWake` (no step of a run starts the container it stopped while it
reads the mounts) and `OnlyDeletionsTouchFinished` (once its run is over, a
backup loses its archive and then its row to a deletion that was asked for, and
gets neither back) are proved and have no run of their own.

Two runs show where the code and its own words part; each is a finding in
`PROJECT.json` with the line it contradicts.

* `undeleted`: a backup deleted while its run is going is inserted again by the
  run's final Save.
* `overlap`: two STOP backups of one container overlap, and the first to end
  starts the container under the other. So `BroughtBack` and `OnlyOthersWake`
  speak of the other runs explicitly.

Three more things can be read off the actions. A panic in SaveFile leaves the
row RUNNING for ever in a live process (`SaveFilePanics`): the recover at
`backuper.go:244-248` logs it, the container is started again, and nothing
writes the row or looks for it later; no document says otherwise, so it is an
exception by name in the two properties about RUNNING and not a finding. `consistency.go:12-14` says
the container is brought back even if the backup fails; a shutdown waits for
requests, not for runs (`ProcessRestarts`, `cmd/main.go:155`), so a container
may stay down, which `BroughtBack` allows only for containers in `lost`. And a
STOP backup of a container that was stopped starts it (`CanQuiesce`: stopping a
stopped one succeeds), although `consistency.go:11-12` says that restore undoes what was done.

### Bounds

* archives: one backup in any mode, two requests, an atomic and an in-place
  storage, two days with a retention of one, all six upsets. Two deleters beside
  one run give every order of find, file and row against the run, and a run that
  outlives its own retention prunes itself; the properties speak of one backup
  at a time.
* returning: two overlapping backups of one container, PAUSE and STOP, that
  prune over two days, with failing storages and panics in SaveFile (the one
  way, in this run, for a row to stay RUNNING). A backup is
  past its retention when `created + retention < now`, so two days are the least
  with a victim, and two runs can prune the same row. Small enough for liveness
  (no symmetry), and without the upsets its liveness properties exclude.
* undeleted and overlap need no upset, no retention (`Retentions = {}`) and no
  time (`MaxNow = 0`).

Deadlock is not checked: an installation whose backups have all ended and whose
identifiers are used up has nothing left to do. Symmetry (of backups and of
requests) is used in archives and overlap only.

### Fairness

`LiveSpec` assumes weak fairness of each run as a whole, `runBackup(b)`: a
goroutine that can take a step takes one. The Go scheduler gives that, and the
calls are made to a daemon, a database or a storage that answers, with success
or failure. There are code paths without a timeout (`ContainerWait` in
`reapSidecar`, image pulls); a daemon that never answers is outside these
properties. Nothing is assumed of requests, operators, the clock or the order
of steps of different runs.

The three are checked in one run with the upsets `storage` and `panic`. With
`docker`, `exit` or `operator` a container may stay down for good, with `exit` a
row RUNNING and a run unfinished: what then remains true is said by
`BroughtBack` and `RunningHasRun`, which are checked, and proved, with every
upset.

### Proofs

`VolumeBackupProofs.tla` proves, for every value of the constants that
satisfies `VolumeBackupAssumption`, all the safety properties above and
`TypeOK`. The assumption says that `InPlace`, `Modes` and `Upsets` are subsets
of the known ones, that retentions and the clock's bound are natural numbers,
that backups are not requests and that `None` is not a status.

No property is inductive alone. `IInv` adds to them

* `Typed`: the types; a launched backup has its job; a `restore()` is pending in
  exactly the active runs that got past `prepareForBackup`.
* `RowStage`: the stages of a run in which each status can be on record. Needed
  for `RunningHasRun`: only the last `Save` or a mark ends RUNNING.
* `DelMarked`: a deletion in progress has marked its victim. Needed because
  `DeleteFile` and `DeleteRow` come later than `FindBackup`.
* `NotYetWritten`, `RowlessSettled`, `DeletionSettled`: a row that is gone, or
  about to go, leaves nothing on its storage now or later, or leaves a mark.
  `NoOrphanFile` alone does not survive `DeleteRow`.
* `FileKept`: the archive of a run between `SaveFile` and its success; needed
  for `CompletedHasFile`, which a deletion in that window may break only with a
  mark.
* `DoomedInPrune`: pruning lists are those of runs that are pruning.

`NextCases` reduces a step to one of 25 actions; `TypedStep`, `RowsStep`,
`FilesStep`, `SidecarStep` and `BroughtBackStep` each show that one part of
`IInv` survives each action; `Invariance` puts them together, and the theorems
named after the properties follow. `SnapshotStepHolds` does the same for the
action property.

`CatalogueProofs.tla` proves `Catalogued` (`BackupsCatalogued`). A step is about
one backup, or is the end of the process; the catalogue of any other backup does
not move (`Unseen`). For the one it is about there is a lemma for each kind of
step (`WriteShown` for `SaveFile` and what precedes it, others for the end of a
run, deletions and restarts) which names the abstract action; `EveryStepShown`
collects them. The abstract guards come from four parts of `IInv`: `RowStage`,
`FileKept`, `DelMarked` and `DeletionSettled`. `FinishedBackupsStand` is what the
catalogue then says of a run that is over. The refinement does not speak of
liveness: that runs end is `RunsEnd`.

Only model-checked: the liveness properties and the two counterexamples.

## NextRun and BackupSchedule

`NextRun.tla` is the calendar: a time is a number of ticks since a midnight, an
hour has `Hour` of them, a day `Day`, and the month of a day `MonthLength[d]`
days, so that `AddDate(0, 1, 0)` is an addition that overflows as Go's does.
`NextRunAt(after, plan)` is `NextRun`. A time of day that cannot be parsed is
midnight; an interval without a case (the request is not checked) never moves
on, which is why `NoWindowTwice` below assumes plans with a known interval: with
another one the same window would be attempted on every tick.

`BackupSchedule.tla` is the table, the requests and the scheduler.

| variable | in the code |
|---|---|
| `configs` | rows of `volume_backup_configs`, by id |
| `owner` | the container an id was made for; ids are random and never reused |
| `now` | the clock, up to `Horizon` |
| `tick` | `runDueBackups`: the rows it read, its `now`, the row it works on |
| `calls` | the requests in `SaveConfig` and `DeleteConfig` |
| `tried`, `stuck`, `word`, `overtaken` | history, read by properties only |

| action | code |
|---|---|
| `SaveConfig`, `FindByContainerName`, `SaveEdited`, `SaveEditedFails` | `ConfigService.SaveConfig`: the request, the lookup, `NextRun` and the Save |
| `DeleteConfig`, `FindByID`, `DeleteFound`, `DeleteFoundFails` | `ConfigService.DeleteConfig` |
| `Tick` | the ticker and `FindDue` |
| `StartBackup` | `CreateBackupForConfig`, whose failure is only logged |
| `Advance`, `AdvanceFails` | `NextRun` and the Save at the end of the loop's body |

`Save` is gorm's: UPDATE by id, INSERT when no row was met, refused by the
unique index on the container's name. On INSERT a column with a default takes
the default for Go's zero value, so a schedule created with `isEnabled` false is
stored enabled (`volume_backup_config.go:38`); `Shows` therefore leaves
`is_enabled` out. A page may hold an id that is gone, and may send none. Storage,
mounts, retention, consistency and encryption travel with the row as the plan
does; `last_run_at` is never read.

| property | runs | what would break it |
|---|---|---|
| `WindowsFresh`: a window is attempted once, unless the Save that should have moved on failed or was interrupted | schedules | a next run that is not strictly later; saving the row unmoved |
| `WordKept`: the table shows what the owner last saved or deleted, unless the tick held an older copy of the row when the request took effect | schedules | answering success for a statement that failed |
| `DueIsAdvanced`: a due schedule is moved on, whether or not its backup starts | advancing | leaving the loop's body when the backup fails to start |
| `LastWordStands`: `WordKept` without the exception | lastword (violated) | the code: the tick saves its old copy over a save, and inserts a row that was deleted |

`TypeOK` includes that a container has one schedule, which the unique index
keeps up; without it two editors at once leave two, and deleting one leaves the
other on the list, which breaks `WordKept`. It is proved (`TypeCorrect`) and no run repeats it.

Bounds: days of four ticks and two hours, months of two and one days. `schedules`
has one container, two ids (a deleted schedule and its successor), two editors
at a time (every race of lookup and Save) and an hourly plan, with failing
statements and restarts; a tick can begin before, at and after a due time.
`advancing` has all four intervals over two days: within `Horizon` a backup of
each kind comes due, by the hour, the next day, at the weekly time of day and,
on the last tick, a month after the schedule was saved on either day (the two
months differ in length). A week after a weekly run lies beyond. It has one id,
one editor and no faults (a database that always refuses leaves a schedule due
for ever); its fairness is weak fairness of the scheduler as a whole, which waits
for nothing but the database and Docker. The clock stands still at `Horizon`.
Deadlock is checked.

Proofs (`BackupScheduleProofs.tla`), for every value of the constants that
satisfies `CalendarAssumption` and `ScheduleAssumption`: `TypeOK`, which
includes the uniqueness of a container's schedule; `WordKept`; `WindowsFresh`
for known intervals; and of the calendar, for every argument, plan and sequence
of months, that `NextRunAt` is strictly later (`NextRunIsLater`, known
intervals), on the hour or at the plan's time of day (`NextRunIsOnPlan`), no
further than one interval away (`NextRunIsSoon`) and, for hourly and daily
plans, the first such time after the argument (`NextRunIsFirst`), as
`volume_backup_config.go:48` says. For weekly and monthly plans no day is
recorded to be first of: the day is wherever the last run left it. These rest
on `OneRemainder`: a number has one remainder. The inductive invariant adds `Owned` (a
row, and every copy of it, belongs to the container its id was made for),
`HeldCurrent` (a copy the tick holds is current unless overtaken) and `Past`
(what was tried was due). `DueIsAdvanced` is model-checked only.

## ArchiveStore and ChunkedUpload

`ArchiveStore.tla` is what a storage that publishes archives at once promises
for one name: it holds the whole archive or nothing that can be read; success of
a save means it is there; an error means nothing at all; a read that was opened
on a whole archive may succeed, any other cannot.

`ChunkedUpload.tla` is one archive on S3: one save (backup file names are
unique, so a name is written once), any number of deletions and reads.

| variable | in the code |
|---|---|
| `length` | the stream, in bytes: what the source gives before `io.EOF` or `io.ErrUnexpectedEOF`, which the code takes for the end alike (`model.go:105-109`, 435, 461; only the peek of one byte at 117 takes the latter for an error) |
| `plain`, `parts`, `manifest` | the objects `{name}`, `{name}.partNNNNNN`, `{name}.parts` |
| `uploads` | multiparts that are neither completed nor aborted |
| `stage`, `read`, `count`, `drained`, `list` | `uploadChunked`: where it is, bytes read, `len(parts)`, `sourceEnded`, `manifestParts` |
| `todo` | keys a `removeObjects` has still to remove |
| `del`, `rd` | calls of `DeleteFile`; of `GetFile` with the reading of its answer |
| `leaky`, `hurt` | history: a cleaning call failed or was cut short; something of the archive was removed |

| action | code |
|---|---|
| `SaveFile`, `uploadSingleObject` | the look-ahead, the small layout |
| `NewMultipartUpload`, `PutInnerPart`, `SourceEnds`, `PutEmptyPart` (a source that breaks off between two inner parts), `CompleteMultipartUpload`, `AbortEmptyUpload`, and their failures | the loop of `uploadChunked` |
| `writeManifest`, `writeManifestFails` | its end |
| `Abandon`, `AbortMultipartUpload`, `RemoveKey("saver", k)` | `abandon` |
| `DeleteFile`, `StatManifest`, `GetManifest`, `RemoveKey(d, k)`, `RemoveObject` | `DeleteFile` |
| `GetFile`, `readManifest`, `GetObject`, `ReadObject` | `GetFile` |
| `ReadPart`, `ReadPartFails`, `ReadEnds` | `reassemblingReader` |
| `BucketLoses` | lifecycle rules and damage, the cases `model.go:663-666` names |

Content is a range of offsets of the stream, or `Damaged`; size and checksum of
two pieces agree when the pieces are the same. Every call to the bucket may fail
before or after it took effect; a bulk removal takes its keys in any order and
fails for each on its own. The bucket is strongly consistent and shows an object
only when it is complete. It loses objects only when the save is over; that it
might do so earlier would make a save succeed with a part missing, which no
client could notice. The plain object has no checksum of its own, so only its
disappearance is modelled.

| property | what would break it |
|---|---|
| `ReadsWhole`: a read that ends well handed on the whole stream | taking a missing part for the end |
| `SavedReadable`: what a successful save stored can be read, at every length | dropping a last object with data |
| `PartsAccounted`: parts and multiparts can be found by somebody who will remove them, unless a cleaning call failed or was cut short | `abandon` without its removals |
| `Implements`: ArchiveStore | a reader that does not compare |
| `SaveEnds`: a save that has begun ends | going on after an empty object |
| `Reclaimed`: after a late deletion nothing is left | the code (run `leftovers`): the process ends after a part object; the later `DeleteFile` finds no manifest, removes the absent plain object and answers success, and the part stays. `model.go:393-396` counts on retention to reclaim it |

The mapping onto ArchiveStore (`Store`): the name is whole when a read opened
now would find everything the manifest lists (`Stored`); a save is busy until
`abandon` is done; a read is opened when it has its manifest or its object.

Bounds: inner parts of two bytes, two to an object, streams of 0 to 5 bytes:
empty, within one inner part, exactly one, ending within and on the boundary of
the first object (4), and one byte into the second. One reader suffices, since
readers do not meet; two deleters do (through `todo`). `chunks` allows every
upset at once. Deadlock is not checked: a save that is over and reads that ended
leave nothing to do. A stream of 4 bytes may also break off where the second object
would begin, which becomes an empty object. Whether what the source gave is all it should have
given is not the storage's to know: a backup asks tar for its exit code.
Fairness is weak fairness of the save: its goroutine runs,
and a call to the bucket returns (the client has connect and response timeouts).

Proofs (`ChunkedUploadProofs.tla`), for every `PartSize`, `MaxParts`,
`MaxLength`, and every set of readers and deleters: `TypeOK`, `ReadsWhole`,
`SavedReadable`, `PartsAccounted`, and `Implementation`: Spec => Store!Spec; of
these `TypeOK` has no run of its own. `IInv`
adds to the properties

* `Layout`: what `list` covers and what is still to be uploaded at each stage;
  an empty object is met only when everything is in `list`.
* `Published`: plain object or manifest, never both, and only when the save will
  not add to the archive.
* `ReadsSound`: a read goes by the save's list and has checked what it handed
  on; one opened when something was missing has yet to come to it.
* `Kept`: parts stay until the save is over or cleans up.
* `Counted`: who removes the manifest also holds the keys of the parts.

`PartsDecay` (a part that is not as it was uploaded stays so) is what makes a
read safe without a lock. `SaveEnds` is model-checked only; `Reclaimed` is a
counterexample.

## FileStores, SecretKeys and Restores

`Restores.tla` follows an archive from the backup that seals it to the restore
that reads it. It extends two modules that keep to themselves: `FileStores.tla`,
the six storages that keep an archive as a file, and `SecretKeys.tla`, the
master key.

| variable | in the code |
|---|---|
| `kind` | the storage: `local`, `split` (a local folder whose temporary folder is on another filesystem), `nas`, `sftp`, `ftp`, `azure`; `rclone`, a remote that shows an object when it is complete, and `rcloneDisk`, one that writes the final name at once (local, SFTP, FTP, SMB) |
| `content`, `named` | the file under the name, and whether the name still leads to it |
| `aside` | the temporary file, or what the server keeps until the upload is complete |
| `save`, `deletion` | where `SaveFile` is; what the last `DeleteFile` was answered |
| `dbKey`, `keyFile`, `cachedKey` | the row of `secret_keys`, the file, `SecretKeyService.cachedKey` |
| `boot` | where the start of the process is: the move of the key, then up |
| `call`, `keyOf` | a call of `GetSecretKey` and the key it has in hand |
| `sealedWith`, `field` | the key an archive or a field was encrypted with; how reading the field went |
| `reader` | `OpenBackup` and its caller: stage, header, chunks read, the chunk held back, the index, what went into the sidecar |
| `sidecar` | the tar sidecar of a restore |
| `uncleaned` | history: this process could not empty the temporary folder when it started |
| `upset` | history: first uses of the key overlapped, or a write of the file broke off |

| action | code |
|---|---|
| `CreateTempFile`, `WriteTempFile`, `CloseTempFile`, `Rename`, `CreateDestination`, `CopyToDestination`, `RemoveSource` | `SaveFile` of the local storage and `moveFile` |
| `CreateUnderName`, `WriteUnderName`, `EndUnderName` | `SaveFile` of NAS, SFTP, FTP and `rcloneDisk`, which write under the final name |
| `CreateAside`, `WriteAside`, `PublishAside` | `SaveFile` of Azure (blocks, then the commit) and `rclone` |
| `SaveFails`, `CommitFails` | its errors; the last call may have taken effect and be answered with an error |
| `SourceBreaksOff` | `io.ErrUnexpectedEOF` of the source, which NAS, Azure and rclone take for its end: the save is `cut`, and answered with success |
| `Missing`, `Unlink`, `StatFails`, `DeleteFails` | `DeleteFile`; a Stat that fails for any reason passes for a missing file on NAS, SFTP and FTP |
| `CheckForKeyInDb`, `OpenMigratedFile`, `WriteMigratedKey`, `DeleteKeyFromDb` | `MigrateKeyFromDbToFileIfExist` |
| `UseCachedKey`, `ReadKeyFile`, `CacheReadKey`, `MissKeyFile`, `OpenKeyFile`, `WriteKeyFile` | `GetSecretKey` |
| `AskForSealing`, `EncryptingReader`, `SealAndSave` | `streamToStorage` of an encrypted or a plain backup |
| `AskForField`, `EncryptField`, `DecryptField` | the field encryptor |
| `OpenBackup`, `AskForOpening`, `DecryptingReader` | `OpenBackup` |
| `CreateSidecar`, `CloseWrite`, `ContainerWait` | `RestoreContainerMounts` |
| `Prime`, `openNextChunk`, `CopyChunk` | the reader of `stream_cipher.go`, and `io.Copy` into the sidecar |
| `DownloadEnds`, `RestoreFails` | `DownloadBackup`; an error anywhere, or a client that goes away |
| `DamageFile`, `Restart` | a file exchanged for another content; the end and new start of the process, which empties the temporary folder, or starts all the same with what it could not remove (`main.go:207-210`) |

A chunk is the archive it belongs to, its index and the flag of the last one; it
opens when all three and the key are those it was sealed with. That is what
AES-GCM, assumed sound, makes of nonce and additional data in
`chunkNonceAndAAD`, and all of it is needed: an index that is not authenticated
lets chunks be exchanged, a flag that is not lets the tail be cut. An archive
that is not encrypted has no such protection and relies on `tar`, which ignores
what follows its end marker: `RestoredWhole` and `GotInOrder` speak of encrypted
archives. A file that is unlinked while somebody has it open is read to its end,
so the reader's archive does not shrink under it; one that is still being written
in place may grow under it.

| property | what would break it |
|---|---|
| `WordKept`: success of a save means a whole archive under the name until a deletion, unless the source broke off; success of a deletion means nothing there | reporting success for a stream that ended early |
| `LeftoversAccounted`: a partial file lies under a name only in the kinds that write in place, or where the local folder has to be copied, while or after a save that did not end well, or of a source that broke off; a temporary file is of this process, or of an earlier one if the folder could not be emptied; a sidecar is of a restore under way, or of one that failed or died | copying every archive under its name |
| `MigrationKeepsKey`: at every point of the move the old key is in the database or in the file | deleting the row before the file is written |
| `KeyLasts`: what is sealed opens with the key of the file, now and after a restart, unless `upset` | generating a key for every error of the read |
| `GotInOrder`: what is read of an encrypted archive is the beginning of one archive | an index that is not authenticated |
| `RestoredWhole`: a restore answered with success wrote one whole archive | an end that is not authenticated |
| `Publishes`: every step of a publishing storage and its readers is one of ArchiveStore, or none | copying an archive under its name |

`Publishes` is a refinement. A storage publishes an archive (`Publishing`) when it
grows aside and appears by one call: a local folder with its temporary folder on
the same filesystem, Azure, and the rclone remotes that show an object when its
upload has ended. rclone links every backend (`rclone/model.go:15`) and `Rcat` streams
(`:64`), so remotes that write the final name are a kind of their own and count with
those in place. For each archive of a publishing storage the name is whole
when the whole archive is there (`Under`), the save is busy from the sealing to
its end (`Saver`), and a read is sound from `OpenBackup` on and whole when its
request ended well with every chunk (`Seen`), whatever was deleted meanwhile. The
storages that write in place promise less: a reader may open what is still
growing, which for an archive that is not encrypted nothing tells it. An Azure
commit, or an upload of rclone, that takes effect and is answered with an error
leaves a whole archive nobody counts on, which ArchiveStore does not know either:
`FailSave` may leave it there.

`cut` names the exception of `WordKept` and `Publishes`: NAS (`nas/model.go:482-528`),
Azure (`azure_blob/model.go:102-134`) and rclone take `io.ErrUnexpectedEOF` of the source for its
end and answer success for what they got. It takes a plain archive: the
encrypting reader takes the error for the end itself and seals what it has
(`stream_cipher.go:140-144`), so what these storages then get is a stream that ends. A
backup does not go by SaveFile's answer alone but asks tar (see VolumeBackup).

`upset` names the exception of `KeyLasts`: two first uses of the key at once, or a
process that ends while the file is written, may leave archives sealed with a key
that is nowhere. The code has no lock there and promises none: the property is about errors
of the read, restarts and copies in memory, not about that race.

`WordKept` grants a storage that its Stat reached the server: where it did not
(`StatFails`), SFTP, FTP and NAS answer success and the archive stays. A deletion
that was answered with an error may have taken effect on a server.

`RestoredWhole` needs less of the cipher than a download does: tar asks for a whole
archive of its own (`TarContent`), so it is the order and the origin of the chunks that a
restore relies on; the flag of the last one is what tells a download, which is also answered
by these steps, that the tail is missing.

Bounds: archives of two chunks, two of them encrypted, so that
every exchange, repetition, loss and appendage shows; a damaged file is any
sequence of up to three chunks of any archive or of nobody, under the header of
any archive or none. One file is damaged in a behaviour and one reader reads: readers
share nothing but the key, and the callers of the key are all there. Which storages, requests and
faults meet is a `load`, chosen at the beginning of a behaviour: every storage
with saves, deletions, faults and restarts; two archives and a first use of the
key with restarts, from a new installation and from one to be migrated; a field
beside an archive; damage; a restore beside deletions in a storage of either
way of writing; an archive that is not encrypted, in storages that take a source
that breaks off for one that has ended and in one that does not. Deadlock is not checked: when
everything was saved and read nothing is left to do.

Proofs (`RestoresProofs.tla`), for every set of archives, fields, readers and
callers, every length, every damage and every set of loads: the invariants, and that the
variables keep their types (`TypeCorrect`), which no run repeats.
`IInv` has three parts, which meet only in the key a reader has and the archive
it reads:

* `Stored`: what is under the name and aside at each stage of a save (`Held`),
  and what a deletion said of it (`Told`).
* `Moved` and `Shared`: where the key is at each stage of the move and of
  `GetSecretKey`; while nothing is upset, one caller writes the file before
  anybody has a key, and then all have the key of the file.
* `Readers`: a reader of an encrypted archive has read the chunks 1 to `index - 1`
  of the archive its header names (`Read`), all of them once it is past the last.

`PublishingProofs.tla` proves `Publishes`. `IInv` does not say that a reader has
the archive it opened and not another, since with damage it may not: `Copied`
adds it for the publishing storages, where nothing is damaged. The rest goes
through the steps: `FileCallSeen` for what a storage does, `SealingSeen` for the
keys, `RestoreSeen` for readers, `RestartSeen` for the end of the process.

## Accounts

`Accounts.tla` models the requests about users. A request first looks (one step:
it is authenticated, and reads the rows its checks need) and then writes, one
step for each statement; other requests step in anywhere between. `req[r]` holds
what the request has still to write and what it decided on.

| variable | in the code |
|---|---|
| `email`, `status`, `role`, `password`, `stamp`, `linked` | columns of `users`; `stamp` is `password_creation_time`, in whole seconds |
| `settings` | the row of `users_settings` |
| `codes` | rows of `password_reset_codes` |
| `tokens` | JWTs handed out: the user, the stamp they carry, when they were made |
| `window` | `RateLimiter.windows` of the reset endpoint, forgotten by a restart |
| `req`, `now`, `load` | requests, the clock, the endpoints called in this behaviour |
| `setAt`, `takenBy`, `linkedBy`, `spentBy` | history: when a password was set, which request gave an account its address or its identity, which set a password by a code |
| `overtaken` | history: requests between the look they decided on a status by and the write, when another wrote the status or the role of that account |

The looks are `SignUp`, `HandleOAuth`, `InviteUser`, `UpdateUserInfo`,
`ChangePassword`, `SetRootAdminPassword`, `ChangeUserPasswordByEmail` (command
line), `SendResetPasswordCode`, `ResetPassword`, `ChangeUserStatus` and
`ChangeUserRole`, named as in the services; the statements are `Create`,
`UpdateUserPassword`, `UpdateUserStatus`, `LinkOAuthID`, `Issue` (the token),
`SetEmail`, `UpdateUserRole`, `CreateResetCode` and `MarkCodeAsUsed`. `SignIn`,
`SignInByOAuth` and `UpdateSettings` are one step. `Fails` breaks a request off
before any statement, `Restart` ends them all. `GetUserByEmail` on two rows with one address returns
either of them.

| property | what would break it |
|---|---|
| `RootStands`: the root account stays an active administrator called `admin`, and nobody else is called so | a check of only one direction of a role change |
| `StaleTokenRejected`: a token made before the second in which the password was last set is refused | a path that sets the hash without the time |
| `InvitedHoldsNoToken`: no token for an account that is still only invited | linking and issuing before activating |
| `OneAccountPerAddress`, `OneAccountPerIdentity`: twice the same only by requests that overlapped | a path that does not look the address, or the identity, up |
| `CodeSpentOnce`: a code sets one password, or one for each request that had read it before it was marked | a code that is not marked |
| `CodesBounded`: codes exceed their limit by the requests that were past the check together, at most | a count that passes at the limit |
| `StatusAsDecided`: a status changes from INVITED by its owner's arrival, or by an administrator who may, or by a request that was overtaken | an OAuth callback that activates whatever account it finds |

The exceptions are what the code's two steps allow: there is no unique index, so
two sign-ups at once make two accounts of one address. A deactivation that
happens between a look and a later `UpdateUserStatus` is overwritten by it: this
is what `overtaken` is for. `StatusAsDecided` says that it is the only way for a
deactivated account to become active but an administrator's decision.

Bounds: the root account and two others, two addresses, one identity, two
requests at a time: every pair of requests meets in every order of their
statements. Eight loads bring together the endpoints that write the same columns;
all at once would be too many. Hours are two seconds and two codes an hour are
allowed, by the limiter (per address, a fixed window that its first request
opens) as by the count of the codes of the last hour (per account). The two get out of step when
the process restarts, or when a window ends while a code of it still counts;
`CodesBounded` meets both, each with two requests that pass the count together
and leave one code more than the limit, in the loads with a restart and with a clock up to
4. Codes are spent in a load of its own whose clock stands still (a code that
expires between its being read and being marked is treated like any other), and
so does the clock of the load with role changes, which ask for no time;
the other loads have the two instants in which a token can be older than its
password. A reset request names an address, which `admin` is not. Accounts,
addresses and requests are symmetric; a new code takes the first free id, since
ids say nothing of a code. Deadlock is not checked: identifiers may be used up.

Proofs (`AccountsProofs.tla`): `TypeOK`, all the properties, and
`PromotedByRoot` (nobody becomes an administrator but by the root account's
request), for any number of accounts and any finite number of requests
(`RequestsAssumption`: requests in progress are finitely many, and `CodesBounded`
counts them). `IInv` adds `Intent`, what a request may rely on between its look
and its last statement (for instance: who is about to take an address has not
taken it already; a promotion was asked for by the root account; a code about to
be spent was not spent by this request), `TokensDated` (the stamp a token
carries is not later than its making) and `SpentIsUsed`. Two properties have an
invariant of their own, shown inductive on top of `IInv`:

* `CodesReserved`, for `CodesBounded`: the codes of the last hour *and the
  requests that are past the count* (`Asking`) are together fewer than the limit
  and the requests. A look that passes the check adds a place, `CreateResetCode`
  turns a place into a code; `CodesBounded` alone does not survive the latter.
  That the codes made so far are a finite set is part of it.
* `Decided`, for `StatusAsDecided`: what a request decided on in its look still
  holds of the row it will write, unless it is overtaken.

## Workspaces

`Workspaces.tla` models memberships, and storages and notifiers as rows of a
workspace, in the same two kinds of step.

| variable | in the code |
|---|---|
| `known` | rows of `users`, extended by invitations |
| `space`, `member` | rows of `workspaces` and `workspace_memberships` |
| `item` | rows of `storages` and `notifiers`: workspace, type, and the types (`parts`) of which there is a row of settings, which refers to the item by a foreign key |
| `req`, `held` | requests: what is still to be written, and the rows read that will be saved or deleted |
| `used`, `load` | identifiers handed out; the endpoints called |
| `joinedBy`, `founded`, `excused`, `saved`, `mixed`, `blessed`, `deleted`, `gone` | history; `deleted` also tells a storage that is gone from one that is new |

Looks: `CreateWorkspace`, `AddMember`, `ChangeMemberRole`, `RemoveMember`,
`TransferOwnership`, `UpdateWorkspace`, `DeleteWorkspace`, `SaveStorage`,
`SaveNotifier`, `Delete`, `Test` and `Transfer` of either. Statements: `MakeSpace`,
`Invite`, `CreateMembership`, `GetWorkspaceOwner`, `UpdateMemberRole`, `Remove`,
`Rename`, `SaveStorageRow`, `SaveNotifierRow`, `DeleteItem`, and for the deletion
of a workspace `ListNotifiers`, `ClearListed`, `ListStorages`, `ClearListed`,
`DropSpace`, in the order in which the listeners are registered. A transfer
promotes, then demotes; either may fail (`Fails`). A Save writes the whole row as
it was read; that of a storage does not insert what is gone, that of a notifier
does, for the order of its two statements. The Save of a new storage inserts every
settings object the request carries, since `Omit` comes after `Create` and has no effect
(`storages/repository.go:52-57`), and the form of the client leaves those of a NAS in it
(`EditStorageComponent.tsx:85-93`): `SaveStorage` creates an item with any `more`
settings. Those of a notifier are saved for its type only. The settings of a Teams notifier
(`Teams`) go with its row (`notifiers/model.go:31`); those of any other type the database
refuses to leave behind (`CanDelete`).

| property | what would break it |
|---|---|
| `OneMembership`: an account is twice a member only by requests that overlapped | not looking for a membership |
| `OwnerStands`: a workspace keeps an owner wherever a transfer breaks off, unless requests about its members overlapped or an owner succeeded himself | demoting before promoting |
| `NothingOldLeft`: what is left of a workspace when its row is deleted was saved there after its kind was listed | passing over an item that cannot be deleted |
| `Removable`: an item that no request gave settings of several types (`mixed`) can be deleted, whatever stale rows were saved over it | settings saved for more than the type |
| `RcloneByAdmin`: an rclone storage was made one by an administrator | a check on creation only |
| `BackByOverlap`: no storage comes back after its deletion; a notifier or a workspace only by a request that was in progress then | inserting the storage's row before its settings |

The exceptions are reachable: two transfers at once, or an owner named as the
successor of himself (who is promoted, then demoted), leave a workspace without
an owner; a changed type leaves the settings of the old one, a new storage may be
posted with settings of two types, and the item can then not be deleted.

Bounds: an administrator, two members (one of them invited on the way), three memberships, two
workspaces, one storage, one notifier, two types (one of them is rclone's for the storage and
Teams' for the notifier), two requests at a time. Three
rows show a second membership and a transfer; two workspaces a move. Loads as
above. Deadlock is not checked.

Proofs (`WorkspacesProofs.tla`), for any number of everything: all the
properties, and `TypeOK`, which no run repeats. `MembersInv` (`MemberIntent`:
what a request relies on; `Alone`: who overlaps is excused; `OneRow`) and `ItemsInv` (`Uniform`: all copies of an item
that is not `mixed` have one type; `Blessed`; `LateSave` and `LateRename`: who can still bring
something back was in progress; `Listing`: what a deletion must find is on its
list or was saved since) do not depend on one another and are shown inductive apart.

## What stays with TLC

The liveness properties (`ContainerReturns`, `RunsEnd`, `RunningResolves`,
`DueIsAdvanced`, `SaveEnds`): TLAPS does not handle fairness and `ENABLED`.
The four counterexamples. Every invariant, action property and refinement that a
run checks is also proved. What recursion over data computes for every input is
out of the provers' reach too; no module here needs it.

## Not modelled

* **rclone's configuration**: `getFs` sets the keys of a remote in a
  configuration shared by section name and clears none, so two storages with one
  section name may disturb each other; the model has a remote as it was configured.
* **Intervals** (`internal/features/intervals`): a calendar nothing calls;
  schedules use `NextRun`.
* **Cache, publish/subscribe, task cancellation**: constructed and tested, and
  called by no code of the backend. The rate limiter is in Accounts.
* **Senders of notifications, email, audit logs, disk usage, version**: outgoing
  calls and logs no decision depends on. Rows of notifiers are in Workspaces.
* **The database**: a statement is one atomic action; SQLite has one connection.
* **Docker, tar, AES-GCM, S3 and the storage protocols**: external, modelled by what the
  code relies on.
* **RestoreBackup into a container that was recreated** fails when the sidecar is
  created, whose `VolumesFrom` is the recorded id; nothing is written. A truncated `DownloadBackup` has
  already answered 200: Restores has the stream end with a failure and no status.
* **Lists and summaries** (`ListBackups`, `GetContainerBackupSummaries`, profiles,
  members): they change no state a property speaks of. The same holds of the
  bytes, sizes and durations of an archive.
* **HTTP routes, the flags of the command line but the password, the web client**.
