------------------------------ MODULE Restores -------------------------------
(****************************************************************************)
(* An archive from the backup that seals it to the restore that reads it:   *)
(* streamToStorage, OpenBackup, RestoreBackup and DownloadBackup            *)
(* (features/docker), the chunked AES-GCM stream (util/encryption), the     *)
(* storage the archive lies in (FileStores) and the master key it is sealed *)
(* with (SecretKeys), which also seals the secret fields of the storages.   *)
(*                                                                          *)
(* A chunk opens when the key, the header's salt, the index and the flag of *)
(* the last chunk are those it was sealed with: that is what AES-GCM, taken *)
(* to be sound, makes of chunkNonceAndAAD and newGCM.                       *)
(****************************************************************************)
EXTENDS FileStores, SecretKeys

CONSTANTS
    Encrypted,  \* the archives of backups with IsEncrypted
    Fields,     \* secret columns of storages and notifiers
    Restorers,  \* requests that restore or download an archive
    Damages,    \* contents a damaged file may have
    Loads       \* what meets in a behaviour: storages, requests, faults

ASSUME ArchivesAssumption == Encrypted \subseteq Archives
ASSUME CallersAssumption == Archives \cup Restorers \cup Fields \subseteq Callers
ASSUME FieldsAssumption == Fields \cap (Archives \cup Restorers) = {}
ASSUME DamagesAssumption == Damages \subseteq File

VARIABLES
    load,       \* the load of this behaviour
    sealedWith, \* the master key each archive and field is encrypted with
    field,      \* a field: given, encrypted, and how decrypting it went last
    reader,     \* a request that reads an archive
    sidecar     \* the restore sidecar of each request
restoreVars == <<load, sealedWith, field, reader, sidecar>>
vars == <<fileVars, keyVars, restoreVars>>

Reading == {"opened", "keyed", "attached", "primed", "decrypted", "closed"}
Ended == {"ok", "failed", "died"}

(* A request: the archive, its header, the chunks read so far, the chunk    *)
(* held back, the index of the cipher and what went into the sidecar.       *)
Reader == [stage : {"idle"} \cup Reading \cup Ended,
           via : {"restore", "download"},
           archive : Archives \cup {None},
           head : Archives \cup {None},
           at : Nat,
           pending : Chunk \cup {Foreign, None},
           index : 1..Length + 1,
           got : Seq(Chunk \cup {Foreign})]

(* Types of every variable.                                                 *)
TypeOK ==
    /\ FilesTypeOK
    /\ KeysTypeOK
    /\ load \in Loads
    /\ sealedWith \in [Archives \cup Fields -> AnyKey \cup {NoKey}]
    /\ field \in [Fields -> {"new", "sealed", "read", "lost"}]
    /\ reader \in [Restorers -> Reader]
    /\ sidecar \in [Restorers -> {"none", "running", "left"}]

NewReader(a) ==
    [stage |-> "idle", via |-> "restore", archive |-> a, head |-> None,
     at |-> 0, pending |-> None, index |-> 1, got |-> <<>>]

Init ==
    /\ load \in Loads
    /\ FilesInit /\ kind \in load
    /\ KeysInit /\ (dbKey = OldKey <=> "upgrade" \in load)
    /\ sealedWith = [s \in Archives \cup Fields |-> NoKey]
    /\ field = [f \in Fields |-> "new"]
    /\ reader = [r \in Restorers |-> NewReader(None)]
    /\ sidecar = [r \in Restorers |-> "none"]

(* The caller goes on with the key it was answered.                         *)
Spend(c) ==
    /\ call' = [call EXCEPT ![c] = "idle"]
    /\ keyOf' = [keyOf EXCEPT ![c] = NoKey]
    /\ UNCHANGED <<dbKey, keyFile, cachedKey, boot, upset>>

----------------------------------------------------------------------------
(* Backups.                                                                 *)

(* EncryptingReader, before the storage is asked to save.                   *)
EncryptingReader(a) ==
    /\ a \in Encrypted
    /\ save[a] = "new" /\ sealedWith[a] = NoKey
    /\ call[a] = "got"
    /\ sealedWith' = [sealedWith EXCEPT ![a] = keyOf[a]]
    /\ Spend(a)
    /\ UNCHANGED <<fileVars, load, field, reader, sidecar>>

(* A backup asks for the key if it encrypts, and has it before it saves.    *)
NeedsKey(a) == a \in Encrypted /\ sealedWith[a] = NoKey /\ save[a] = "new"

AskForSealing(a) ==
    /\ NeedsKey(a)
    /\ GetSecretKey(a)
    /\ UNCHANGED <<fileVars, restoreVars>>

SealAndSave(a) ==
    /\ boot = "up" /\ ~NeedsKey(a)
    /\ SaveFile(a)
    /\ UNCHANGED <<keyVars, restoreVars>>

(* A source that breaks off ends an encrypted archive, of the length it has *)
(* then: EncryptingReader takes io.ErrUnexpectedEOF for the end, whatever   *)
(* the storage does.                                                        *)
BackupFails(a) ==
    /\ boot = "up" /\ ~NeedsKey(a)
    /\ SaveFails(a) \/ CommitFails(a) \/ (a \notin Encrypted /\ SourceBreaksOff(a))
    /\ UNCHANGED <<keyVars, restoreVars>>

Delete(a) ==
    /\ boot = "up"
    /\ DeleteFile(a) \/ ("fault" \in load /\ DeleteFails(a))
    /\ UNCHANGED <<keyVars, restoreVars>>

----------------------------------------------------------------------------
(* The secret fields: Encrypt when a row is saved, Decrypt at every         *)
(* connection.  A key that was read before it was written is too short for  *)
(* the cipher, and the request ends.                                        *)
AskForField(f) ==
    /\ field[f] # "lost"
    /\ GetSecretKey(f)
    /\ UNCHANGED <<fileVars, restoreVars>>

EncryptField(f) ==
    /\ field[f] = "new"
    /\ call[f] = "got" /\ keyOf[f] # Torn
    /\ sealedWith' = [sealedWith EXCEPT ![f] = keyOf[f]]
    /\ field' = [field EXCEPT ![f] = "sealed"]
    /\ Spend(f)
    /\ UNCHANGED <<fileVars, load, reader, sidecar>>

DecryptField(f) ==
    /\ field[f] \in {"sealed", "read"}
    /\ call[f] = "got"
    /\ field' = [field EXCEPT ![f] = IF keyOf[f] = sealedWith[f] THEN "read" ELSE "lost"]
    /\ Spend(f)
    /\ UNCHANGED <<fileVars, load, sealedWith, reader, sidecar>>

----------------------------------------------------------------------------
(* Restores and downloads.                                                  *)
Set(r, record) == reader' = [reader EXCEPT ![r] = record]
Goto(r, stage) == Set(r, [reader[r] EXCEPT !.stage = stage])

(* The file behind an open handle.                                          *)
Opened(r) == content[reader[r].archive].chunks

(* A sidecar the request created is removed when it ends, whatever the      *)
(* daemon answers.                                                          *)
RemoveSidecar(r) ==
    sidecar' \in {[sidecar EXCEPT ![r] = after] :
                     after \in IF sidecar[r] = "running"
                               THEN {"none"} \cup (IF "fault" \in load THEN {"left"} ELSE {})
                               ELSE {sidecar[r]}}

End(r, stage) ==
    /\ Goto(r, stage)
    /\ RemoveSidecar(r)
    /\ UNCHANGED <<fileVars, keyVars, load, sealedWith, field>>

(* OpenBackup asks for the file whatever the status of the backup, and of   *)
(* an encrypted one it reads the header.                                    *)
OpenBackup(r) ==
    \E a \in Archives, via \in load \cap {"restore", "download"} :
        /\ boot = "up"
        /\ reader[r].stage = "idle"
        /\ GetFile(a)
        /\ Set(r, [NewReader(a) EXCEPT
                      !.stage = IF a \in Encrypted /\ content[a].head = None
                                THEN "failed"
                                ELSE IF a \in Encrypted THEN "opened" ELSE "keyed",
                      !.via = via,
                      !.head = content[a].head])
        /\ UNCHANGED <<fileVars, keyVars, load, sealedWith, field, sidecar>>

(* newGCM takes the master key.                                             *)
AskForOpening(r) ==
    /\ reader[r].stage = "opened"
    /\ GetSecretKey(r)
    /\ UNCHANGED <<fileVars, restoreVars>>

DecryptingReader(r) ==
    /\ reader[r].stage = "opened"
    /\ call[r] = "got"
    /\ Goto(r, "keyed")
    /\ UNCHANGED <<fileVars, keyVars, load, sealedWith, field, sidecar>>

(* A restore runs tar in a sidecar with the target's volumes; the container *)
(* is the one the backup was taken of.                                      *)
CreateSidecar(r) ==
    /\ reader[r].stage = "keyed"
    /\ Goto(r, "attached")
    /\ sidecar' = IF reader[r].via = "restore"
                  THEN [sidecar EXCEPT ![r] = "running"] ELSE sidecar
    /\ UNCHANGED <<fileVars, keyVars, load, sealedWith, field>>

IsDecrypted(r) == reader[r].archive \in Encrypted

(* The first chunk is read and held back.                                   *)
Prime(r) ==
    /\ reader[r].stage = "attached"
    /\ IsDecrypted(r)
    /\ IF Opened(r) = <<>>
       THEN End(r, "failed")
       ELSE /\ Set(r, [reader[r] EXCEPT !.stage = "primed", !.at = 1, !.pending = Opened(r)[1]])
            /\ UNCHANGED <<fileVars, keyVars, load, sealedWith, field, sidecar>>

(* Mutant: the index is not authenticated.                                  *)
OpensAnyIndex(r, chunk, isLast) ==
    /\ chunk # Foreign
    /\ chunk.stream = reader[r].head
    /\ keyOf[r] = sealedWith[chunk.stream]
    /\ chunk.last = isLast

(* Mutant: the end of the stream is not authenticated.                      *)
OpensAnyEnd(r, chunk, isLast) ==
    /\ chunk # Foreign
    /\ chunk.stream = reader[r].head
    /\ keyOf[r] = sealedWith[chunk.stream]
    /\ chunk.index = reader[r].index

Opens(r, chunk, isLast) ==
    /\ chunk # Foreign
    /\ chunk.stream = reader[r].head
    /\ keyOf[r] = sealedWith[chunk.stream]
    /\ chunk.index = reader[r].index
    /\ chunk.last = isLast

(* The chunk held back opens as the last one when no other follows it, and  *)
(* goes into the sidecar.                                                   *)
openNextChunk(r) ==
    LET me == reader[r]
        hasNext == me.at < Len(Opened(r))
    IN  /\ me.stage = "primed"
        /\ IF ~Opens(r, me.pending, ~hasNext)
           THEN End(r, "failed")
           ELSE /\ Set(r, [me EXCEPT
                      !.stage = IF hasNext THEN "primed" ELSE "decrypted",
                      !.at = IF hasNext THEN @ + 1 ELSE @,
                      !.pending = IF hasNext THEN Opened(r)[me.at + 1] ELSE None,
                      !.index = @ + 1,
                      !.got = Append(@, me.pending)])
                /\ UNCHANGED <<fileVars, keyVars, load, sealedWith, field, sidecar>>

(* An archive that is not encrypted goes into the sidecar as it is read.    *)
CopyChunk(r) ==
    LET me == reader[r]
    IN  /\ me.stage = "attached"
        /\ ~IsDecrypted(r)
        /\ IF me.at < Len(Opened(r))
           THEN Set(r, [me EXCEPT !.at = @ + 1, !.got = Append(@, Opened(r)[me.at + 1])])
           ELSE Goto(r, "decrypted")
        /\ UNCHANGED <<fileVars, keyVars, load, sealedWith, field, sidecar>>

(* The input of the sidecar is closed; tar leaves with an error when what   *)
(* it was given does not begin with one whole archive.                      *)
TarContent(got) ==
    \E a \in Archives : /\ Len(got) >= Length
                        /\ SubSeq(got, 1, Length) = Stream(a)

CloseWrite(r) ==
    /\ reader[r].stage = "decrypted"
    /\ reader[r].via = "restore"
    /\ Goto(r, "closed")
    /\ UNCHANGED <<fileVars, keyVars, load, sealedWith, field, sidecar>>

ContainerWait(r) ==
    /\ reader[r].stage = "closed"
    /\ End(r, IF TarContent(reader[r].got) THEN "ok" ELSE "failed")

(* DownloadBackup has no sidecar; the answer ends with the stream.          *)
DownloadEnds(r) ==
    /\ reader[r].stage = "decrypted"
    /\ reader[r].via = "download"
    /\ End(r, "ok")

(* The storage, the daemon or tar answers with an error, or the client of   *)
(* the request goes away.                                                   *)
RestoreFails(r) ==
    /\ reader[r].stage \in Reading
    /\ End(r, "failed")

RestoreSteps(r) ==
    \/ OpenBackup(r) \/ AskForOpening(r) \/ DecryptingReader(r)
    \/ CreateSidecar(r) \/ Prime(r) \/ openNextChunk(r) \/ CopyChunk(r)
    \/ CloseWrite(r) \/ ContainerWait(r) \/ DownloadEnds(r)

----------------------------------------------------------------------------
Restart ==
    /\ \E left \in SUBSET {a \in Archives :
                     aside[a] # None /\ kind \in Local /\ "fault" \in load} :
          FilesRestart({a \in Archives : save[a] = "new" /\ sealedWith[a] # NoKey}, left)
    /\ KeysRestart
    /\ reader' = [r \in Restorers |->
                    IF reader[r].stage \in Reading
                    THEN [reader[r] EXCEPT !.stage = "died"] ELSE reader[r]]
    /\ sidecar' = [r \in Restorers |->
                     IF sidecar[r] = "running" THEN "left" ELSE sidecar[r]]
    /\ UNCHANGED <<load, sealedWith, field>>

Boot == Migrate /\ UNCHANGED <<fileVars, restoreVars>>

KeyFails(c) ==
    /\ \/ c \in Archives \cap load /\ NeedsKey(c)
       \/ c \in Fields \cap load
       \/ c \in Restorers /\ reader[c].stage = "opened"
    /\ GetSecretKeyFails(c)
    /\ UNCHANGED <<fileVars, restoreVars>>

(* Bound: one file is damaged in a behaviour.                               *)
OneDamage == \A a \in Archives : save[a] = "saved" => content[a] = Whole(a)

DamageFile(a) ==
    /\ OneDamage
    /\ \E f \in Damages : Damage(a, f)
    /\ UNCHANGED <<keyVars, restoreVars>>

Faults ==
    /\ "fault" \in load
    /\ \/ \E a \in Archives \cap load : BackupFails(a)
       \/ \E r \in Restorers : RestoreFails(r)
       \/ \E c \in Callers : KeyFails(c)

Next ==
    \/ Boot
    \/ \E a \in Archives \cap load :
          AskForSealing(a) \/ EncryptingReader(a) \/ SealAndSave(a)
    \/ \E f \in Fields \cap load :
          AskForField(f) \/ EncryptField(f) \/ DecryptField(f)
    \/ "delete" \in load /\ \E a \in Archives \cap load : Delete(a)
    \/ "damage" \in load /\ \E a \in Archives : DamageFile(a)
    \/ \E r \in Restorers : RestoreSteps(r)
    \/ Faults
    \/ "restart" \in load /\ Restart

Spec == Init /\ [][Next]_vars

----------------------------------------------------------------------------
(* Properties.                                                              *)

(* A storage keeps its word: an archive whose save was answered with        *)
(* success is whole, and under its name until a deletion takes it away; and *)
(* a deletion that was answered with success, after the save had ended and  *)
(* with the storage in reach, leaves nothing under the name.  One success   *)
(* says less: a NAS, Azure or rclone storage takes a plain source that      *)
(* breaks off with io.ErrUnexpectedEOF for one that has ended.              *)
(* (local/model.go:38-169, nas/model.go:46-231 and 472-533,                 *)
(* azure_blob/model.go:68-209)                                              *)
SavedIsWhole ==
    "damage" \notin load =>
        \A a \in Archives :
            /\ save[a] = "saved" => content[a] = Whole(a)
            /\ save[a] = "cut" => kind \in Cutting /\ a \notin Encrypted
            /\ save[a] \in {"saved", "cut"} =>
                  named[a] \/ deletion[a] \in {"early", "gone", "error"}

RemovedIsGone == \A a \in Archives : deletion[a] = "gone" => ~named[a]

WordKept == SavedIsWhole /\ RemovedIsGone

(* What is left behind has an owner.  A file that is not whole lies under a *)
(* name only while it is written there, after a save that ended in between, *)
(* or when the source broke off, and in a storage that completes an archive *)
(* aside only the latter.  What is aside is of a save under way, of one     *)
(* that failed in this process, or of an earlier process: then it is in a   *)
(* storage away from here, or this process could not empty the temporary    *)
(* folder.  A restore sidecar outlives its restore when the removal failed  *)
(* or the process ended. (local/model.go:206-246, rclone/model.go:40-92,    *)
(* main.go:207-210, cleaner.go:9-28, restore.go:46-48)                      *)
PartialAccounted ==
    "damage" \notin load =>
        \A a \in Archives : named[a] /\ content[a] # Whole(a) =>
            \/ kind \in InPlace /\ save[a] \in {"writing", "failed", "killed"}
            \/ kind = "split" /\ save[a] \in {"copying", "failed", "killed"}
            \/ save[a] = "cut"

AsideAccounted ==
    \A a \in Archives : aside[a] # None =>
        \/ save[a] \in SaveActive \cup {"failed"}
        \/ save[a] = "killed" /\ (kind \in Local => uncleaned)

SidecarAccounted ==
    \A r \in Restorers :
        /\ sidecar[r] = "running" => reader[r].stage \in Reading
        /\ sidecar[r] = "left" =>
              reader[r].stage \in Ended /\ load \cap {"fault", "restart"} # {}

LeftoversAccounted == PartialAccounted /\ AsideAccounted /\ SidecarAccounted

(* The move of the key to the file never leaves the installation without    *)
(* it, wherever the process ends. (secrets/service.go:21-50)                *)
MigrationKeepsKey ==
    "upgrade" \in load => dbKey = OldKey \/ keyFile = OldKey

(* Every archive and every field is sealed with the key of the key file,    *)
(* and opens in this process and in a later one, unless first uses of the   *)
(* key overlapped or the file was written in part.                          *)
(* (secrets/service.go:52-78, secret_key_field_encryptor.go:59-106)         *)
KeyLasts ==
    ~upset => /\ \A s \in Archives \cup Fields : sealedWith[s] \in {NoKey, keyFile}
              /\ \A f \in Fields : field[f] # "lost"

(* What an encrypted archive puts into the volumes is at any moment the     *)
(* beginning of one archive, in its order, whatever became of the file.     *)
(* (stream_cipher.go:180-229)                                               *)
GotInOrder ==
    \A r \in Restorers : IsDecrypted(r) =>
        LET got == reader[r].got
        IN  /\ Len(got) <= Length
            /\ got # <<>> => got = SubSeq(Stream(reader[r].head), 1, Len(got))

(* A restore that was answered with success wrote one whole archive: one    *)
(* that lost its tail, or a chunk, fails. (backuper.go:168-187,             *)
(* restore.go:18-95, stream_cipher.go:180-215)                              *)
RestoredWhole ==
    \A r \in Restorers : reader[r].stage = "ok" /\ IsDecrypted(r) =>
        \E a \in Archives : reader[r].got = Stream(a)

(* Where an archive grows aside and appears by one call, its save, its      *)
(* deletions and the restores and downloads of it do what ArchiveStore      *)
(* promises, unless its source broke off: whoever read it to its end opened *)
(* it whole and has all of it, whatever was deleted, failed or ended in     *)
(* between.  Such are a local folder with its temporary folder beside it,   *)
(* Azure, and the rclone remotes that show an object when it is complete.   *)
(* (local/model.go:38-169, azure_blob/model.go:68-209, rclone/model.go:64)  *)
Publishing(a) ==
    kind \notin InPlace \cup {"split"} /\ "damage" \notin load /\ save[a] # "cut"

Under(a) == IF named[a] /\ content[a] = Whole(a) THEN "whole" ELSE "absent"
Saver(a) ==
    CASE save[a] = "new" -> IF sealedWith[a] = NoKey THEN "idle" ELSE "busy"
      [] save[a] \in SaveActive -> "busy"
      [] save[a] \in {"saved", "cut"} -> "ok"
      [] save[a] \in {"failed", "killed"} -> "failed"
Seen(a, r) ==
    LET me == reader[r]
    IN  CASE me.stage = "idle" \/ me.archive # a -> "idle"
          [] me.archive = a /\ me.stage \in Reading -> "sound"
          [] me.archive = a /\ me.stage = "ok" -> IF me.got = Stream(a) THEN "whole" ELSE "torn"
          [] me.archive = a /\ me.stage \in {"failed", "died"} -> "failed"

Store(a) == INSTANCE ArchiveStore WITH
    Readers <- Restorers, file <- Under(a), saver <- Saver(a),
    reads <- [r \in Restorers |-> Seen(a, r)]

Publishes ==
    /\ \A a \in Archives : Publishing(a) => Store(a)!Init
    /\ [][\A a \in Archives : Publishing(a)' => [Store(a)!Next]_(Store(a)!vars)]_vars
=============================================================================
