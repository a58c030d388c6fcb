-------------------------- MODULE PublishingProofs ---------------------------
(****************************************************************************)
(* Proof that the storages in which an archive appears by one call (a local *)
(* folder with its temporary folder beside it, Azure, the rclone remotes    *)
(* that show an object when it is complete) implement ArchiveStore, with    *)
(* the backups and restores that use them, for every archive whose source   *)
(* did not break off.                                                       *)
(*                                                                          *)
(* What RestoresProofs says of files and readers leaves one thing open:     *)
(* that a reader has the archive it opened, and not another.  Copied says   *)
(* it; the rest shows for each kind of step what the store takes it for.    *)
(****************************************************************************)
EXTENDS RestoresProofs

LEMMA WholeFile ==
    ASSUME NEW a \in Archives
    PROVE  /\ Whole(a) \in File /\ Whole(a).head = a /\ Whole(a).chunks = Stream(a)
           /\ Len(Stream(a)) = Length /\ \A i \in 1..Length : Stream(a)[i] = Sealed(a, i)
           /\ a # None /\ Whole(a) # None
<1>1. Whole(a) \in File
  BY WholeGrows, GrowingIsFile
<1> QED
  BY <1>1, LengthAssumption, NoFileAssumption, ForeignAssumption DEF Whole, Stream

LEMMA PublishedIsWhole ==
    ASSUME Stored, NEW a \in Archives, Publishing(a), content[a] \in File
    PROVE  content[a] = Whole(a)
<1>1. Held(a) /\ content[a] # None
  BY NoFileAssumption DEF Stored
<1> QED
  BY <1>1 DEF Held, Publishing

\* An archive whose source broke off stays one.
Staying == \A a \in Archives : Publishing(a)' => Publishing(a)

LEMMA StaysPublishing ==
    ASSUME [Next]_vars, FilesTypeOK
    PROVE  Staying
<1>1. UNCHANGED load /\ (FileStep \/ UNCHANGED fileVars)
  BY NextFiles
<1>2. ASSUME NEW a \in Archives
      PROVE  UNCHANGED kind /\ (save[a] = "cut" => save'[a] = "cut")
  <2> DEFINE Goal == UNCHANGED kind /\ (save[a] = "cut" => save'[a] = "cut")
  <2> USE DEF FilesTypeOK, Becomes, SaveActive, SaveOver
  <2>1. ASSUME NEW b \in Archives, SaveFile(b) PROVE Goal
    BY <2>1 DEF SaveFile, SaveLocalFile, SaveNasFile, SaveSftpFile, SaveFtpFile, SaveAzureFile,
                SaveRcloneFile, SaveUnderName, SaveAside, CreateTempFile, WriteTempFile,
                CloseTempFile, Rename, CreateDestination, CopyToDestination, RemoveSource,
                CreateUnderName, WriteUnderName, EndUnderName, CreateAside, WriteAside,
                PublishAside, Appear
  <2>2. ASSUME NEW b \in Archives, DeleteFile(b) PROVE Goal
    BY <2>2 DEF DeleteFile, DeleteLocalFile, DeleteNasFile, DeleteSftpFile, DeleteFtpFile,
                DeleteAzureFile, DeleteRcloneFile, Missing, Unlink, StatFails
  <2>3. ASSUME NEW b \in Archives,
               SaveFails(b) \/ DeleteFails(b) \/ CommitFails(b) \/ SourceBreaksOff(b)
        PROVE  Goal
    BY <2>3 DEF SaveFails, DeleteFails, CommitFails, SourceBreaksOff, Appear
  <2>4. ASSUME NEW f \in Damages, NEW b \in Archives, Damage(b, f) PROVE Goal
    BY <2>4 DEF Damage
  <2>5. ASSUME NEW begun \in SUBSET Archives, NEW left \in SUBSET Archives,
               \A b \in begun : save[b] = "new", FilesRestart(begun, left)
        PROVE  Goal
    BY <2>5 DEF FilesRestart
  <2> QED
    BY <1>1, <2>1, <2>2, <2>3, <2>4, <2>5 DEF FileStep, fileVars
<1> QED
  BY <1>1, <1>2 DEF Publishing, Staying

----------------------------------------------------------------------------
(* What a reader has.                                                       *)

\* The header is that of the archive it opened, and what it copied of one that
\* is not encrypted is the beginning of it.
InOrder(me) ==
    /\ me.at = Len(me.got) /\ me.at <= Length
    /\ \A i \in 1..Len(me.got) : me.got[i] = Sealed(me.archive, i)
    /\ me.stage \in {"decrypted", "closed", "ok"} => Len(me.got) = Length

Copied(r) ==
    LET a == reader[r].archive
    IN  reader[r].stage \in Reading \cup {"ok"} =>
            /\ a \in Archives
            /\ Publishing(a) => reader[r].head = a /\ (a \notin Encrypted => InOrder(reader[r]))

\* A step to a later stage of the reading, or to its end.
LEMMA StageCopied ==
    ASSUME ReaderTypes, NEW r \in Restorers, Copied(r), Staying,
           NEW stage \in Reading \cup Ended, Goto(r, stage), reader[r].stage \in Reading,
           stage \in {"decrypted", "closed", "ok"} =>
              \/ reader[r].stage \in {"decrypted", "closed"}
              \/ reader[r].archive \in Encrypted
              \/ Publishing(reader[r].archive) => Len(reader[r].got) = Length
    PROVE  Copied(r)'
<1> DEFINE me == reader[r]
<1>1. me \in Reader /\ reader'[r] = [me EXCEPT !.stage = stage]
  BY DEF Goto, Set, ReaderTypes
<1>2. /\ reader'[r].archive = me.archive /\ reader'[r].head = me.head
      /\ reader'[r].at = me.at /\ reader'[r].got = me.got /\ reader'[r].stage = stage
  BY <1>1 DEF Reader
<1> HIDE DEF me
<1>3. PICK a \in Archives : a = me.archive
  BY DEF Copied, me
<1>4. Publishing(a) => me.head = a /\ (a \notin Encrypted => InOrder(me))
  BY <1>3 DEF Copied, me
<1>5. ASSUME Publishing(a), stage \in Reading \cup {"ok"}
      PROVE  reader'[r].head = a /\ (a \notin Encrypted => InOrder(reader'[r]))
  BY <1>2, <1>3, <1>4, <1>5 DEF InOrder, me
<1>6. Publishing(a)' => Publishing(a)
  BY DEF Staying
<1> QED
  BY <1>2, <1>3, <1>5, <1>6 DEF Copied

LEMMA OpenCopied ==
    ASSUME Stored, FilesTypeOK, ReaderTypes, NEW r \in Restorers, OpenBackup(r), Staying
    PROVE  /\ Copied(r)'
           /\ \E a \in Archives :
                 /\ reader[r].stage = "idle" /\ reader'[r].archive = a
                 /\ Publishing(a) => /\ reader'[r].stage \in Reading
                                     /\ named[a] /\ content[a] = Whole(a)
<1>1. PICK a \in Archives, via \in {"restore", "download"} :
         /\ reader[r].stage = "idle"
         /\ named[a]
         /\ reader' = [reader EXCEPT ![r] =
              [NewReader(a) EXCEPT
                  !.stage = IF a \in Encrypted /\ content[a].head = None THEN "failed"
                            ELSE IF a \in Encrypted THEN "opened" ELSE "keyed",
                  !.via = via, !.head = content[a].head]]
  BY DEF OpenBackup, GetFile, GetLocalFile, GetNasFile, GetSftpFile, GetFtpFile,
         GetAzureFile, GetRcloneFile, Set
<1>2. Publishing(a) => content[a] = Whole(a)
  <2>1. Held(a)
    BY DEF Stored
  <2> QED
    BY <1>1, <2>1, NoFileAssumption DEF Held, Told, Publishing
<1>3. /\ reader'[r].archive = a /\ reader'[r].head = content[a].head
      /\ reader'[r].got = <<>> /\ reader'[r].at = 0
      /\ reader'[r].stage = IF a \in Encrypted /\ content[a].head = None THEN "failed"
                            ELSE IF a \in Encrypted THEN "opened" ELSE "keyed"
  BY <1>1 DEF ReaderTypes, NewReader
<1>4. Publishing(a) => content[a].head = a /\ a # None
  BY <1>2, WholeFile
<1>5. Copied(r)'
  <2>1. Publishing(a)' => Publishing(a)
    BY DEF Staying
  <2> QED
    BY <1>3, <1>4, <2>1, LengthAssumption DEF Copied, InOrder, Reading
<1> QED
  BY <1>1, <1>2, <1>3, <1>4, <1>5 DEF Reading

LEMMA CopyCopied ==
    ASSUME Stored, ReaderTypes, NEW r \in Restorers, Read(r), Copied(r), CopyChunk(r), Staying
    PROVE  Copied(r)'
<1> DEFINE me == reader[r]
<1>1. me \in Reader /\ me.stage = "attached" /\ me.archive \notin Encrypted
  BY DEF ReaderTypes, CopyChunk, IsDecrypted
<1>2. PICK a \in Archives : a = me.archive /\ a \notin Encrypted /\ content[a] \in File
  BY <1>1 DEF Read, Reading
<1>3. Publishing(a) => /\ Opened(r) = Stream(a) /\ Len(Stream(a)) = Length
                       /\ \A i \in 1..Length : Stream(a)[i] = Sealed(a, i)
  BY <1>2, PublishedIsWhole, WholeFile DEF Opened
<1>4. Publishing(a) => me.head = a /\ InOrder(me)
  BY <1>1, <1>2 DEF Copied, Reading
<1>5. CASE me.at < Len(Opened(r))
  <2> DEFINE chunk == Opened(r)[me.at + 1]
  <2>1. reader'[r] = [me EXCEPT !.at = @ + 1, !.got = Append(@, chunk)]
    BY <1>5 DEF CopyChunk, Set, ReaderTypes
  <2>2. /\ reader'[r].stage = "attached" /\ reader'[r].archive = a /\ reader'[r].head = me.head
        /\ reader'[r].at = me.at + 1 /\ reader'[r].got = Append(me.got, chunk)
    BY <1>1, <1>2, <2>1 DEF Reader
  <2>3. Publishing(a) => InOrder(reader'[r])
    <3> SUFFICES ASSUME Publishing(a) PROVE InOrder(reader'[r])
      OBVIOUS
    <3>1. chunk = Sealed(a, me.at + 1) /\ me.at + 1 \in 1..Length /\ me.at \in Nat
      BY <1>1, <1>3, <1>5, LengthAssumption DEF Reader
    <3>2. me.got \in Seq(Chunk \cup {Foreign}) /\ me.at = Len(me.got)
          /\ \A i \in 1..Len(me.got) : me.got[i] = Sealed(a, i)
      BY <1>1, <1>2, <1>4 DEF Reader, InOrder
    <3> HIDE DEF chunk, me
    <3>3. chunk \in Chunk \cup {Foreign}
      BY <1>2, <3>1 DEF Chunk
    <3>4. /\ Len(Append(me.got, chunk)) = me.at + 1
          /\ \A i \in 1..me.at + 1 : Append(me.got, chunk)[i] = Sealed(a, i)
      BY <3>1, <3>2, <3>3
    <3> QED
      BY <2>2, <3>1, <3>4 DEF InOrder
  <2>4. Publishing(a)' => Publishing(a)
    BY DEF Staying
  <2> QED
    BY <1>4, <2>2, <2>3, <2>4 DEF Copied
<1>6. CASE ~(me.at < Len(Opened(r)))
  <2>1. Goto(r, "decrypted") /\ "decrypted" \in Reading
    BY <1>6 DEF CopyChunk, Reading
  <2>2. Publishing(me.archive) => Len(me.got) = Length
    BY <1>1, <1>2, <1>3, <1>4, <1>6, LengthAssumption DEF InOrder, Reader
  <2> QED
    BY <1>1, <2>1, <2>2, StageCopied DEF Reading
<1> QED
  BY <1>5, <1>6

LEMMA ChunkCopied ==
    ASSUME ReaderTypes, NEW r \in Restorers, Copied(r), Prime(r) \/ openNextChunk(r),
           reader[r].stage = "primed" => reader[r].archive \in Encrypted, Staying
    PROVE  Copied(r)'
<1> DEFINE me == reader[r]
<1>1. /\ me \in Reader /\ me.stage \in {"attached", "primed"} /\ me.archive \in Encrypted
  BY DEF Prime, openNextChunk, ReaderTypes, IsDecrypted
<1>2. CASE End(r, "failed")
  BY <1>1, <1>2, StageCopied DEF End, Reading, Ended
<1>3. CASE ~End(r, "failed")
  <2>1. CASE Prime(r)
    <3>1. reader'[r] = [me EXCEPT !.stage = "primed", !.at = 1, !.pending = Opened(r)[1]]
      BY <1>3, <2>1 DEF Prime, Set, ReaderTypes
    <3>2. reader'[r].archive = me.archive /\ reader'[r].head = me.head
      BY <1>1, <3>1 DEF Reader
    <3>3. PICK a \in Archives : a = me.archive /\ a \in Encrypted
      BY <1>1 DEF Copied, Reading
    <3>4. (Publishing(a)' => Publishing(a)) /\ (Publishing(a) => me.head = a)
      BY <1>1, <3>3 DEF Copied, Reading, Staying
    <3> QED
      BY <3>2, <3>3, <3>4 DEF Copied
  <2>2. CASE openNextChunk(r)
    <3> DEFINE hasNext == me.at < Len(Opened(r))
    <3>1. reader'[r] = [me EXCEPT
                      !.stage = IF hasNext THEN "primed" ELSE "decrypted",
                      !.at = IF hasNext THEN @ + 1 ELSE @,
                      !.pending = IF hasNext THEN Opened(r)[me.at + 1] ELSE None,
                      !.index = @ + 1,
                      !.got = Append(@, me.pending)]
      BY <1>3, <2>2 DEF openNextChunk, Set, ReaderTypes
    <3> HIDE DEF hasNext
    <3>2. reader'[r].archive = me.archive /\ reader'[r].head = me.head
      BY <1>1, <3>1 DEF Reader
    <3>3. PICK a \in Archives : a = me.archive /\ a \in Encrypted
      BY <1>1 DEF Copied, Reading
    <3>4. (Publishing(a)' => Publishing(a)) /\ (Publishing(a) => me.head = a)
      BY <1>1, <3>3 DEF Copied, Reading, Staying
    <3> QED
      BY <3>2, <3>3, <3>4 DEF Copied
  <2> QED
    BY <2>1, <2>2
<1> QED
  BY <1>2, <1>3

LEMMA ReaderStepCopied ==
    ASSUME IInv, NEW r \in Restorers, Copied(r), RestoreSteps(r) \/ RestoreFails(r), Staying
    PROVE  Copied(r)'
<1> USE DEF IInv
<1>0. Read(r) /\ reader[r] \in Reader
  BY DEF Readers, ReaderTypes
<1>1. CASE OpenBackup(r)
  BY <1>1, OpenCopied
<1>2. CASE AskForOpening(r)
  BY <1>2 DEF AskForOpening, restoreVars, Copied, InOrder, Staying
<1>3. CASE DecryptingReader(r)
  BY <1>3, StageCopied DEF DecryptingReader, Reading
<1>4. CASE CreateSidecar(r)
  BY <1>4, StageCopied DEF CreateSidecar, Reading
<1>5. CASE Prime(r) \/ openNextChunk(r)
  BY <1>0, <1>5, ChunkCopied DEF Read
<1>6. CASE CopyChunk(r)
  BY <1>0, <1>6, CopyCopied
<1>7. CASE CloseWrite(r)
  BY <1>7, StageCopied DEF CloseWrite, Reading
<1>8. CASE ContainerWait(r)
  BY <1>8, StageCopied DEF ContainerWait, End, Reading, Ended
<1>9. CASE DownloadEnds(r)
  BY <1>9, StageCopied DEF DownloadEnds, End, Reading, Ended
<1>10. CASE RestoreFails(r)
  BY <1>10, StageCopied DEF RestoreFails, End, Ended
<1> QED
  BY <1>1, <1>2, <1>3, <1>4, <1>5, <1>6, <1>7, <1>8, <1>9, <1>10 DEF RestoreSteps

\* Who moves readers.
LEMMA ReaderCases ==
    ASSUME [Next]_vars
    PROVE  \/ \E r \in Restorers : RestoreSteps(r) \/ RestoreFails(r)
           \/ Restart
           \/ UNCHANGED reader
  BY DEF Next, Faults, vars, restoreVars, Boot, AskForSealing, EncryptingReader, SealAndSave,
         BackupFails, Delete, AskForField, EncryptField, DecryptField, DamageFile, KeyFails

LEMMA OthersStay ==
    ASSUME ReaderTypes, NEW r \in Restorers, RestoreSteps(r) \/ RestoreFails(r)
    PROVE  \A q \in Restorers \ {r} : reader'[q] = reader[q]
<1> USE DEF Set, Goto, End, ReaderTypes
<1>1. CASE OpenBackup(r)
  BY <1>1 DEF OpenBackup
<1>2. CASE AskForOpening(r)
  BY <1>2 DEF AskForOpening, restoreVars
<1>3. CASE DecryptingReader(r) \/ CreateSidecar(r) \/ CloseWrite(r)
  BY <1>3 DEF DecryptingReader, CreateSidecar, CloseWrite
<1>4. CASE Prime(r)
  BY <1>4 DEF Prime
<1>5. CASE openNextChunk(r)
  BY <1>5 DEF openNextChunk
<1>6. CASE CopyChunk(r)
  BY <1>6 DEF CopyChunk
<1>7. CASE ContainerWait(r) \/ DownloadEnds(r) \/ RestoreFails(r)
  BY <1>7 DEF ContainerWait, DownloadEnds, RestoreFails
<1> QED
  BY <1>1, <1>2, <1>3, <1>4, <1>5, <1>6, <1>7 DEF RestoreSteps

LEMMA RestartEndsReading ==
    ASSUME ReaderTypes, Restart, NEW r \in Restorers
    PROVE  /\ reader[r].stage \notin Reading => reader'[r] = reader[r]
           /\ reader[r].stage \in Reading =>
                 reader'[r].stage = "died" /\ reader'[r].archive = reader[r].archive
  BY DEF Restart, ReaderTypes, Reader

PInv == IInv /\ \A r \in Restorers : Copied(r)

LEMMA PInvInit == Init => PInv
<1> SUFFICES ASSUME Init PROVE PInv
  OBVIOUS
<1>1. \A r \in Restorers : reader[r].stage = "idle"
  BY DEF Init, NewReader
<1> QED
  BY <1>1, InitHolds DEF PInv, Copied, Reading

LEMMA PInvStep == PInv /\ [Next]_vars => PInv'
<1> SUFFICES ASSUME PInv, [Next]_vars PROVE PInv'
  OBVIOUS
<1>1. IInv /\ ReaderTypes /\ FilesTypeOK /\ IInv'
  BY StepHolds DEF PInv, IInv
<1>2. Staying
  BY <1>1, StaysPublishing
<1>3. ASSUME NEW q \in Restorers PROVE Copied(q)'
  <2>1. Copied(q)
    BY DEF PInv
  <2>2. CASE reader'[q] = reader[q]
    BY <1>2, <2>1, <2>2 DEF Copied, InOrder, Staying
  <2>3. CASE RestoreSteps(q) \/ RestoreFails(q)
    BY <1>1, <1>2, <2>1, <2>3, ReaderStepCopied
  <2>4. CASE Restart
    BY <1>1, <2>2, <2>4, RestartEndsReading DEF Copied, Reading
  <2> QED
    BY <1>1, <2>2, <2>3, <2>4, ReaderCases, OthersStay
<1> QED
  BY <1>1, <1>3 DEF PInv

----------------------------------------------------------------------------
(* What the store sees of a step.                                           *)

SameFile(a) == Under(a)' = Under(a) /\ Saver(a)' = Saver(a)
SameReads(a) == \A r \in Restorers : Seen(a, r)' = Seen(a, r)

StoreStep(a) == Store(a)!Next \/ UNCHANGED Store(a)!vars

LEMMA NothingSeen ==
    ASSUME NEW a \in Archives, SameFile(a), SameReads(a)
    PROVE  StoreStep(a)
<1>1. [r \in Restorers |-> Seen(a, r)]' = [r \in Restorers |-> Seen(a, r)]
  BY DEF SameReads
<1> QED
  BY <1>1 DEF SameFile, StoreStep, Store!vars

\* A step of the file of another archive, or of none.
LEMMA FileUntouched ==
    ASSUME NEW a \in Archives, named'[a] = named[a], content'[a] = content[a],
           save'[a] = save[a], sealedWith'[a] = sealedWith[a]
    PROVE  SameFile(a)
  BY DEF SameFile, Under, Saver, SaveActive

LEMMA ReadersUntouched ==
    ASSUME NEW a \in Archives, UNCHANGED reader
    PROVE  SameReads(a)
<1> SUFFICES ASSUME NEW r \in Restorers PROVE Seen(a, r)' = Seen(a, r)
  BY DEF SameReads
<1> QED
  BY DEF Seen, Reading

\* The save goes on, ends, or fails; the archive appears or goes.
LEMMA SaverSeen ==
    ASSUME NEW a \in Archives, SameReads(a),
           \/ Saver(a) = "idle" /\ Saver(a)' \in {"busy", "failed"} /\ Under(a)' = Under(a)
           \/ Saver(a) = "busy" /\ Saver(a)' = "ok" /\ Under(a)' = "whole"
           \/ Saver(a) = "busy" /\ Saver(a)' = "failed" /\ Under(a)' \in {Under(a), "whole"}
           \/ Saver(a)' = Saver(a) /\ Under(a)' \in {Under(a), "absent"}
    PROVE  StoreStep(a)
<1>1. [r \in Restorers |-> Seen(a, r)]' = [r \in Restorers |-> Seen(a, r)]
  BY DEF SameReads
<1>2. Under(a) \in {"absent", "whole"}
  BY DEF Under
<1>3. CASE Saver(a) = "idle" /\ Saver(a)' \in {"busy", "failed"} /\ Under(a)' = Under(a)
  BY <1>1, <1>3 DEF StoreStep, Store!Next, Store!BeginSave
<1>4. CASE Saver(a) = "busy" /\ Saver(a)' = "ok" /\ Under(a)' = "whole"
  BY <1>1, <1>4 DEF StoreStep, Store!Next, Store!FinishSave
<1>5. CASE Saver(a) = "busy" /\ Saver(a)' = "failed" /\ Under(a)' \in {Under(a), "whole"}
  BY <1>1, <1>2, <1>5 DEF StoreStep, Store!Next, Store!FailSave
<1>6. CASE Saver(a)' = Saver(a) /\ Under(a)' = "absent"
  BY <1>1, <1>6 DEF StoreStep, Store!Next, Store!Remove
<1>7. CASE Saver(a)' = Saver(a) /\ Under(a)' = Under(a)
  BY <1>7, NothingSeen DEF SameFile
<1> QED
  BY <1>3, <1>4, <1>5, <1>6, <1>7

\* One reader opens the archive or ends.
LEMMA ReaderSeen ==
    ASSUME NEW a \in Archives, SameFile(a), NEW r \in Restorers,
           \A q \in Restorers \ {r} : Seen(a, q)' = Seen(a, q),
           \/ Seen(a, r) = "idle" /\ Seen(a, r)' = "sound" /\ Under(a) = "whole"
           \/ Seen(a, r) = "sound" /\ Seen(a, r)' \in {"whole", "failed"}
           \/ Seen(a, r)' = Seen(a, r)
    PROVE  StoreStep(a)
<1> DEFINE reads == [q \in Restorers |-> Seen(a, q)]
           sees == Seen(a, r)'
<1>1. reads' = [reads EXCEPT ![r] = sees] /\ reads[r] = Seen(a, r)
  OBVIOUS
<1>2. CASE Seen(a, r) = "idle" /\ Seen(a, r)' = "sound" /\ Under(a) = "whole"
  <2>1. Store(a)!OpenRead(r)
    BY <1>1, <1>2 DEF SameFile, Store!OpenRead
  <2> QED
    BY <2>1 DEF StoreStep, Store!Next
<1>3. CASE Seen(a, r) = "sound" /\ Seen(a, r)' \in {"whole", "failed"}
  <2>1. Store(a)!EndRead(r)
    BY <1>1, <1>3 DEF SameFile, Store!EndRead
  <2> QED
    BY <2>1 DEF StoreStep, Store!Next
<1>4. CASE Seen(a, r)' = Seen(a, r)
  <2>1. SameReads(a)
    BY <1>4 DEF SameReads
  <2> QED
    BY <2>1, NothingSeen
<1> QED
  BY <1>2, <1>3, <1>4

----------------------------------------------------------------------------
(* Saves and deletions.                                                     *)

FileCall(b) ==
    \/ SaveFile(b) \/ SaveFails(b) \/ CommitFails(b) \/ SourceBreaksOff(b)
    \/ DeleteFile(b) \/ DeleteFails(b)

\* The steps of SaveFile in a storage that publishes archives.
LEMMA SavesAside ==
    ASSUME Stored, NEW a \in Archives, SaveFile(a), kind \notin InPlace \cup {"split"}
    PROVE  CreateAside(a) \/ WriteAside(a) \/ CloseTempFile(a) \/ PublishAside(a, "writing")
           \/ PublishAside(a, "moving")
<1>1. Held(a)
  BY DEF Stored
<1>2. save[a] # "copying"
  BY <1>1 DEF Held
<1>3. CASE SaveLocalFile(a)
  BY <1>1, <1>2, <1>3
  DEF SaveLocalFile, CreateTempFile, WriteTempFile, Rename, CreateDestination, CopyToDestination,
      RemoveSource
<1>4. CASE SaveAzureFile(a) \/ SaveRcloneFile(a)
  BY <1>4 DEF SaveAzureFile, SaveRcloneFile, SaveAside, InPlace
<1>5. ~(SaveNasFile(a) \/ SaveSftpFile(a) \/ SaveFtpFile(a))
  BY DEF SaveNasFile, SaveSftpFile, SaveFtpFile, InPlace
<1> QED
  BY <1>3, <1>4, <1>5 DEF SaveFile

LEMMA DeletionCases ==
    ASSUME NEW a, DeleteFile(a) \/ DeleteFails(a)
    PROVE  /\ UNCHANGED <<content, save>>
           /\ named' = [named EXCEPT ![a] = FALSE] \/ UNCHANGED named
  BY DEF DeleteFile, DeleteLocalFile, DeleteNasFile, DeleteSftpFile, DeleteFtpFile,
         DeleteAzureFile, DeleteRcloneFile, DeleteFails, Missing, Unlink, StatFails

LEMMA FileCallSeen ==
    ASSUME IInv, UNCHANGED <<sealedWith, reader>>, NEW b \in Archives, FileCall(b),
           NEW a \in Archives, Publishing(a), Publishing(a)'
    PROVE  StoreStep(a)
<1> USE DEF IInv, FilesTypeOK, Becomes
<1>0. kind \notin InPlace \cup {"split"} /\ save'[a] # "cut"
  BY DEF Publishing
<1>1. SameReads(a)
  BY ReadersUntouched
<1>2. CASE SaveFile(b) /\ a # b
  <2>1. CreateAside(b) \/ WriteAside(b) \/ CloseTempFile(b) \/ PublishAside(b, "writing")
        \/ PublishAside(b, "moving")
    BY <1>0, <1>2, SavesAside
  <2>2. SameFile(a)
    BY <1>2, <2>1, FileUntouched
    DEF CreateAside, WriteAside, CloseTempFile, PublishAside, Appear, Publish
  <2> QED
    BY <1>1, <2>2, NothingSeen
<1>3. CASE SaveFile(a)
  <2>1. Held(a)
    BY DEF Stored
  <2>2. CASE CreateAside(a)
    <3>1. save[a] = "new" /\ save'[a] = "writing" /\ UNCHANGED <<content, named>>
      BY <2>2 DEF CreateAside
    <3>2. Under(a)' = Under(a) /\ Saver(a) \in {"idle", "busy"} /\ Saver(a)' = "busy"
      BY <3>1 DEF Under, Saver, SaveActive
    <3> QED
      BY <1>1, <3>2, SaverSeen
  <2>3. CASE WriteAside(a)
    BY <1>1, <2>3, FileUntouched, NothingSeen DEF WriteAside
  <2>4. CASE CloseTempFile(a)
    <3>1. save[a] = "writing" /\ save'[a] = "moving" /\ UNCHANGED <<content, named>>
      BY <2>4 DEF CloseTempFile
    <3>2. Under(a)' = Under(a) /\ Saver(a) = "busy" /\ Saver(a)' = "busy"
      BY <3>1 DEF Under, Saver, SaveActive
    <3> QED
      BY <1>1, <3>2, SaverSeen
  <2>5. ASSUME NEW stage \in {"writing", "moving"}, PublishAside(a, stage) PROVE StoreStep(a)
    <3>1. /\ save[a] \in SaveActive /\ save'[a] = "saved"
          /\ named'[a] /\ content'[a] = aside[a] /\ ~Unfinished(aside[a])
      BY <2>5 DEF PublishAside, Appear, Publish, SaveActive
    <3>2. aside[a] \in Growing(a)
      BY <1>0, <2>1, <2>5, WholeGrows DEF Held, PublishAside
    <3>3. content'[a] = Whole(a)
      BY <3>1, <3>2, FinishedIsWhole
    <3>4. Under(a)' = "whole" /\ Saver(a) = "busy" /\ Saver(a)' = "ok"
      BY <3>1, <3>3 DEF Under, Saver, SaveActive
    <3> QED
      BY <1>1, <3>4, SaverSeen
  <2> QED
    BY <1>0, <1>3, <2>2, <2>3, <2>4, <2>5, SavesAside
<1>4. CASE (SaveFails(b) \/ CommitFails(b) \/ SourceBreaksOff(b)) /\ a # b
  BY <1>1, <1>4, FileUntouched, NothingSeen
  DEF SaveFails, CommitFails, SourceBreaksOff, Appear, Publish
<1>5. CASE SaveFails(a)
  <2>1. save[a] \in SaveActive \cup {"new"} /\ save'[a] = "failed" /\ UNCHANGED <<content, named>>
    BY <1>0, <1>5 DEF SaveFails, SaveActive, InPlace
  <2>2. Under(a)' = Under(a) /\ Saver(a) \in {"idle", "busy"} /\ Saver(a)' = "failed"
    BY <2>1 DEF Under, Saver, SaveActive
  <2> QED
    BY <1>1, <2>2, SaverSeen
<1>6. CASE DeleteFile(b) \/ DeleteFails(b)
  <2>1. UNCHANGED <<content, save>> /\ (named'[a] = named[a] \/ ~named'[a])
    BY <1>6, DeletionCases
  <2>2. Saver(a)' = Saver(a) /\ Under(a)' \in {Under(a), "absent"}
    BY <2>1 DEF Saver, Under, SaveActive
  <2> QED
    BY <1>1, <2>2, SaverSeen
<1>7. CASE CommitFails(a)
  <2>1. Held(a)
    BY DEF Stored
  <2>2. /\ save[a] = "writing" /\ save'[a] = "failed"
        /\ named'[a] /\ content'[a] = aside[a] /\ ~Unfinished(aside[a]) /\ aside[a] \in Growing(a)
    BY <1>0, <1>7, <2>1 DEF CommitFails, Appear, Publish, Held
  <2>3. content'[a] = Whole(a)
    BY <2>2, FinishedIsWhole
  <2>4. Under(a)' = "whole" /\ Saver(a) = "busy" /\ Saver(a)' = "failed"
    BY <2>2, <2>3 DEF Under, Saver, SaveActive
  <2> QED
    BY <1>1, <2>4, SaverSeen
<1>8. ~SourceBreaksOff(a)
  BY <1>0 DEF SourceBreaksOff, Appear
<1> QED
  BY <1>2, <1>3, <1>4, <1>5, <1>6, <1>7, <1>8 DEF FileCall

----------------------------------------------------------------------------
(* Keys, readers and the end of the process.                                *)

\* An archive is sealed before its save begins; of fields and of other archives
\* the store sees nothing.
LEMMA SealingSeen ==
    ASSUME IInv, UNCHANGED <<fileVars, reader>>, NEW a \in Archives,
           \/ UNCHANGED sealedWith
           \/ \E s \in Sources :
                 /\ s \in Archives => save[s] = "new" /\ sealedWith[s] = NoKey
                 /\ sealedWith' = [sealedWith EXCEPT ![s] = keyOf[s]]
    PROVE  StoreStep(a)
<1>1. SameReads(a)
  BY ReadersUntouched
<1>2. UNCHANGED <<content, named, save>>
  BY DEF fileVars
<1>3. CASE sealedWith'[a] = sealedWith[a]
  BY <1>1, <1>2, <1>3, FileUntouched, NothingSeen
<1>4. CASE sealedWith'[a] # sealedWith[a]
  <2>1. save[a] = "new" /\ sealedWith[a] = NoKey
    BY <1>4 DEF IInv, KeyTypes, Sources
  <2>2. Under(a)' = Under(a) /\ Saver(a) = "idle" /\ Saver(a)' \in {"idle", "busy"}
    BY <1>2, <2>1 DEF Under, Saver, SaveActive
  <2> QED
    BY <1>1, <2>2, SaverSeen
<1> QED
  BY <1>3, <1>4

\* A reader that has ended well has all of the archive it opened.
ReadWhole ==
    \A r \in Restorers, a \in Archives :
        reader[r].stage = "ok" /\ reader[r].archive = a /\ Publishing(a) =>
            reader[r].got = Stream(a)

LEMMA GotWhole == PInv => ReadWhole
<1> SUFFICES ASSUME IInv, NEW r \in Restorers, Copied(r), reader[r].stage = "ok",
                    Publishing(reader[r].archive)
             PROVE  reader[r].got = Stream(reader[r].archive)
  BY DEF PInv, ReadWhole
<1> DEFINE got == reader[r].got
           a == reader[r].archive
<1>1. got \in Seq(Chunk \cup {Foreign}) /\ Read(r) /\ a \in Archives
  BY DEF IInv, ReaderTypes, Readers, Reader, Copied
<1>2. Len(got) = Length /\ \A i \in 1..Len(got) : got[i] = Sealed(a, i)
  BY <1>1 DEF Copied, Read, InOrder
<1> HIDE DEF got, a
<1>3. got = Stream(a)
  BY <1>1, <1>2, LengthAssumption DEF Stream
<1> QED
  BY <1>3 DEF got, a

LEMMA GotWholeNext == PInv' => ReadWhole'
  BY GotWhole, PTL

\* How a request's reader moves: it opens, goes on, or ends.
LEMMA ReaderMoves ==
    ASSUME IInv, NEW r \in Restorers, RestoreSteps(r) \/ RestoreFails(r)
    PROVE  \/ OpenBackup(r)
           \/ reader'[r] = reader[r]
           \/ /\ reader[r].stage \in Reading /\ reader'[r].archive = reader[r].archive
              /\ reader'[r].stage \in Reading \cup {"ok", "failed"}
<1> USE DEF IInv, Set, Goto, End, ReaderTypes, Reader, Reading
<1>1. CASE AskForOpening(r)
  BY <1>1 DEF AskForOpening, restoreVars
<1>2. CASE DecryptingReader(r) \/ CreateSidecar(r) \/ CloseWrite(r)
  BY <1>2 DEF DecryptingReader, CreateSidecar, CloseWrite
<1>3. CASE Prime(r)
  <2>1. CASE End(r, "failed")
    BY <1>3, <2>1 DEF Prime
  <2>2. CASE ~End(r, "failed")
    <3> DEFINE chunk == Opened(r)[1]
    <3>1. reader'[r] = [reader[r] EXCEPT !.stage = "primed", !.at = 1, !.pending = chunk]
      BY <1>3, <2>2 DEF Prime
    <3>2. reader[r].stage = "attached"
      BY <1>3 DEF Prime
    <3> HIDE DEF chunk
    <3> QED
      BY <3>1, <3>2
  <2> QED
    BY <2>1, <2>2
<1>4. CASE openNextChunk(r)
  <2> DEFINE me == reader[r]
             hasNext == me.at < Len(Opened(r))
  <2>1. me.stage = "primed"
    BY <1>4 DEF openNextChunk
  <2>2. CASE End(r, "failed")
    BY <2>1, <2>2
  <2>3. CASE ~End(r, "failed")
    <3>1. reader'[r] = [me EXCEPT
                      !.stage = IF hasNext THEN "primed" ELSE "decrypted",
                      !.at = IF hasNext THEN @ + 1 ELSE @,
                      !.pending = IF hasNext THEN Opened(r)[me.at + 1] ELSE None,
                      !.index = @ + 1,
                      !.got = Append(@, me.pending)]
      BY <1>4, <2>3 DEF openNextChunk
    <3> HIDE DEF hasNext
    <3> QED
      BY <2>1, <3>1
  <2> QED
    BY <2>2, <2>3
<1>5. CASE CopyChunk(r)
  BY ZenonT(40), <1>5 DEF CopyChunk
<1>6. CASE ContainerWait(r) \/ DownloadEnds(r) \/ RestoreFails(r)
  BY <1>6 DEF ContainerWait, DownloadEnds, RestoreFails
<1> QED
  BY <1>1, <1>2, <1>3, <1>4, <1>5, <1>6 DEF RestoreSteps

LEMMA RestoreSeen ==
    ASSUME PInv, PInv', NEW r \in Restorers, RestoreSteps(r) \/ RestoreFails(r), Staying,
           UNCHANGED <<fileVars, sealedWith>>, NEW a \in Archives, Publishing(a), Publishing(a)'
    PROVE  StoreStep(a)
<1> USE DEF PInv
<1>1. SameFile(a)
  BY FileUntouched DEF fileVars
<1>2. ReaderTypes /\ Stored /\ FilesTypeOK
  BY DEF IInv
<1>3. ASSUME NEW q \in Restorers \ {r} PROVE Seen(a, q)' = Seen(a, q)
  BY <1>2, <1>3, OthersStay DEF Seen, Reading
<1>4. CASE OpenBackup(r)
  <2>1. PICK b \in Archives :
           /\ reader[r].stage = "idle" /\ reader'[r].archive = b
           /\ Publishing(b) => /\ reader'[r].stage \in Reading
                               /\ named[b] /\ content[b] = Whole(b)
    BY <1>2, <1>4, OpenCopied
  <2>2. Seen(a, r) = "idle"
    BY <2>1 DEF Seen, Reading
  <2>3. CASE b = a
    <3>1. Seen(a, r)' = "sound" /\ Under(a) = "whole"
      BY <2>1, <2>3 DEF Seen, Under, Reading
    <3> QED
      BY <1>1, <1>3, <2>2, <3>1, ReaderSeen
  <2>4. CASE b # a
    <3>1. Seen(a, r)' = "idle"
      BY <2>1, <2>4 DEF Seen
    <3> QED
      BY <1>1, <1>3, <2>2, <3>1, ReaderSeen
  <2> QED
    BY <2>3, <2>4
<1>5. CASE reader'[r] = reader[r]
  <2>1. Seen(a, r)' = Seen(a, r)
    BY <1>5 DEF Seen, Reading
  <2> QED
    BY <1>1, <1>3, <2>1, ReaderSeen
<1>6. CASE /\ reader[r].stage \in Reading /\ reader'[r].archive = reader[r].archive
           /\ reader'[r].stage \in Reading \cup {"ok", "failed"}
  <2>1. reader'[r].stage = "ok" /\ reader'[r].archive = a => reader'[r].got = Stream(a)
    BY GotWholeNext DEF ReadWhole
  <2>2. CASE reader[r].archive = a
    <3>1. Seen(a, r) = "sound" /\ Seen(a, r)' \in {"sound", "whole", "failed"}
      BY <1>6, <2>1, <2>2 DEF Seen, Reading
    <3> QED
      BY <1>1, <1>3, <3>1, ReaderSeen
  <2>3. CASE reader[r].archive # a
    <3>1. Seen(a, r) = "idle" /\ Seen(a, r)' = "idle"
      BY <1>6, <2>3 DEF Seen
    <3> QED
      BY <1>1, <1>3, <3>1, ReaderSeen
  <2> QED
    BY <2>2, <2>3
<1> QED
  BY <1>4, <1>5, <1>6, ReaderMoves

LEMMA ReaderStepLeaves ==
    ASSUME NEW r \in Restorers, RestoreSteps(r) \/ RestoreFails(r)
    PROVE  UNCHANGED <<fileVars, sealedWith>>
<1> USE DEF End, restoreVars
<1>1. CASE OpenBackup(r)
  BY <1>1 DEF OpenBackup
<1>2. CASE AskForOpening(r)
  BY <1>2 DEF AskForOpening
<1>3. CASE DecryptingReader(r) \/ CreateSidecar(r) \/ CloseWrite(r)
  BY <1>3 DEF DecryptingReader, CreateSidecar, CloseWrite
<1>4. CASE Prime(r)
  BY <1>4 DEF Prime
<1>5. CASE openNextChunk(r)
  BY <1>5 DEF openNextChunk
<1>6. CASE CopyChunk(r)
  BY <1>6 DEF CopyChunk
<1>7. CASE ContainerWait(r) \/ DownloadEnds(r) \/ RestoreFails(r)
  BY <1>7 DEF ContainerWait, DownloadEnds, RestoreFails
<1> QED
  BY <1>1, <1>2, <1>3, <1>4, <1>5, <1>6, <1>7 DEF RestoreSteps

LEMMA RestartSeen ==
    ASSUME IInv, Restart, NEW a \in Archives
    PROVE  StoreStep(a)
<1> DEFINE begun == {b \in Archives : save[b] = "new" /\ sealedWith[b] # NoKey}
           reads == [r \in Restorers |-> Seen(a, r)]
           cut == {r \in Restorers : reads[r] = "sound"}
<1>1. /\ UNCHANGED <<content, named, sealedWith>>
      /\ save'[a] = IF save[a] \in SaveActive \cup {"failed"} \/ a \in begun
                    THEN "killed" ELSE save[a]
  BY DEF Restart, FilesRestart
<1>2. save[a] \in {"new"} \cup SaveActive \cup SaveOver
  BY DEF IInv, FilesTypeOK
<1>3. Under(a)' = Under(a) /\ Saver(a)' = IF Saver(a) = "busy" THEN "failed" ELSE Saver(a)
  BY <1>1, <1>2 DEF Under, Saver, SaveActive, SaveOver
<1>4. ASSUME NEW r \in Restorers
      PROVE  Seen(a, r)' = IF Seen(a, r) = "sound" THEN "failed" ELSE Seen(a, r)
  <2>1. ReaderTypes /\ reader[r].stage \in {"idle"} \cup Reading \cup Ended
    BY DEF IInv, ReaderTypes, Reader
  <2>2. CASE reader[r].stage \in Reading
    BY <2>1, <2>2, RestartEndsReading DEF Seen, Reading
  <2>3. CASE reader[r].stage \notin Reading
    BY <2>1, <2>3, RestartEndsReading DEF Seen, Reading, Ended
  <2> QED
    BY <2>2, <2>3
<1>5. reads' = [r \in Restorers |-> IF r \in cut THEN "failed" ELSE reads[r]]
  BY <1>4
<1>6. cut \in SUBSET {r \in Restorers : reads[r] \notin {"whole", "failed"}}
  OBVIOUS
<1>7. Store(a)!Restart
  <2> HIDE DEF cut
  <2> QED
    BY <1>3, <1>5, <1>6 DEF Store!Restart
<1> QED
  BY <1>7 DEF StoreStep, Store!Next

\* What a step leaves alone that is no file call and moves no reader.
LEMMA StoreSteps ==
    ASSUME PInv, PInv', [Next]_vars, Staying, NEW a \in Archives, Publishing(a), Publishing(a)'
    PROVE  StoreStep(a)
<1> USE DEF PInv, restoreVars
<1>1. IInv
  OBVIOUS
<1>2. ASSUME NEW b \in Archives, SealAndSave(b) \/ BackupFails(b) \/ Delete(b)
      PROVE  StoreStep(a)
  BY <1>2, FileCallSeen DEF SealAndSave, BackupFails, Delete, FileCall
<1>3. ASSUME NEW b \in Archives, EncryptingReader(b) PROVE StoreStep(a)
  BY <1>3, SealingSeen DEF EncryptingReader, Sources
<1>4. ASSUME NEW f \in Fields, EncryptField(f) PROVE StoreStep(a)
  <2>1. f \in Sources /\ f \notin Archives
    BY FieldsAssumption DEF Sources
  <2> QED
    BY <1>4, <2>1, SealingSeen DEF EncryptField
<1>5. ASSUME NEW r \in Restorers, RestoreSteps(r) \/ RestoreFails(r) PROVE StoreStep(a)
  <2>1. UNCHANGED <<fileVars, sealedWith>>
    BY <1>5, ReaderStepLeaves
  <2> QED
    BY <1>5, <2>1, RestoreSeen
<1>6. CASE Restart
  BY <1>6, RestartSeen
<1>7. ASSUME NEW b \in Archives, "damage" \in load PROVE StoreStep(a)
  BY <1>7 DEF Publishing
<1>8. CASE UNCHANGED <<fileVars, sealedWith, reader>>
  BY <1>8, SealingSeen
<1>9. CASE Boot
  BY <1>8, <1>9 DEF Boot
<1>10. ASSUME NEW b \in Archives, AskForSealing(b) PROVE StoreStep(a)
  BY <1>8, <1>10 DEF AskForSealing
<1>11. ASSUME NEW f \in Fields, AskForField(f) \/ DecryptField(f) PROVE StoreStep(a)
  BY <1>8, <1>11 DEF AskForField, DecryptField
<1>12. ASSUME NEW c \in Callers, KeyFails(c) PROVE StoreStep(a)
  BY <1>8, <1>12 DEF KeyFails
<1>13. CASE UNCHANGED vars
  BY <1>8, <1>13 DEF vars
<1> QED
  BY <1>2, <1>3, <1>4, <1>5, <1>6, <1>7, <1>9, <1>10, <1>11, <1>12, <1>13 DEF Next, Faults

LEMMA StoreStarts ==
    ASSUME Init, NEW a \in Archives
    PROVE  Store(a)!Init
<1>1. save[a] = "new" /\ sealedWith[a] = NoKey /\ named[a] = FALSE
  BY DEF Init, FilesInit
<1>2. Under(a) = "absent" /\ Saver(a) = "idle"
  BY <1>1 DEF Under, Saver, SaveActive
<1>3. ASSUME NEW r \in Restorers PROVE Seen(a, r) = "idle"
  BY DEF Init, NewReader, Seen, Reading
<1>4. [r \in Restorers |-> Seen(a, r)] = [r \in Restorers |-> "idle"]
  BY <1>3
<1> QED
  BY <1>2, <1>4 DEF Store!Init

(* Where an archive appears by one call, a storage with the backups,         *)
(* deletions, restores and downloads that use it implements ArchiveStore, as *)
(* long as no source broke off: whoever read an archive to its end has all   *)
(* of it (local/model.go:38-169, azure_blob/model.go:68-209).                *)
THEOREM PublishingStores == Spec => Publishes
<1>1. Init => \A a \in Archives : Publishing(a) => Store(a)!Init
  BY StoreStarts
<1>2. PInv /\ PInv' /\ [Next]_vars =>
        [\A a \in Archives : Publishing(a)' => [Store(a)!Next]_(Store(a)!vars)]_vars
  <2> SUFFICES ASSUME PInv, PInv', [Next]_vars, NEW a \in Archives, Publishing(a)'
               PROVE  StoreStep(a)
    BY DEF StoreStep
  <2>1. Staying
    BY StaysPublishing DEF PInv, IInv
  <2>2. Publishing(a)
    BY <2>1 DEF Staying
  <2> QED
    BY <2>1, <2>2, StoreSteps
<1> QED
  BY <1>1, <1>2, PInvInit, PInvStep, PTL DEF Spec, Publishes
=============================================================================
