--------------------------- MODULE RestoresProofs ----------------------------
(****************************************************************************)
(* The safety properties of Restores, for every set of archives, fields,    *)
(* callers and requests, archives of every length, every damage and every   *)
(* load.                                                                    *)
(*                                                                          *)
(* The invariant has three parts, which meet in few places: what a storage  *)
(* holds at each stage of a save (Stored), whose key is in which hands      *)
(* (Shared), and what a reader has read (Read).                             *)
(****************************************************************************)
EXTENDS Restores, TLAPS, SequenceTheorems

----------------------------------------------------------------------------
(* The files.                                                               *)

\* The first n chunks of an archive, as a save writes them.
Part(a, n) ==
    IF n = 0 THEN Empty ELSE [head |-> a, chunks |-> [i \in 1..n |-> Sealed(a, i)]]

Growing(a) == {Part(a, n) : n \in 0..Length}

LEMMA PartIsFile ==
    ASSUME NEW a \in Archives, NEW n \in 0..Length
    PROVE  /\ Part(a, n) \in File
           /\ Len(Part(a, n).chunks) = n
<1> DEFINE s == [i \in 1..n |-> Sealed(a, i)]
<1>1. n \in Nat /\ \A i \in 1..n : Sealed(a, i) \in Chunk
  BY LengthAssumption DEF Chunk
<1>2. s \in Seq(Chunk \cup {Foreign}) /\ Len(s) = n
  BY <1>1
<1>3. CASE n = 0
  BY <1>3 DEF Part, Empty, File
<1>4. CASE n # 0
  BY <1>2, <1>4 DEF Part, File
<1> QED
  BY <1>3, <1>4

LEMMA GrowingIsFile ==
    ASSUME NEW a \in Archives, NEW f \in Growing(a)
    PROVE  f \in File /\ Len(f.chunks) \in 0..Length
  BY PartIsFile DEF Growing

LEMMA EmptyGrows == ASSUME NEW a \in Archives PROVE Empty \in Growing(a)
<1>1. 0 \in 0..Length /\ Part(a, 0) = Empty
  BY LengthAssumption DEF Part
<1> QED
  BY <1>1 DEF Growing

LEMMA WholeGrows == ASSUME NEW a \in Archives PROVE Whole(a) \in Growing(a)
<1>1. Length \in 0..Length /\ Part(a, Length) = Whole(a)
  BY LengthAssumption DEF Part, Whole, Stream
<1> QED
  BY <1>1 DEF Growing

\* A chunk more of a partial archive makes a longer one.
LEMMA GrownGrows ==
    ASSUME NEW a \in Archives, NEW f \in Growing(a), Unfinished(f)
    PROVE  Grown(f, a) \in Growing(a)
<1>1. PICK n \in 0..Length : f = Part(a, n)
  BY DEF Growing
<1>2. Len(f.chunks) = n /\ n \in Nat /\ n + 1 \in 1..Length
  BY <1>1, PartIsFile, LengthAssumption DEF Unfinished
<1> DEFINE s == [i \in 1..n |-> Sealed(a, i)]
           t == [i \in 1..(n + 1) |-> Sealed(a, i)]
<1>3. s \in Seq(Chunk) /\ Len(s) = n
  <2>1. \A i \in 1..n : Sealed(a, i) \in Chunk
    BY <1>2, LengthAssumption DEF Chunk
  <2> QED
    BY <1>2, <2>1
<1>4. f.chunks = s
  <2>1. CASE n = 0
    BY <1>1, <1>2, <2>1 DEF Part, Empty
  <2>2. CASE n # 0
    BY <1>1, <2>2 DEF Part
  <2> QED
    BY <2>1, <2>2
<1>5. Stream(a)[n + 1] = Sealed(a, n + 1) /\ Sealed(a, n + 1) \in Chunk
  BY <1>2 DEF Stream, Chunk
<1>6. Append(s, Sealed(a, n + 1)) = t
  <2>1. \A i \in 1..(n + 1) : Append(s, Sealed(a, n + 1))[i] = t[i]
    BY <1>2, <1>3, <1>5
  <2>2. Len(Append(s, Sealed(a, n + 1))) = n + 1 /\ Append(s, Sealed(a, n + 1)) \in Seq(Chunk)
    BY <1>3, <1>5
  <2>3. t \in Seq(Chunk) /\ Len(t) = n + 1
    <3>1. \A i \in 1..(n + 1) : Sealed(a, i) \in Chunk
      BY <1>2, LengthAssumption DEF Chunk
    <3> QED
      BY <1>2, <3>1
  <2> HIDE DEF s, t
  <2> QED
    BY <2>1, <2>2, <2>3, SeqEqual
<1>7. Grown(f, a) = Part(a, n + 1)
  <2>1. Part(a, n + 1) = [head |-> a, chunks |-> t]
    BY <1>2 DEF Part
  <2>2. Grown(f, a) = [head |-> a, chunks |-> Append(s, Sealed(a, n + 1))]
    BY <1>2, <1>4, <1>5 DEF Grown
  <2> QED
    BY <1>6, <2>1, <2>2
<1> QED
  BY <1>2, <1>7 DEF Growing

LEMMA FinishedIsWhole ==
    ASSUME NEW a \in Archives, NEW f \in Growing(a), ~Unfinished(f)
    PROVE  f = Whole(a)
<1>1. PICK n \in 0..Length : f = Part(a, n)
  BY DEF Growing
<1>2. n = Length /\ n # 0
  BY <1>1, PartIsFile, LengthAssumption DEF Unfinished
<1> QED
  BY <1>1, <1>2 DEF Part, Whole, Stream

----------------------------------------------------------------------------
\* What a storage holds at each stage of a save.
Held(a) ==
    \/ /\ save[a] = "new"
       /\ content[a] = None /\ ~named[a] /\ aside[a] = None
    \/ /\ save[a] = "writing" /\ kind \in InPlace
       /\ content[a] \in Growing(a) /\ aside[a] = None
    \/ /\ save[a] = "writing" /\ kind \notin InPlace
       /\ content[a] = None /\ ~named[a] /\ aside[a] \in Growing(a)
    \/ /\ save[a] = "moving" /\ kind \in Local
       /\ content[a] = None /\ ~named[a] /\ aside[a] = Whole(a)
    \/ /\ save[a] = "copying" /\ kind = "split"
       /\ content[a] \in Growing(a) /\ aside[a] = Whole(a)
    \/ /\ save[a] = "saved"
       /\ content[a] \in File /\ aside[a] = None
       /\ "damage" \notin load => content[a] = Whole(a)
    \/ /\ save[a] = "cut" /\ kind \in Cutting /\ a \notin Encrypted
       /\ content[a] \in Growing(a) /\ aside[a] = None
    \/ /\ save[a] \in {"failed", "killed"}
       /\ content[a] \in Growing(a) \cup {None}
       /\ content[a] = None => ~named[a]
       /\ kind \notin InPlace \cup {"split"} => content[a] \in {None, Whole(a)}
       /\ aside[a] \in Growing(a) \cup {None}
       /\ save[a] = "killed" /\ kind \in Local /\ aside[a] # None => uncleaned

\* What a deletion was answered, and whether the name is there.
Told(a) ==
    /\ deletion[a] \in {"gone", "unseen", "error"} => save[a] \in SaveOver
    /\ deletion[a] = "gone" => ~named[a]
    /\ content[a] # None /\ ~named[a] =>
          deletion[a] \in {"early", "gone", "error"} \/ save[a] \in {"failed", "killed"}

Stored == \A a \in Archives : Held(a) /\ Told(a)

\* Who writes files.
FileStep ==
    \/ \E a \in Archives : SaveFile(a) \/ SaveFails(a) \/ DeleteFile(a) \/ DeleteFails(a)
    \/ \E a \in Archives : CommitFails(a) \/ (a \notin Encrypted /\ SourceBreaksOff(a))
    \/ \E a \in Archives, f \in Damages : "damage" \in load /\ Damage(a, f)
    \/ \E begun, left \in SUBSET Archives :
          (\A a \in begun : save[a] = "new") /\ FilesRestart(begun, left)

LEMMA NextFiles ==
    ASSUME [Next]_vars
    PROVE  UNCHANGED load /\ (FileStep \/ UNCHANGED fileVars)
<1> USE DEF restoreVars
<1>1. CASE UNCHANGED vars
  BY <1>1 DEF vars
<1>2. CASE Boot
  BY <1>2 DEF Boot
<1>3. ASSUME NEW a \in Archives,
             AskForSealing(a) \/ EncryptingReader(a) \/ SealAndSave(a) \/ BackupFails(a) \/ Delete(a)
      PROVE  UNCHANGED load /\ (FileStep \/ UNCHANGED fileVars)
  BY <1>3 DEF AskForSealing, EncryptingReader, SealAndSave, BackupFails, Delete, FileStep
<1>4. ASSUME NEW f \in Fields, AskForField(f) \/ EncryptField(f) \/ DecryptField(f)
      PROVE  UNCHANGED load /\ UNCHANGED fileVars
  BY <1>4 DEF AskForField, EncryptField, DecryptField
<1>5. ASSUME NEW a \in Archives, "damage" \in load, DamageFile(a)
      PROVE  UNCHANGED load /\ FileStep
  BY <1>5 DEF DamageFile, FileStep
<1>6. ASSUME NEW r \in Restorers, RestoreSteps(r) \/ RestoreFails(r)
      PROVE  UNCHANGED load /\ UNCHANGED fileVars
  <2> USE DEF End
  <2>1. CASE OpenBackup(r)
    BY <2>1 DEF OpenBackup
  <2>2. CASE AskForOpening(r) \/ DecryptingReader(r) \/ CreateSidecar(r) \/ CloseWrite(r)
    BY <2>2 DEF AskForOpening, DecryptingReader, CreateSidecar, CloseWrite
  <2>3. CASE Prime(r) \/ CopyChunk(r)
    BY <2>3 DEF Prime, CopyChunk
  <2>4. CASE openNextChunk(r)
    BY <2>4 DEF openNextChunk
  <2>5. CASE ContainerWait(r) \/ DownloadEnds(r) \/ RestoreFails(r)
    BY <2>5 DEF ContainerWait, DownloadEnds, RestoreFails
  <2> QED
    BY <1>6, <2>1, <2>2, <2>3, <2>4, <2>5 DEF RestoreSteps
<1>7. ASSUME NEW c \in Callers, KeyFails(c)
      PROVE  UNCHANGED load /\ UNCHANGED fileVars
  BY <1>7 DEF KeyFails
<1>8. CASE Restart
  <2> DEFINE begun == {a \in Archives : save[a] = "new" /\ sealedWith[a] # NoKey}
  <2>1. begun \in SUBSET Archives /\ \A a \in begun : save[a] = "new"
    OBVIOUS
  <2>2. UNCHANGED load /\ \E left \in SUBSET Archives : FilesRestart(begun, left)
    BY <1>8 DEF Restart
  <2> HIDE DEF begun
  <2> QED
    BY <2>1, <2>2 DEF FileStep
<1> QED
  BY <1>1, <1>2, <1>3, <1>4, <1>5, <1>6, <1>7, <1>8 DEF Next, Faults

\* A step that changes nothing of an archive keeps what holds of it.
LEMMA OtherFile ==
    ASSUME NEW a, Held(a), Told(a), UNCHANGED <<kind, load, uncleaned>>,
           content'[a] = content[a], named'[a] = named[a], aside'[a] = aside[a],
           save'[a] = save[a], deletion'[a] = deletion[a]
    PROVE  Held(a)' /\ Told(a)'
  BY DEF Held, Told, Growing

\* A step of the files of one archive.
OnlyAbout(a) ==
    /\ UNCHANGED <<kind, load, uncleaned>>
    /\ \A b \in Archives \ {a} :
          /\ content'[b] = content[b] /\ named'[b] = named[b] /\ aside'[b] = aside[b]
          /\ save'[b] = save[b] /\ deletion'[b] = deletion[b]

LEMMA OneStored ==
    ASSUME NEW a \in Archives, Stored, OnlyAbout(a), Held(a)', Told(a)'
    PROVE  Stored'
<1> SUFFICES ASSUME NEW b \in Archives PROVE Held(b)' /\ Told(b)'
  BY DEF Stored
<1>1. CASE b = a
  BY <1>1
<1>2. CASE b # a
  BY <1>2, OtherFile DEF Stored, OnlyAbout
<1> QED
  BY <1>1, <1>2

\* The parts of a save.
LEMMA SaveStored ==
    ASSUME FilesTypeOK, Stored, UNCHANGED load, NEW a \in Archives, SaveFile(a)
    PROVE  Stored'
<1> USE LengthAssumption, NoFileAssumption, EmptyGrows, WholeGrows, GrowingIsFile
    DEF FilesTypeOK, Becomes, SaveOver
<1> DEFINE Goal == OnlyAbout(a) /\ Held(a)' /\ Told(a)'
<1>0. Held(a) /\ Told(a) /\ Whole(a) \in File
  BY DEF Stored
<1>1. ASSUME CreateUnderName(a), kind \in InPlace PROVE Goal
  BY <1>0, <1>1 DEF CreateUnderName, Publish, OnlyAbout, Held, Told, InPlace
<1>2. ASSUME CreateAside(a), kind \notin InPlace PROVE Goal
  BY <1>0, <1>2 DEF CreateAside, OnlyAbout, Held, Told
<1>3. ASSUME WriteUnderName(a), kind \in InPlace PROVE Goal
  <2>1. content[a] \in Growing(a) /\ Grown(content[a], a) \in Growing(a)
    BY <1>0, <1>3, GrownGrows DEF WriteUnderName, Held
  <2> QED
    BY <1>0, <1>3, <2>1 DEF WriteUnderName, OnlyAbout, Held, Told
<1>4. ASSUME WriteAside(a), kind \notin InPlace PROVE Goal
  <2>1. aside[a] \in Growing(a) /\ Grown(aside[a], a) \in Growing(a)
    BY <1>0, <1>4, GrownGrows DEF WriteAside, Held
  <2> QED
    BY <1>0, <1>4, <2>1 DEF WriteAside, OnlyAbout, Held, Told
<1>5. ASSUME EndUnderName(a), kind \in InPlace PROVE Goal
  <2>1. content[a] = Whole(a)
    BY <1>0, <1>5, FinishedIsWhole DEF EndUnderName, Held
  <2> QED
    BY <1>0, <1>5, <2>1 DEF EndUnderName, OnlyAbout, Held, Told
<1>6. ASSUME NEW stage \in {"writing", "moving"}, PublishAside(a, stage), kind \notin InPlace
      PROVE  Goal
  <2>1. aside[a] = Whole(a)
    BY <1>0, <1>6, FinishedIsWhole DEF PublishAside, Held
  <2> QED
    BY <1>0, <1>6, <2>1 DEF PublishAside, Appear, Publish, OnlyAbout, Held, Told
<1>7. ASSUME CloseTempFile(a) PROVE Goal
  <2>1. aside[a] = Whole(a)
    BY <1>0, <1>7, FinishedIsWhole DEF CloseTempFile, Held, Local, InPlace
  <2> QED
    BY <1>0, <1>7, <2>1 DEF CloseTempFile, OnlyAbout, Held, Told, Local, InPlace
<1>8. ASSUME CreateDestination(a) PROVE Goal
  BY <1>0, <1>8 DEF CreateDestination, Publish, OnlyAbout, Held, Told, InPlace
<1>9. ASSUME CopyToDestination(a) PROVE Goal
  <2>1. content[a] \in Growing(a) /\ Grown(content[a], a) \in Growing(a)
    BY <1>0, <1>9, GrownGrows DEF CopyToDestination, Held
  <2> QED
    BY <1>0, <1>9, <2>1 DEF CopyToDestination, OnlyAbout, Held, Told
<1>10. ASSUME RemoveSource(a) PROVE Goal
  <2>1. content[a] = Whole(a)
    BY <1>0, <1>10, FinishedIsWhole DEF RemoveSource, Held
  <2> QED
    BY <1>0, <1>10, <2>1 DEF RemoveSource, OnlyAbout, Held, Told
<1>11. CASE SaveLocalFile(a)
  BY <1>11, <1>2, <1>4, <1>6, <1>7, <1>8, <1>9, <1>10, OneStored
  DEF SaveLocalFile, CreateTempFile, WriteTempFile, Rename, Local, InPlace
<1>12. CASE SaveNasFile(a) \/ SaveSftpFile(a) \/ SaveFtpFile(a)
  BY <1>12, <1>1, <1>3, <1>5, OneStored
  DEF SaveNasFile, SaveSftpFile, SaveFtpFile, SaveUnderName, InPlace
<1>13. CASE SaveAzureFile(a) \/ SaveRcloneFile(a)
  BY <1>13, <1>1, <1>2, <1>3, <1>4, <1>5, <1>6, OneStored
  DEF SaveAzureFile, SaveRcloneFile, SaveAside, SaveUnderName, InPlace
<1> QED
  BY <1>11, <1>12, <1>13 DEF SaveFile

LEMMA FileStepStored ==
    ASSUME FilesTypeOK, Stored, UNCHANGED load, FileStep
    PROVE  Stored'
<1> USE LengthAssumption, NoFileAssumption, EmptyGrows, WholeGrows, GrowingIsFile
    DEF FilesTypeOK, Becomes, SaveOver
<1>1. ASSUME NEW a \in Archives, SaveFile(a) PROVE Stored'
  BY <1>1, SaveStored
<1>2. ASSUME NEW a \in Archives, SaveFails(a) PROVE Stored'
  <2>1. Held(a) /\ Told(a)
    BY DEF Stored
  <2>2. OnlyAbout(a) /\ Held(a)' /\ Told(a)'
    BY <1>2, <2>1 DEF SaveFails, OnlyAbout, Held, Told, SaveActive, Local, InPlace
  <2> QED
    BY <2>2, OneStored
<1>3. ASSUME NEW a \in Archives, DeleteFile(a) \/ DeleteFails(a) PROVE Stored'
  <2>1. Held(a) /\ Told(a)
    BY DEF Stored
  <2>2. Missing(a) \/ Unlink(a) \/ StatFails(a) \/ DeleteFails(a)
    BY <1>3 DEF DeleteFile, DeleteLocalFile, DeleteNasFile, DeleteSftpFile, DeleteFtpFile,
                DeleteAzureFile, DeleteRcloneFile
  <2>3. OnlyAbout(a) /\ Held(a)' /\ Told(a)'
    BY <2>1, <2>2 DEF Missing, Unlink, StatFails, DeleteFails, Answered, OnlyAbout, Held, Told, SaveActive
  <2> QED
    BY <2>3, OneStored
<1>4. ASSUME NEW a \in Archives, NEW f \in Damages, "damage" \in load, Damage(a, f) PROVE Stored'
  <2>1. Held(a) /\ Told(a) /\ f \in File
    BY DamagesAssumption DEF Stored
  <2>2. OnlyAbout(a) /\ Held(a)' /\ Told(a)'
    BY <1>4, <2>1 DEF Damage, OnlyAbout, Held, Told
  <2> QED
    BY <2>2, OneStored
<1>5. ASSUME NEW begun \in SUBSET Archives, NEW left \in SUBSET Archives,
             \A a \in begun : save[a] = "new", FilesRestart(begun, left)
      PROVE  Stored'
  <2> SUFFICES ASSUME NEW a \in Archives PROVE Held(a)' /\ Told(a)'
    BY DEF Stored
  <2>1. Held(a) /\ Told(a)
    BY DEF Stored
  <2>2. Told(a)'
    BY <1>5, <2>1 DEF FilesRestart, Told, SaveActive
  <2>3. Held(a)'
    BY <1>5, <2>1 DEF FilesRestart, Held, SaveActive, Local, InPlace
  <2> QED
    BY <2>2, <2>3
<1>6. ASSUME NEW a \in Archives, CommitFails(a) PROVE Stored'
  <2>1. Held(a) /\ Told(a)
    BY DEF Stored
  <2>2. aside[a] = Whole(a) /\ kind \in {"azure", "rclone"}
    BY <1>6, <2>1, FinishedIsWhole DEF CommitFails, Held, InPlace
  <2>3. OnlyAbout(a) /\ Held(a)' /\ Told(a)'
    BY <1>6, <2>1, <2>2 DEF CommitFails, Appear, Publish, OnlyAbout, Held, Told, Local
  <2> QED
    BY <2>3, OneStored
<1>7. ASSUME NEW a \in Archives, a \notin Encrypted, SourceBreaksOff(a) PROVE Stored'
  <2>1. Held(a) /\ Told(a)
    BY DEF Stored
  <2>2. CASE kind \in InPlace
    BY <1>7, <2>1, <2>2, OneStored DEF SourceBreaksOff, OnlyAbout, Held, Told
  <2>3. CASE kind \notin InPlace
    <3>1. aside[a] \in Growing(a)
      BY <1>7, <2>1, <2>3 DEF SourceBreaksOff, Held
    <3>2. OnlyAbout(a) /\ Held(a)' /\ Told(a)'
      BY <1>7, <2>1, <2>3, <3>1 DEF SourceBreaksOff, Appear, Publish, OnlyAbout, Held, Told
    <3> QED
      BY <3>2, OneStored
  <2> QED
    BY <2>2, <2>3
<1> QED
  BY <1>1, <1>2, <1>3, <1>4, <1>5, <1>6, <1>7 DEF FileStep

----------------------------------------------------------------------------
(* The keys.                                                                *)

Sources == Archives \cup Fields

\* The move of the key, and what a call has in hand.
Moved ==
    /\ boot # "up" => cachedKey = NoKey /\ \A c \in Callers : call[c] \in {"idle", "failed"}
    /\ boot = "up" => dbKey = NoKey
    /\ "upgrade" \notin load => dbKey = NoKey
    /\ boot \in {"write", "writing", "delete"} => dbKey = OldKey
    /\ boot = "delete" => keyFile = OldKey
    /\ dbKey = OldKey => \A s \in Sources : sealedWith[s] = NoKey
    /\ "upgrade" \in load /\ dbKey = NoKey =>
          keyFile = OldKey /\ \A c \in Callers : ~Creating(c)
    /\ \A c \in Callers : call[c] \in {"read", "got"} => keyOf[c] # NoKey
    /\ \A c \in Callers : Creating(c) => keyOf[c] \in Keys
    /\ \A f \in Fields : field[f] \in {"sealed", "read"} => sealedWith[f] # NoKey

\* While nothing went wrong, one caller writes the file, before anybody has a
\* key; then everybody has the key of the file.
Shared ==
    ~upset =>
        /\ \A c, d \in Callers : Creating(c) /\ Creating(d) => c = d
        /\ \A c \in Callers : call[c] = "missed" => keyFile = NoKey
        /\ \A c \in Callers : call[c] = "writing" => keyFile = Torn
        /\ keyFile = Torn => dbKey = OldKey \/ \E c \in Callers : call[c] = "writing"
        /\ keyFile \in {NoKey, Torn} =>
              /\ cachedKey = NoKey
              /\ \A s \in Sources : sealedWith[s] = NoKey
              /\ \A c \in Callers : call[c] \notin {"read", "got"}
        /\ cachedKey \in {NoKey, keyFile}
        /\ \A s \in Sources : sealedWith[s] \in {NoKey, keyFile}
        /\ \A c \in Callers : call[c] \in {"read", "got"} => keyOf[c] = keyFile
        /\ \A f \in Fields : field[f] # "lost"

KeyTypes ==
    /\ KeysTypeOK
    /\ sealedWith \in [Sources -> AnyKey \cup {NoKey}]
    /\ field \in [Fields -> {"new", "sealed", "read", "lost"}]

sealVars == <<sealedWith, field>>

\* A key is used: an archive is sealed, a field is encrypted or decrypted.
Sealing(s) ==
    /\ call[s] = "got" /\ Spend(s)
    /\ sealedWith' = [sealedWith EXCEPT ![s] = keyOf[s]]
    /\ \/ s \in Archives /\ UNCHANGED field
       \/ s \in Fields /\ field' = [field EXCEPT ![s] = "sealed"]

Decrypting(f) ==
    /\ field[f] \in {"sealed", "read"}
    /\ call[f] = "got" /\ Spend(f)
    /\ field' = [field EXCEPT ![f] = IF keyOf[f] = sealedWith[f] THEN "read" ELSE "lost"]
    /\ UNCHANGED sealedWith

KeyStep ==
    \/ (Migrate \/ KeysRestart \/ \E c \in Callers : GetSecretKey(c) \/ GetSecretKeyFails(c))
          /\ UNCHANGED sealVars
    \/ \E s \in Sources : Sealing(s)
    \/ \E f \in Fields : Decrypting(f)

LEMMA NextKeys ==
    ASSUME [Next]_vars
    PROVE  KeyStep \/ UNCHANGED <<keyVars, sealVars>>
<1> USE CallersAssumption, ArchivesAssumption DEF restoreVars, sealVars
<1>1. CASE UNCHANGED vars
  BY <1>1 DEF vars
<1>2. CASE Boot
  BY <1>2 DEF Boot, KeyStep
<1>3. ASSUME NEW a \in Archives, AskForSealing(a) \/ SealAndSave(a) \/ BackupFails(a) \/ Delete(a)
      PROVE  KeyStep \/ UNCHANGED <<keyVars, sealVars>>
  BY <1>3 DEF AskForSealing, SealAndSave, BackupFails, Delete, KeyStep
<1>4. ASSUME NEW a \in Archives, EncryptingReader(a) PROVE KeyStep
  BY <1>4 DEF EncryptingReader, KeyStep, Sealing, Sources
<1>5. ASSUME NEW f \in Fields, AskForField(f) \/ EncryptField(f) \/ DecryptField(f)
      PROVE  KeyStep
  <2>1. CASE AskForField(f)
    BY <2>1 DEF AskForField, KeyStep
  <2>2. CASE EncryptField(f)
    BY <2>2 DEF EncryptField, KeyStep, Sealing, Sources
  <2>3. CASE DecryptField(f)
    BY <2>3 DEF DecryptField, KeyStep, Decrypting
  <2> QED
    BY <1>5, <2>1, <2>2, <2>3
<1>6. ASSUME NEW a \in Archives, DamageFile(a) PROVE UNCHANGED <<keyVars, sealVars>>
  BY <1>6 DEF DamageFile
<1>7. ASSUME NEW r \in Restorers, RestoreSteps(r) \/ RestoreFails(r)
      PROVE  KeyStep \/ UNCHANGED <<keyVars, sealVars>>
  <2> USE DEF End
  <2>1. CASE OpenBackup(r)
    BY <2>1 DEF OpenBackup
  <2>2. CASE AskForOpening(r)
    BY <2>2 DEF AskForOpening, KeyStep
  <2>3. CASE DecryptingReader(r) \/ CreateSidecar(r) \/ CloseWrite(r)
    BY <2>3 DEF DecryptingReader, CreateSidecar, CloseWrite
  <2>4. CASE Prime(r) \/ CopyChunk(r)
    BY <2>4 DEF Prime, CopyChunk
  <2>5. CASE openNextChunk(r)
    BY <2>5 DEF openNextChunk
  <2>6. CASE ContainerWait(r) \/ DownloadEnds(r) \/ RestoreFails(r)
    BY <2>6 DEF ContainerWait, DownloadEnds, RestoreFails
  <2> QED
    BY <1>7, <2>1, <2>2, <2>3, <2>4, <2>5, <2>6 DEF RestoreSteps
<1>8. ASSUME NEW c \in Callers, KeyFails(c) PROVE KeyStep
  BY <1>8 DEF KeyFails, KeyStep
<1>9. CASE Restart
  BY <1>9 DEF Restart, KeyStep
<1> QED
  BY <1>1, <1>2, <1>3, <1>4, <1>5, <1>6, <1>7, <1>8, <1>9 DEF Next, Faults

\* The move at the start of the process.
LEMMA MigrateKeeps ==
    ASSUME KeyTypes, Moved, Shared, UNCHANGED <<load, sealVars>>, Migrate
    PROVE  KeyTypes' /\ Moved' /\ Shared'
<1> USE KeysAssumption, OldKeyAssumption
    DEF KeyTypes, KeysTypeOK, AnyKey, Sources, Creating, sealVars
<1>1. CASE CheckForKeyInDb
  BY <1>1 DEF CheckForKeyInDb, Moved, Shared
<1>2. CASE OpenMigratedFile
  BY <1>2 DEF OpenMigratedFile, Moved, Shared
<1>3. CASE WriteMigratedKey
  BY <1>3 DEF WriteMigratedKey, Moved, Shared
<1>4. CASE DeleteKeyFromDb
  BY <1>4 DEF DeleteKeyFromDb, Moved, Shared
<1> QED
  BY <1>1, <1>2, <1>3, <1>4 DEF Migrate

\* The steps of a caller.
LEMMA GetKeeps ==
    ASSUME KeyTypes, Moved, Shared, UNCHANGED <<load, sealVars>>,
           NEW c \in Callers, GetSecretKey(c) \/ GetSecretKeyFails(c)
    PROVE  KeyTypes' /\ Moved' /\ Shared'
<1> USE KeysAssumption, OldKeyAssumption
    DEF KeyTypes, KeysTypeOK, AnyKey, Sources, Creating, OthersCreate, Answer, sealVars
<1>1. CASE UseCachedKey(c)
  BY <1>1 DEF UseCachedKey, Moved, Shared
<1>2. CASE ReadKeyFile(c)
  <2>1. KeyTypes'
    BY <1>2 DEF ReadKeyFile
  <2>2. Moved'
    BY <1>2 DEF ReadKeyFile, Moved
  <2>3. Shared'
    <3> SUFFICES ASSUME ~upset' PROVE Shared'
      BY DEF Shared
    <3>1. boot = "up" /\ ~upset /\ \A other \in Callers \ {c} : ~Creating(other)
      BY <1>2 DEF ReadKeyFile
    <3>2. keyFile \notin {NoKey, Torn}
      BY <1>2, <3>1 DEF ReadKeyFile, Moved, Shared
    <3> QED
      BY <1>2, <3>1, <3>2 DEF ReadKeyFile, Shared
  <2> QED
    BY <2>1, <2>2, <2>3
<1>3. CASE CacheReadKey(c)
  BY <1>3 DEF CacheReadKey, Moved, Shared
<1>4. CASE MissKeyFile(c)
  <2>1. PICK key \in Keys : keyOf' = [keyOf EXCEPT ![c] = key]
    BY <1>4 DEF MissKeyFile, generateNewSecretKey
  <2>2. KeyTypes'
    BY <1>4, <2>1 DEF MissKeyFile
  <2>3. Moved'
    BY <1>4, <2>1 DEF MissKeyFile, Moved
  <2>4. Shared'
    <3> SUFFICES ASSUME ~upset' PROVE Shared'
      BY DEF Shared
    <3>1. ~upset /\ \A other \in Callers \ {c} : ~Creating(other)
      BY <1>4 DEF MissKeyFile
    <3> QED
      BY <1>4, <2>1, <3>1 DEF MissKeyFile, Shared
  <2> QED
    BY <2>2, <2>3, <2>4
<1>5. CASE OpenKeyFile(c)
  BY <1>5 DEF OpenKeyFile, Moved, Shared
<1>6. CASE WriteKeyFile(c)
  BY <1>6 DEF WriteKeyFile, Moved, Shared
<1>7. CASE GetSecretKeyFails(c)
  BY ZenonT(40), <1>7 DEF GetSecretKeyFails, Moved, Shared
<1> QED
  BY <1>1, <1>2, <1>3, <1>4, <1>5, <1>6, <1>7 DEF GetSecretKey

\* The key in use.
LEMMA UseKeeps ==
    ASSUME KeyTypes, Moved, Shared, UNCHANGED load,
           (\E s \in Sources : Sealing(s)) \/ (\E f \in Fields : Decrypting(f))
    PROVE  KeyTypes' /\ Moved' /\ Shared'
<1> USE KeysAssumption, OldKeyAssumption, CallersAssumption
    DEF KeyTypes, KeysTypeOK, AnyKey, Sources, Creating, Spend
<1>1. ASSUME NEW s \in Sources, Sealing(s) PROVE KeyTypes' /\ Moved' /\ Shared'
  BY <1>1 DEF Sealing, Moved, Shared
<1>2. ASSUME NEW f \in Fields, Decrypting(f) PROVE KeyTypes' /\ Moved' /\ Shared'
  BY <1>2 DEF Decrypting, Moved, Shared
<1> QED
  BY <1>1, <1>2

LEMMA KeyStepKeeps ==
    ASSUME KeyTypes, Moved, Shared, UNCHANGED load, KeyStep
    PROVE  KeyTypes' /\ Moved' /\ Shared'
<1>1. CASE KeysRestart /\ UNCHANGED sealVars
  BY <1>1 DEF KeysRestart, KeyTypes, KeysTypeOK, Moved, Shared, Creating, sealVars, Sources
<1> QED
  BY <1>1, MigrateKeeps, GetKeeps, UseKeeps DEF KeyStep
----------------------------------------------------------------------------
(* The types of the files.                                                  *)

\* A file under a name is a file from then on.
Lasting == \A a \in Archives : content[a] \in File => content'[a] \in File

LEMMA GrownIsFile ==
    ASSUME NEW a \in Archives, NEW f \in File, Unfinished(f)
    PROVE  Grown(f, a) \in File
<1>1. f.chunks \in Seq(Chunk \cup {Foreign}) /\ Len(f.chunks) + 1 \in 1..Length
  BY LengthAssumption DEF File, Unfinished
<1>2. Stream(a)[Len(f.chunks) + 1] \in Chunk
  BY <1>1 DEF Stream, Chunk
<1>3. Append(f.chunks, Stream(a)[Len(f.chunks) + 1]) \in Seq(Chunk \cup {Foreign})
  BY <1>1, <1>2
<1> QED
  BY <1>3 DEF Grown, File

LEMMA FileStepTypes ==
    ASSUME FilesTypeOK, Stored, FileStep
    PROVE  FilesTypeOK' /\ Lasting
<1> USE DEF FilesTypeOK, Becomes, Lasting, SaveActive, SaveOver
<1> DEFINE Goal == FilesTypeOK' /\ Lasting
<1>1. ASSUME NEW a \in Archives, SaveFile(a) PROVE Goal
  <2>0. Empty \in File /\ Held(a)
    BY EmptyGrows, GrowingIsFile, <1>1 DEF Stored
  <2>1. ASSUME CreateUnderName(a) PROVE Goal
    BY <2>0, <2>1 DEF CreateUnderName, Publish
  <2>2. ASSUME CreateAside(a) PROVE Goal
    BY <2>0, <2>2 DEF CreateAside
  <2>3. ASSUME WriteUnderName(a), kind \in InPlace PROVE Goal
    BY <2>0, <2>3, GrowingIsFile, GrownIsFile DEF WriteUnderName, Held
  <2>4. ASSUME WriteAside(a), kind \notin InPlace PROVE Goal
    BY <2>0, <2>4, GrowingIsFile, GrownIsFile DEF WriteAside, Held
  <2>5. ASSUME EndUnderName(a) PROVE Goal
    BY <2>5 DEF EndUnderName
  <2>6. ASSUME NEW stage \in {"writing", "moving"}, PublishAside(a, stage), kind \notin InPlace PROVE Goal
    <3>1. aside[a] \in File
      BY <2>0, <2>6, GrowingIsFile, WholeGrows DEF PublishAside, Held
    <3> QED
      BY <2>6, <3>1 DEF PublishAside, Appear, Publish
  <2>7. ASSUME CloseTempFile(a) PROVE Goal
    BY <2>7 DEF CloseTempFile
  <2>8. ASSUME CreateDestination(a) PROVE Goal
    BY <2>0, <2>8 DEF CreateDestination, Publish
  <2>9. ASSUME CopyToDestination(a) PROVE Goal
    BY <2>0, <2>9, GrowingIsFile, GrownIsFile DEF CopyToDestination, Held
  <2>10. ASSUME RemoveSource(a) PROVE Goal
    BY <2>10 DEF RemoveSource
  <2>11. CASE SaveLocalFile(a)
    BY <2>11, <2>2, <2>4, <2>6, <2>7, <2>8, <2>9, <2>10
    DEF SaveLocalFile, CreateTempFile, WriteTempFile, Rename, Local, InPlace
  <2>12. CASE SaveNasFile(a) \/ SaveSftpFile(a) \/ SaveFtpFile(a)
    BY <2>12, <2>1, <2>3, <2>5 DEF SaveNasFile, SaveSftpFile, SaveFtpFile, SaveUnderName, InPlace
  <2>13. CASE SaveAzureFile(a) \/ SaveRcloneFile(a)
    BY <2>13, <2>1, <2>2, <2>3, <2>4, <2>5, <2>6
    DEF SaveAzureFile, SaveRcloneFile, SaveAside, SaveUnderName, InPlace
  <2> QED
    BY <1>1, <2>11, <2>12, <2>13 DEF SaveFile
<1>2. ASSUME NEW a \in Archives, SaveFails(a) PROVE Goal
  BY <1>2 DEF SaveFails
<1>3. ASSUME NEW a \in Archives, DeleteFile(a) \/ DeleteFails(a) PROVE Goal
  <2>1. Missing(a) \/ Unlink(a) \/ StatFails(a) \/ DeleteFails(a)
    BY <1>3 DEF DeleteFile, DeleteLocalFile, DeleteNasFile, DeleteSftpFile, DeleteFtpFile,
                DeleteAzureFile, DeleteRcloneFile
  <2> QED
    BY <2>1 DEF Missing, Unlink, StatFails, DeleteFails, Answered
<1>4. ASSUME NEW a \in Archives, NEW f \in Damages, Damage(a, f) PROVE Goal
  BY <1>4, DamagesAssumption DEF Damage
<1>5. ASSUME NEW begun \in SUBSET Archives, NEW left \in SUBSET Archives, FilesRestart(begun, left)
      PROVE  Goal
  BY <1>5 DEF FilesRestart
<1>6. ASSUME NEW a \in Archives, CommitFails(a) \/ SourceBreaksOff(a) PROVE Goal
  <2>1. Held(a)
    BY DEF Stored
  <2>2. CASE UNCHANGED <<kind, content, named, aside, deletion, uncleaned>>
    BY <1>6, <2>2 DEF CommitFails, SourceBreaksOff, Appear
  <2>3. ASSUME NEW answer \in SaveOver, save[a] = "writing", kind \notin InPlace, Appear(a, answer)
        PROVE  Goal
    <3>1. aside[a] \in File
      BY <2>1, <2>3, GrowingIsFile DEF Held
    <3> QED
      BY <2>3, <3>1 DEF Appear, Publish
  <2> QED
    BY <1>6, <2>2, <2>3 DEF CommitFails, SourceBreaksOff, InPlace
<1> QED
  BY <1>1, <1>2, <1>3, <1>4, <1>5, <1>6 DEF FileStep

----------------------------------------------------------------------------
(* The readers.                                                             *)

\* What a reader knows of the archive it reads, and what it has read.
Read(r) ==
    LET me == reader[r]
    IN  /\ me.stage \in Reading => me.archive \in Archives /\ content[me.archive] \in File
        /\ me.stage = "primed" => me.archive \in Encrypted /\ me.pending \in Chunk \cup {Foreign}
        /\ me.archive \in Encrypted =>
              /\ me.index = Len(me.got) + 1 /\ Len(me.got) <= Length
              /\ \A i \in 1..Len(me.got) : me.got[i] = Sealed(me.head, i)
              /\ me.got # <<>> => me.head \in Archives
              /\ me.stage \in {"opened", "keyed", "attached"} => me.got = <<>>
              /\ me.stage \in {"decrypted", "closed", "ok"} => Len(me.got) = Length

ReaderTypes ==
    /\ reader \in [Restorers -> Reader]
    /\ sidecar \in [Restorers -> {"none", "running", "left"}]

\* The records a step makes of a reader.
LEMMA ReaderUpdates ==
    ASSUME NEW me \in Reader, NEW stage \in {"idle"} \cup Reading \cup Ended, NEW at \in Nat,
           NEW chunk \in Chunk \cup {Foreign, None}, NEW index \in 1..Length + 1,
           NEW got \in Seq(Chunk \cup {Foreign})
    PROVE  /\ [me EXCEPT !.stage = stage] \in Reader
           /\ [me EXCEPT !.stage = stage, !.at = at, !.pending = chunk] \in Reader
           /\ [me EXCEPT !.at = at, !.got = got] \in Reader
           /\ [me EXCEPT !.stage = stage, !.at = at, !.pending = chunk,
                         !.index = index, !.got = got] \in Reader
<1>1. [me EXCEPT !.stage = stage] \in Reader
  BY DEF Reader
<1>2. [me EXCEPT !.stage = stage, !.at = at, !.pending = chunk] \in Reader
  BY DEF Reader
<1>3. [me EXCEPT !.at = at, !.got = got] \in Reader
  BY DEF Reader
<1>4. [me EXCEPT !.stage = stage, !.at = at, !.pending = chunk,
                 !.index = index, !.got = got] \in Reader
  BY DEF Reader
<1> QED
  BY <1>1, <1>2, <1>3, <1>4

\* A step of one request.
OnlyReader(r) ==
    /\ UNCHANGED <<load, fileVars>>
    /\ reader' \in [Restorers -> Reader]
    /\ sidecar' \in [Restorers -> {"none", "running", "left"}]
    /\ \A q \in Restorers \ {r} : reader'[q] = reader[q] /\ sidecar'[q] = sidecar[q]

LEMMA OpenKeeps ==
    ASSUME FilesTypeOK, Stored, ReaderTypes, NEW r \in Restorers, Read(r), OpenBackup(r)
    PROVE  OnlyReader(r) /\ Read(r)' /\ sidecar' = sidecar
<1>1. PICK a \in Archives, via \in {"restore", "download"} :
         /\ reader[r].stage = "idle"
         /\ named[a]
         /\ reader' = [reader EXCEPT ![r] =
              [NewReader(a) EXCEPT
                  !.stage = IF a \in Encrypted /\ content[a].head = None THEN "failed"
                            ELSE IF a \in Encrypted THEN "opened" ELSE "keyed",
                  !.via = via, !.head = content[a].head]]
         /\ UNCHANGED <<fileVars, load, sidecar>>
  BY DEF OpenBackup, GetFile, GetLocalFile, GetNasFile, GetSftpFile, GetFtpFile,
         GetAzureFile, GetRcloneFile, Set
<1>2. content[a] \in File
  <2>1. Held(a) /\ Told(a)
    BY DEF Stored
  <2> QED
    BY <1>1, <2>1, GrowingIsFile DEF Held
<1>3. content[a].head \in Archives \cup {None}
  BY <1>2 DEF File
<1> DEFINE stage == IF a \in Encrypted /\ content[a].head = None THEN "failed"
                    ELSE IF a \in Encrypted THEN "opened" ELSE "keyed"
           new == [NewReader(a) EXCEPT !.stage = stage, !.via = via, !.head = content[a].head]
<1>4. /\ new.stage = stage /\ new.archive = a /\ new.head = content[a].head
      /\ new.index = 1 /\ new.got = <<>>
  BY DEF NewReader
<1>5. new \in Reader
  <2>1. NewReader(a) \in Reader
    BY LengthAssumption DEF NewReader, Reader
  <2> QED
    BY ZenonT(40), <1>3, <2>1 DEF Reader, Reading, Ended
<1>6. reader'[r] = new /\ reader' \in [Restorers -> Reader]
  BY <1>1, <1>5 DEF ReaderTypes
<1>7. UNCHANGED fileVars /\ UNCHANGED content
  BY <1>1 DEF fileVars
<1>8. Read(r)'
  BY <1>2, <1>4, <1>6, <1>7, LengthAssumption DEF Read, Reading
<1> QED
  BY <1>1, <1>6, <1>8 DEF OnlyReader, ReaderTypes
\* The sidecar of a request: a part of SidecarAccounted.
Attended(r) ==
    /\ sidecar[r] = "running" => reader[r].stage \in Reading
    /\ sidecar[r] = "left" => reader[r].stage \in Ended /\ load \cap {"fault", "restart"} # {}

LEMMA EndKeeps ==
    ASSUME ReaderTypes, NEW r \in Restorers, Read(r), Attended(r),
           NEW stage \in {"ok", "failed"}, End(r, stage), reader[r].stage \in Reading,
           stage = "ok" => reader[r].stage \in {"decrypted", "closed"}
    PROVE  OnlyReader(r) /\ Read(r)' /\ Attended(r)'
<1>1. /\ reader' = [reader EXCEPT ![r] = [reader[r] EXCEPT !.stage = stage]]
      /\ UNCHANGED <<fileVars, load>>
  BY DEF End, Goto, Set
<1>2. PICK after \in {"none", "left", sidecar[r]} :
         /\ sidecar' = [sidecar EXCEPT ![r] = after]
         /\ after = "running" => FALSE
         /\ after = "left" => sidecar[r] = "left" \/ "fault" \in load
  BY DEF End, RemoveSidecar
<1>3. reader' \in [Restorers -> Reader] /\ sidecar' \in [Restorers -> {"none", "running", "left"}]
  <2>1. reader[r] \in Reader
    BY DEF ReaderTypes
  <2>2. [reader[r] EXCEPT !.stage = stage] \in Reader
    BY <2>1 DEF Reader, Ended
  <2>3. reader' \in [Restorers -> Reader]
    BY <1>1, <2>2 DEF ReaderTypes
  <2>4. sidecar' \in [Restorers -> {"none", "running", "left"}]
    BY <1>2 DEF ReaderTypes
  <2> QED
    BY <2>3, <2>4
<1>4. OnlyReader(r)
  BY <1>1, <1>2, <1>3 DEF OnlyReader, ReaderTypes
<1>5. Attended(r)'
  BY <1>1, <1>2, <1>4 DEF Attended, ReaderTypes, OnlyReader, Ended
<1>6. Read(r)'
  BY <1>1 DEF Read, ReaderTypes, Reader, Reading
<1> QED
  BY <1>4, <1>5, <1>6

\* A step within the reading.
LEMMA GotoKeeps ==
    ASSUME ReaderTypes, NEW r \in Restorers, Read(r), Attended(r), UNCHANGED <<load, fileVars>>,
           NEW stage \in Reading, Goto(r, stage), reader[r].stage \in Reading,
           stage # "opened", stage # "primed",
           sidecar' = sidecar \/ sidecar' = [sidecar EXCEPT ![r] = "running"],
           reader[r].stage \in {"opened", "keyed"} \/ stage \notin {"keyed", "attached"},
           stage \in {"decrypted", "closed"} =>
               reader[r].stage = "decrypted" \/ reader[r].archive \notin Encrypted
    PROVE  OnlyReader(r) /\ Read(r)' /\ Attended(r)'
<1>1. reader' = [reader EXCEPT ![r] = [reader[r] EXCEPT !.stage = stage]]
  BY DEF Goto, Set
<1>2. OnlyReader(r)
  <2>1. reader[r] \in Reader
    BY DEF ReaderTypes
  <2>2. [reader[r] EXCEPT !.stage = stage] \in Reader
    BY <2>1 DEF Reader
  <2> QED
    BY <1>1, <2>2 DEF OnlyReader, ReaderTypes
<1>3. UNCHANGED content
  BY DEF fileVars
<1>4. Read(r)'
  BY <1>1, <1>3 DEF Read, ReaderTypes, Reader, Reading
<1>5. Attended(r)'
  BY <1>1 DEF Attended, ReaderTypes, Reader, Reading, Ended
<1> QED
  BY <1>2, <1>4, <1>5

LEMMA PrimeKeeps ==
    ASSUME ReaderTypes, NEW r \in Restorers, Read(r), Attended(r), Prime(r)
    PROVE  OnlyReader(r) /\ Read(r)' /\ Attended(r)'
<1>1. CASE Opened(r) = <<>>
  BY <1>1, EndKeeps DEF Prime, Reading
<1>2. CASE Opened(r) # <<>>
  <2>1. /\ reader[r].stage = "attached" /\ reader[r].archive \in Encrypted
        /\ reader' = [reader EXCEPT ![r] =
                        [reader[r] EXCEPT !.stage = "primed", !.at = 1, !.pending = Opened(r)[1]]]
        /\ UNCHANGED <<fileVars, load, sidecar>>
    BY <1>2 DEF Prime, Set, IsDecrypted
  <2>2. Opened(r)[1] \in Chunk \cup {Foreign}
    <3>1. Opened(r) \in Seq(Chunk \cup {Foreign})
      BY <2>1 DEF Read, Opened, File, Reading
    <3> HIDE DEF Opened
    <3> QED
      BY <1>2, <3>1
  <2>3. OnlyReader(r)
    <3> DEFINE chunk == Opened(r)[1]
    <3>1. reader[r] \in Reader /\ chunk \in Chunk \cup {Foreign, None} /\ "primed" \in Reading /\ 1 \in Nat
      BY <2>2 DEF ReaderTypes, Reading
    <3> HIDE DEF chunk
    <3>2. [reader[r] EXCEPT !.stage = "primed", !.at = 1, !.pending = chunk] \in Reader
      BY <3>1 DEF Reader
    <3> QED
      BY <2>1, <3>2 DEF OnlyReader, ReaderTypes, chunk
  <2>4. UNCHANGED content
    BY <2>1 DEF fileVars
  <2>5. Read(r)'
    BY <2>1, <2>2, <2>4 DEF Read, ReaderTypes, Reader, Reading
  <2>6. Attended(r)'
    BY <2>1 DEF Attended, ReaderTypes, Reader, Reading, Ended
  <2> QED
    BY <2>3, <2>5, <2>6
<1> QED
  BY <1>1, <1>2

\* The chunk that opens is the next one of the archive the header names, and it
\* is the last one exactly when nothing follows it.
LEMMA NextChunkKeeps ==
    ASSUME ReaderTypes, NEW r \in Restorers, Read(r), Attended(r), openNextChunk(r)
    PROVE  OnlyReader(r) /\ Read(r)' /\ Attended(r)'
<1> DEFINE me == reader[r]
           hasNext == me.at < Len(Opened(r))
<1>0. me \in Reader /\ me.stage = "primed"
  BY DEF ReaderTypes, openNextChunk
<1>1. CASE ~Opens(r, me.pending, ~hasNext)
  BY <1>0, <1>1, EndKeeps DEF openNextChunk, Reading
<1>2. CASE Opens(r, me.pending, ~hasNext)
  <2> DEFINE new == [me EXCEPT
                      !.stage = IF hasNext THEN "primed" ELSE "decrypted",
                      !.at = IF hasNext THEN @ + 1 ELSE @,
                      !.pending = IF hasNext THEN Opened(r)[me.at + 1] ELSE None,
                      !.index = @ + 1,
                      !.got = Append(@, me.pending)]
  <2>1. /\ reader' = [reader EXCEPT ![r] = new]
        /\ UNCHANGED <<fileVars, load, sidecar>>
    BY <1>2 DEF openNextChunk, Set
  <2>2. /\ me.archive \in Encrypted /\ me.archive \in Archives /\ content[me.archive] \in File
        /\ me.index = Len(me.got) + 1 /\ me.got \in Seq(Chunk \cup {Foreign}) /\ me.at \in Nat
        /\ \A i \in 1..Len(me.got) : me.got[i] = Sealed(me.head, i)
    BY <1>0 DEF Read, Reading, Reader
  <2>3. PICK a \in Archives, i \in 1..Length : me.pending = Sealed(a, i)
    BY <1>0, <1>2 DEF Read, Opens, Chunk
  <2>4. /\ a = me.head /\ i = me.index /\ (i = Length <=> ~hasNext)
        /\ me.pending \in Chunk
    BY <1>2, <2>3 DEF Opens, Sealed, Chunk
  <2>5. i \in Nat /\ Length \in Nat /\ i + 1 \in 1..Length + 1
    BY <2>3, LengthAssumption
  <2>6. hasNext => Opened(r)[me.at + 1] \in Chunk \cup {Foreign}
    <3>1. Opened(r) \in Seq(Chunk \cup {Foreign})
      BY <2>2 DEF Opened, File
    <3> HIDE DEF Opened
    <3> QED
      BY <2>2, <3>1
  <2>7. /\ new.archive = me.archive /\ new.head = me.head
        /\ new.stage = (IF hasNext THEN "primed" ELSE "decrypted")
        /\ new.pending = (IF hasNext THEN Opened(r)[me.at + 1] ELSE None)
        /\ new.index = me.index + 1
        /\ new.got = Append(me.got, me.pending)
    BY <1>0 DEF Reader
  <2>8. /\ Append(me.got, me.pending) \in Seq(Chunk \cup {Foreign})
        /\ Len(Append(me.got, me.pending)) = i
        /\ \A k \in 1..i : Append(me.got, me.pending)[k] = Sealed(me.head, k)
        /\ Append(me.got, me.pending) # <<>>
    BY <2>2, <2>3, <2>4, <2>5
  <2>9. new \in Reader
    <3> DEFINE stage == IF hasNext THEN "primed" ELSE "decrypted"
               at == IF hasNext THEN me.at + 1 ELSE me.at
               chunk == IF hasNext THEN Opened(r)[me.at + 1] ELSE None
               index == me.index + 1
               got == Append(me.got, me.pending)
    <3>1. stage \in {"idle"} \cup Reading \cup Ended /\ at \in Nat
      BY <2>2 DEF Reading
    <3>2. chunk \in Chunk \cup {Foreign, None} /\ index \in 1..Length + 1 /\ got \in Seq(Chunk \cup {Foreign})
      BY <2>4, <2>5, <2>6, <2>8
    <3>3. new = [me EXCEPT !.stage = stage, !.at = at, !.pending = chunk, !.index = index, !.got = got]
      OBVIOUS
    <3> HIDE DEF me, new, stage, at, chunk, index, got
    <3> QED
      BY <1>0, <3>1, <3>2, <3>3, ReaderUpdates
  <2>10. reader'[r] = new
    BY <2>1 DEF ReaderTypes
  <2> HIDE DEF new, hasNext
  <2>11. OnlyReader(r)
    BY <2>1, <2>9 DEF OnlyReader, ReaderTypes
  <2>12. UNCHANGED content
    BY <2>1 DEF fileVars
  <2>13. Read(r)'
    <3> DEFINE got == Append(me.got, me.pending)
    <3>1. /\ Len(got) = i /\ got # <<>>
          /\ \A k \in 1..Len(got) : got[k] = Sealed(me.head, k)
      BY <2>8
    <3>2. /\ new.index = i + 1 /\ new.got = got
      BY <2>4, <2>7
    <3>3. new.stage = "primed" => hasNext /\ new.pending \in Chunk \cup {Foreign}
      BY <2>6, <2>7
    <3>4. new.stage \in {"primed", "decrypted"} /\ (new.stage = "decrypted" => i = Length)
      BY <2>4, <2>7
    <3>5. new.archive = me.archive /\ new.head = me.head /\ me.head \in Archives
      BY <2>3, <2>4, <2>7
    <3> HIDE DEF got, me
    <3> QED
      BY <2>2, <2>3, <2>5, <2>10, <2>12, <3>1, <3>2, <3>3, <3>4, <3>5 DEF Read, Reading
  <2>14. Attended(r)'
    BY <1>0, <2>1, <2>7, <2>10 DEF Attended, Reading, Ended
  <2> QED
    BY <2>11, <2>13, <2>14
<1> QED
  BY <1>1, <1>2

LEMMA CopyKeeps ==
    ASSUME ReaderTypes, NEW r \in Restorers, Read(r), Attended(r), CopyChunk(r)
    PROVE  OnlyReader(r) /\ Read(r)' /\ Attended(r)'
<1> DEFINE me == reader[r]
<1>0. me \in Reader /\ me.stage = "attached" /\ me.archive \notin Encrypted
  BY DEF ReaderTypes, CopyChunk, IsDecrypted
<1>1. CASE me.at < Len(Opened(r))
  <2> DEFINE chunk == Opened(r)[me.at + 1]
  <2>1. /\ reader' = [reader EXCEPT ![r] = [me EXCEPT !.at = @ + 1, !.got = Append(@, chunk)]]
        /\ UNCHANGED <<fileVars, load, sidecar>>
    BY <1>1 DEF CopyChunk, Set
  <2>2. chunk \in Chunk \cup {Foreign}
    <3>1. Opened(r) \in Seq(Chunk \cup {Foreign}) /\ me.at \in Nat
      BY <1>0 DEF Read, Opened, File, Reading, Reader
    <3> HIDE DEF Opened
    <3> QED
      BY <1>1, <3>1
  <2>3. [me EXCEPT !.at = @ + 1, !.got = Append(@, chunk)] \in Reader
    <3> DEFINE at == me.at + 1
               got == Append(me.got, chunk)
    <3>1. at \in Nat /\ got \in Seq(Chunk \cup {Foreign})
      BY <1>0, <2>2 DEF Reader
    <3>2. [me EXCEPT !.at = @ + 1, !.got = Append(@, chunk)] = [me EXCEPT !.at = at, !.got = got]
      OBVIOUS
    <3> HIDE DEF me, at, got
    <3> QED
      BY <1>0, <3>1, <3>2 DEF Reader
  <2>4. OnlyReader(r)
    BY <2>1, <2>3 DEF OnlyReader, ReaderTypes
  <2>5. reader'[r].stage = "attached" /\ reader'[r].archive = me.archive
    BY <1>0, <2>1 DEF ReaderTypes, Reader
  <2>6. UNCHANGED content
    BY <2>1 DEF fileVars
  <2>7. Read(r)' /\ Attended(r)'
    BY <1>0, <2>1, <2>5, <2>6 DEF Read, Attended, Reading, Ended
  <2> QED
    BY <2>4, <2>7
<1>2. CASE ~(me.at < Len(Opened(r)))
  BY <1>0, <1>2, GotoKeeps DEF CopyChunk, Reading
<1> QED
  BY <1>1, <1>2
Readers == \A r \in Restorers : Read(r) /\ Attended(r)

\* Whatever does not read an archive leaves the readers what they have.
LEMMA ReadersStay ==
    ASSUME Readers, UNCHANGED <<load, reader, sidecar>>, Lasting
    PROVE  Readers'
<1> SUFFICES ASSUME NEW r \in Restorers PROVE Read(r)' /\ Attended(r)'
  BY DEF Readers
<1>1. Read(r) /\ Attended(r)
  BY DEF Readers
<1>2. Attended(r)'
  BY <1>1 DEF Attended
<1>3. Read(r)'
  BY <1>1 DEF Read, Lasting
<1> QED
  BY <1>2, <1>3

LEMMA OneReader ==
    ASSUME Readers, NEW r \in Restorers, OnlyReader(r), Read(r)', Attended(r)'
    PROVE  Readers' /\ ReaderTypes'
<1>1. ReaderTypes'
  BY DEF OnlyReader, ReaderTypes
<1>2. ASSUME NEW q \in Restorers, q # r PROVE Read(q)' /\ Attended(q)'
  <2>1. /\ reader'[q] = reader[q] /\ sidecar'[q] = sidecar[q] /\ UNCHANGED load /\ UNCHANGED content
        /\ Read(q) /\ Attended(q)
    BY <1>2 DEF OnlyReader, Readers, fileVars
  <2> QED
    BY <2>1 DEF Read, Attended
<1> QED
  BY <1>1, <1>2 DEF Readers

LEMMA ReaderStepKeeps ==
    ASSUME FilesTypeOK, Stored, ReaderTypes, Readers, NEW r \in Restorers,
           RestoreSteps(r) \/ RestoreFails(r)
    PROVE  Readers' /\ ReaderTypes'
<1>0. Read(r) /\ Attended(r)
  BY DEF Readers
<1>1. CASE OpenBackup(r)
  <2>1. OnlyReader(r) /\ Read(r)' /\ sidecar' = sidecar
    BY <1>0, <1>1, OpenKeeps
  <2>2. reader[r].stage = "idle"
    BY <1>1 DEF OpenBackup
  <2>3. sidecar[r] = "none"
    BY <1>0, <2>2 DEF Attended, ReaderTypes, Reading, Ended
  <2>4. Attended(r)'
    BY <2>1, <2>3 DEF Attended
  <2> QED
    BY <2>1, <2>4, OneReader
<1>2. CASE AskForOpening(r)
  <2>1. UNCHANGED <<load, reader, sidecar, content>>
    BY <1>2 DEF AskForOpening, restoreVars, fileVars
  <2> QED
    BY <2>1, ReadersStay DEF ReaderTypes, Lasting
<1>3. CASE DecryptingReader(r)
  BY <1>0, <1>3, GotoKeeps, OneReader DEF DecryptingReader, Reading
<1>4. CASE CreateSidecar(r)
  BY <1>0, <1>4, GotoKeeps, OneReader DEF CreateSidecar, Reading
<1>5. CASE Prime(r)
  BY <1>0, <1>5, PrimeKeeps, OneReader
<1>6. CASE openNextChunk(r)
  BY <1>0, <1>6, NextChunkKeeps, OneReader
<1>7. CASE CopyChunk(r)
  BY <1>0, <1>7, CopyKeeps, OneReader
<1>8. CASE CloseWrite(r)
  BY <1>0, <1>8, GotoKeeps, OneReader DEF CloseWrite, Reading
<1>9. CASE ContainerWait(r)
  BY <1>0, <1>9, EndKeeps, OneReader DEF ContainerWait, Reading
<1>10. CASE DownloadEnds(r)
  BY <1>0, <1>10, EndKeeps, OneReader DEF DownloadEnds, Reading
<1>11. CASE RestoreFails(r)
  BY <1>0, <1>11, EndKeeps, OneReader DEF RestoreFails
<1> QED
  BY <1>1, <1>2, <1>3, <1>4, <1>5, <1>6, <1>7, <1>8, <1>9, <1>10, <1>11 DEF RestoreSteps

LEMMA RestartKeeps ==
    ASSUME ReaderTypes, Readers, Lasting, "restart" \in load, Restart
    PROVE  Readers' /\ ReaderTypes'
<1>1. /\ reader' = [r \in Restorers |->
                      IF reader[r].stage \in Reading
                      THEN [reader[r] EXCEPT !.stage = "died"] ELSE reader[r]]
      /\ sidecar' = [r \in Restorers |-> IF sidecar[r] = "running" THEN "left" ELSE sidecar[r]]
      /\ UNCHANGED load
  BY DEF Restart
<1>2. ASSUME NEW r \in Restorers
      PROVE  reader'[r] \in Reader /\ Read(r)' /\ Attended(r)'
  <2>1. reader[r] \in Reader /\ Read(r) /\ Attended(r) /\ sidecar[r] \in {"none", "running", "left"}
    BY DEF ReaderTypes, Readers
  <2>2. CASE reader[r].stage \in Reading
    <3>1. reader'[r] = [reader[r] EXCEPT !.stage = "died"]
      BY <1>1, <2>2
    <3>2. reader'[r] \in Reader
      BY <2>1, <3>1 DEF Reader, Ended
    <3>3. Read(r)'
      BY <2>1, <2>2, <3>1 DEF Read, Reader, Reading
    <3>4. Attended(r)'
      BY <1>1, <2>1, <2>2, <3>1 DEF Attended, Reader, Reading, Ended
    <3> QED
      BY <3>2, <3>3, <3>4
  <2>3. CASE reader[r].stage \notin Reading
    <3>1. reader'[r] = reader[r] /\ sidecar[r] # "running" /\ sidecar'[r] = sidecar[r]
      BY <1>1, <2>1, <2>3 DEF Attended
    <3>2. Attended(r)'
      BY <1>1, <2>1, <3>1 DEF Attended
    <3>3. Read(r)'
      BY <2>1, <2>3, <3>1 DEF Read, Reading
    <3> QED
      BY <2>1, <3>1, <3>2, <3>3
  <2> QED
    BY <2>2, <2>3
<1>3. ReaderTypes'
  BY <1>1, <1>2 DEF ReaderTypes
<1> QED
  BY <1>2, <1>3 DEF Readers

----------------------------------------------------------------------------
IInv ==
    /\ load \in Loads
    /\ FilesTypeOK /\ Stored
    /\ KeyTypes /\ Moved /\ Shared
    /\ ReaderTypes /\ Readers

LEMMA InitHolds == Init => IInv
<1> SUFFICES ASSUME Init PROVE IInv
  OBVIOUS
<1>1. FilesTypeOK /\ Stored
  BY DEF Init, FilesInit, FilesTypeOK, Stored, Held, Told
<1>2. KeyTypes /\ Moved /\ Shared
  BY OldKeyAssumption
  DEF Init, KeysInit, KeyTypes, KeysTypeOK, AnyKey, Moved, Shared, Sources, Creating
<1>3. ASSUME NEW r \in Restorers
      PROVE  /\ NewReader(None) \in Reader
             /\ reader[r] = NewReader(None) /\ sidecar[r] = "none"
  BY LengthAssumption DEF Init, NewReader, Reader
<1>4. ReaderTypes
  BY <1>3 DEF Init, ReaderTypes
<1>5. Readers
  <2> SUFFICES ASSUME NEW r \in Restorers PROVE Read(r) /\ Attended(r)
    BY DEF Readers
  <2> QED
    BY <1>3, ForeignAssumption, ArchivesAssumption DEF Read, Attended, NewReader, Reading
<1> QED
  BY <1>1, <1>2, <1>4, <1>5 DEF Init, IInv

LEMMA StepHolds == IInv /\ [Next]_vars => IInv'
<1> SUFFICES ASSUME IInv, [Next]_vars PROVE IInv'
  OBVIOUS
<1> USE DEF IInv
<1>1. UNCHANGED load /\ (FileStep \/ UNCHANGED fileVars)
  BY NextFiles
<1>2. FilesTypeOK' /\ Lasting /\ Stored'
  <2>1. CASE FileStep
    BY <1>1, <2>1, FileStepTypes, FileStepStored
  <2>2. CASE UNCHANGED fileVars
    <3>1. UNCHANGED <<kind, content, named, aside, save, deletion, uncleaned, load>>
      BY <1>1, <2>2 DEF fileVars
    <3>2. Stored'
      BY <3>1, OtherFile DEF Stored
    <3> QED
      BY <3>1, <3>2 DEF FilesTypeOK, Lasting
  <2> QED
    BY <1>1, <2>1, <2>2
<1>3. KeyTypes' /\ Moved' /\ Shared'
  <2>1. CASE KeyStep
    BY <1>1, <2>1, KeyStepKeeps
  <2>2. CASE UNCHANGED <<keyVars, sealVars>>
    BY <1>1, <2>2 DEF keyVars, sealVars, KeyTypes, KeysTypeOK, Moved, Shared, Creating
  <2> QED
    BY <2>1, <2>2, NextKeys
<1>4. Readers' /\ ReaderTypes'
  <2>1. ASSUME NEW r \in Restorers, RestoreSteps(r) \/ RestoreFails(r)
        PROVE  Readers' /\ ReaderTypes'
    BY <2>1, ReaderStepKeeps
  <2>2. CASE "restart" \in load /\ Restart
    BY <1>2, <2>2, RestartKeeps
  <2>3. CASE UNCHANGED <<reader, sidecar>>
    BY <1>1, <1>2, <2>3, ReadersStay DEF ReaderTypes
  <2>4. \/ \E r \in Restorers : RestoreSteps(r) \/ RestoreFails(r)
        \/ "restart" \in load /\ Restart
        \/ UNCHANGED <<reader, sidecar>>
    BY DEF Next, Faults, vars, restoreVars, Boot, AskForSealing, EncryptingReader, SealAndSave,
           BackupFails, Delete, AskForField, EncryptField, DecryptField, DamageFile, KeyFails
  <2> QED
    BY <2>1, <2>2, <2>3, <2>4
<1> QED
  BY <1>1, <1>2, <1>3, <1>4

(* What a storage holds at each stage of a save, whose key is in which hands *)
(* and what a reader has read, as the parts of IInv say, in every reachable  *)
(* state.                                                                    *)
THEOREM Invariance == Spec => []IInv
  BY InitHolds, StepHolds, PTL DEF Spec

(* Every variable keeps its type: an index of the cipher never runs past the *)
(* archive (stream_cipher.go:217-229).                                       *)
THEOREM TypeCorrect == Spec => []TypeOK
<1>1. IInv => TypeOK
  BY DEF IInv, TypeOK, KeyTypes, ReaderTypes, Sources
<1> QED
  BY <1>1, Invariance, PTL

(* SaveFile and DeleteFile of every storage keep their word, but for a plain *)
(* source that breaks off and passes for one that has ended                  *)
(* (local/model.go:38-169, nas/model.go:46-231 and 472-533,                  *)
(* azure_blob/model.go:68-209).                                              *)
THEOREM StoragesKeepTheirWord == Spec => []WordKept
<1>1. IInv => WordKept
  <2> SUFFICES ASSUME IInv, NEW a \in Archives
               PROVE  /\ "damage" \notin load =>
                             /\ save[a] = "saved" => content[a] = Whole(a)
                             /\ save[a] = "cut" => kind \in Cutting /\ a \notin Encrypted
                             /\ save[a] \in {"saved", "cut"} =>
                                   named[a] \/ deletion[a] \in {"early", "gone", "error"}
                      /\ deletion[a] = "gone" => ~named[a]
    BY DEF WordKept, SavedIsWhole, RemovedIsGone
  <2>1. Held(a) /\ Told(a)
    BY DEF IInv, Stored
  <2>2. save[a] \in {"saved", "cut"} => content[a] \in File
    BY <2>1, GrowingIsFile DEF Held
  <2> QED
    BY <2>1, <2>2, NoFileAssumption DEF Held, Told
<1> QED
  BY <1>1, Invariance, PTL

(* Partial archives, temporary files and restore sidecars have an owner, a   *)
(* start that could not empty the temporary folder included                  *)
(* (local/model.go:206-246, rclone/model.go:40-90, main.go:207-210,          *)
(* cleaner.go:9-28, restore.go:46-48).                                       *)
THEOREM LeftoversAreAccounted == Spec => []LeftoversAccounted
<1>1. IInv => LeftoversAccounted
  <2> SUFFICES ASSUME IInv PROVE PartialAccounted /\ AsideAccounted /\ SidecarAccounted
    BY DEF LeftoversAccounted
  <2>1. \A a \in Archives : Held(a) /\ kind \in Kinds
    BY DEF IInv, Stored, FilesTypeOK
  <2>2. PartialAccounted
    BY <2>1 DEF PartialAccounted, Held, InPlace
  <2>3. AsideAccounted
    BY <2>1 DEF AsideAccounted, Held, SaveActive
  <2>4. SidecarAccounted
    BY DEF IInv, Readers, Attended, SidecarAccounted
  <2> QED
    BY <2>2, <2>3, <2>4
<1> QED
  BY <1>1, Invariance, PTL

(* The move of the master key to the file never leaves the installation      *)
(* without it (secrets/service.go:21-50).                                    *)
THEOREM MigrationKeepsTheKey == Spec => []MigrationKeepsKey
<1>1. IInv => MigrationKeepsKey
  BY DEF IInv, Moved, MigrationKeepsKey, KeyTypes, KeysTypeOK
<1> QED
  BY <1>1, Invariance, PTL

(* What is sealed opens with the key of the file unless first uses of the    *)
(* key overlapped or a write broke off (secrets/service.go:52-78).           *)
THEOREM TheKeyLasts == Spec => []KeyLasts
<1>1. IInv => KeyLasts
  BY DEF IInv, Shared, KeyLasts, Sources
<1> QED
  BY <1>1, Invariance, PTL

(* What an encrypted archive puts into the volumes is the beginning of one   *)
(* archive, whatever became of the file (stream_cipher.go:180-229).          *)
THEOREM ReadersGetInOrder == Spec => []GotInOrder
<1>1. IInv => GotInOrder
  <2> SUFFICES ASSUME IInv, NEW r \in Restorers, IsDecrypted(r)
               PROVE  /\ Len(reader[r].got) <= Length
                      /\ reader[r].got # <<>> =>
                            reader[r].got = SubSeq(Stream(reader[r].head), 1, Len(reader[r].got))
    BY DEF GotInOrder
  <2> DEFINE got == reader[r].got
             head == reader[r].head
             n == Len(got)
             prefix == [i \in 1..n |-> Sealed(head, i)]
  <2>1. /\ got \in Seq(Chunk \cup {Foreign}) /\ n \in Nat /\ n <= Length
        /\ \A i \in 1..n : got[i] = Sealed(head, i)
        /\ got # <<>> => head \in Archives
    BY DEF IInv, ReaderTypes, Readers, Read, Reader, IsDecrypted
  <2>2. got # <<>> => SubSeq(Stream(head), 1, n) = prefix
    BY <2>1, LengthAssumption DEF Stream
  <2>3. got = prefix
    BY <2>1
  <2> HIDE DEF got, head, n, prefix
  <2> QED
    BY <2>1, <2>2, <2>3 DEF got, head, n
<1> QED
  BY <1>1, Invariance, PTL

(* A restore that succeeds wrote one whole archive (restore.go:18-95,        *)
(* stream_cipher.go:180-215).                                                *)
THEOREM RestoresAreWhole == Spec => []RestoredWhole
<1>1. IInv => RestoredWhole
  <2> SUFFICES ASSUME IInv, NEW r \in Restorers, reader[r].stage = "ok", IsDecrypted(r)
               PROVE  \E a \in Archives : reader[r].got = Stream(a)
    BY DEF RestoredWhole
  <2> DEFINE got == reader[r].got
             head == reader[r].head
  <2>1. /\ got \in Seq(Chunk \cup {Foreign}) /\ Len(got) = Length
        /\ \A i \in 1..Len(got) : got[i] = Sealed(head, i)
        /\ got # <<>> => head \in Archives
    BY DEF IInv, ReaderTypes, Readers, Read, Reader, IsDecrypted
  <2>2. head \in Archives
    BY <2>1, LengthAssumption
  <2>3. got = Stream(head)
    BY <2>1, LengthAssumption DEF Stream
  <2> QED
    BY <2>2, <2>3
<1> QED
  BY <1>1, Invariance, PTL
=============================================================================
