----------------------------- MODULE FileStores ------------------------------
(****************************************************************************)
(* SaveFile, GetFile and DeleteFile of every storage but S3                 *)
(* (features/storages/models): a local folder, with the temporary folder on *)
(* the same filesystem or on another one, SMB shares, SFTP and FTP servers, *)
(* Azure containers and rclone remotes.  They differ in where an archive    *)
(* grows: under its own name, or aside until it is complete.  Rcat streams  *)
(* to remotes of both kinds: object stores, "rclone", and those that write  *)
(* the final name at once (local, SFTP, FTP, SMB), "rcloneDisk".            *)
(*                                                                          *)
(* An archive is saved once, under a name of its own.  A file that is       *)
(* removed while somebody has it open is kept for those who have it.        *)
(****************************************************************************)
EXTENDS Naturals, Sequences, FiniteSets

CONSTANTS
    Archives,   \* the archives, and the names they are saved under
    Length,     \* the chunks of an archive
    Foreign,    \* a chunk that no backup wrote
    None        \* no file, no header, no key

ASSUME LengthAssumption == Length \in Nat \ {0}
ASSUME ForeignAssumption == Foreign \notin Archives /\ None \notin Archives

VARIABLES
    kind,       \* the storage the archives are saved in
    content,    \* what was written under the name of each archive
    named,      \* whether the name still leads to it
    aside,      \* what is kept elsewhere until the archive is complete
    save,       \* the call of SaveFile for each archive
    deletion,   \* what the last DeleteFile for each archive was answered
    uncleaned   \* history: this process could not empty the temporary folder
fileVars == <<kind, content, named, aside, save, deletion, uncleaned>>

Local == {"local", "split"}
Rclone == {"rclone", "rcloneDisk"}
InPlace == {"nas", "sftp", "ftp", "rcloneDisk"}
Kinds == Local \cup InPlace \cup {"azure", "rclone"}

(* Where io.ErrUnexpectedEOF of the source is taken for its end.            *)
Cutting == {"nas", "azure"} \cup Rclone

(* What a backup writes: a header, then chunks that know their place.       *)
Sealed(a, i) == [stream |-> a, index |-> i, last |-> i = Length]
Stream(a) == [i \in 1..Length |-> Sealed(a, i)]

Chunk == {Sealed(a, i) : a \in Archives, i \in 1..Length}
File == [head : Archives \cup {None}, chunks : Seq(Chunk \cup {Foreign})]
ASSUME NoFileAssumption == None \notin File

Whole(a) == [head |-> a, chunks |-> Stream(a)]
Empty == [head |-> None, chunks |-> <<>>]

(* A file with one more chunk of the archive.                               *)
Grown(f, a) == [head |-> a, chunks |-> Append(f.chunks, Stream(a)[Len(f.chunks) + 1])]
Unfinished(f) == Len(f.chunks) < Length

SaveActive == {"writing", "moving", "copying"}

(* Answered with success, of a source that had ended, or had broken off;    *)
(* with an error by this process; begun by an earlier one, and not saved.   *)
SaveOver == {"saved", "cut", "failed", "killed"}

FilesTypeOK ==
    /\ kind \in Kinds
    /\ content \in [Archives -> File \cup {None}]
    /\ named \in [Archives -> BOOLEAN]
    /\ aside \in [Archives -> File \cup {None}]
    /\ save \in [Archives -> {"new"} \cup SaveActive \cup SaveOver]
    /\ deletion \in [Archives -> {"none", "early", "gone", "unseen", "error"}]
    /\ uncleaned \in BOOLEAN

FilesInit ==
    /\ kind \in Kinds
    /\ content = [a \in Archives |-> None]
    /\ named = [a \in Archives |-> FALSE]
    /\ aside = [a \in Archives |-> None]
    /\ save = [a \in Archives |-> "new"]
    /\ deletion = [a \in Archives |-> "none"]
    /\ uncleaned = FALSE

----------------------------------------------------------------------------
(* Parts of a save.                                                         *)

(* The name leads to a file with these contents from now on.                *)
Publish(a, f) ==
    /\ content' = [content EXCEPT ![a] = f]
    /\ named' = [named EXCEPT ![a] = TRUE]

Becomes(a, stage) == save' = [save EXCEPT ![a] = stage]

CreateUnderName(a) ==
    /\ save[a] = "new"
    /\ Publish(a, Empty)
    /\ Becomes(a, "writing")
    /\ UNCHANGED <<kind, aside, deletion, uncleaned>>

CreateAside(a) ==
    /\ save[a] = "new"
    /\ aside' = [aside EXCEPT ![a] = Empty]
    /\ Becomes(a, "writing")
    /\ UNCHANGED <<kind, content, named, deletion, uncleaned>>

WriteUnderName(a) ==
    /\ save[a] = "writing"
    /\ Unfinished(content[a])
    /\ content' = [content EXCEPT ![a] = Grown(@, a)]
    /\ UNCHANGED <<kind, named, aside, save, deletion, uncleaned>>

WriteAside(a) ==
    /\ save[a] = "writing"
    /\ Unfinished(aside[a])
    /\ aside' = [aside EXCEPT ![a] = Grown(@, a)]
    /\ UNCHANGED <<kind, content, named, save, deletion, uncleaned>>

(* Mutant: a short read is taken for the end.                               *)
EndUnderNameEarly(a) ==
    /\ save[a] = "writing"
    /\ Becomes(a, "saved")
    /\ UNCHANGED <<kind, content, named, aside, deletion, uncleaned>>

(* The source has ended and the server has taken everything.                *)
EndUnderName(a) ==
    /\ save[a] = "writing"
    /\ ~Unfinished(content[a])
    /\ Becomes(a, "saved")
    /\ UNCHANGED <<kind, content, named, aside, deletion, uncleaned>>

(* One call makes what is kept aside appear under the name.                 *)
Appear(a, answer) ==
    /\ Publish(a, aside[a])
    /\ aside' = [aside EXCEPT ![a] = None]
    /\ Becomes(a, answer)
    /\ UNCHANGED <<kind, deletion, uncleaned>>

PublishAside(a, stage) ==
    /\ save[a] = stage
    /\ ~Unfinished(aside[a])
    /\ Appear(a, "saved")

----------------------------------------------------------------------------
(* The local folder.                                                        *)
CreateTempFile(a) == kind \in Local /\ CreateAside(a)

WriteTempFile(a) == kind \in Local /\ WriteAside(a)

CloseTempFile(a) ==
    /\ kind \in Local
    /\ save[a] = "writing"
    /\ ~Unfinished(aside[a])
    /\ Becomes(a, "moving")
    /\ UNCHANGED <<kind, content, named, aside, deletion, uncleaned>>

Rename(a) == kind = "local" /\ PublishAside(a, "moving")

(* Mutant: every archive is copied under its name.                          *)
CreateDestinationAlways(a) ==
    /\ kind \in Local
    /\ save[a] = "moving"
    /\ Publish(a, Empty)
    /\ Becomes(a, "copying")
    /\ UNCHANGED <<kind, aside, deletion, uncleaned>>

(* The rename answers EXDEV: the archive is copied under its name.          *)
CreateDestination(a) ==
    /\ kind = "split"
    /\ save[a] = "moving"
    /\ Publish(a, Empty)
    /\ Becomes(a, "copying")
    /\ UNCHANGED <<kind, aside, deletion, uncleaned>>

CopyToDestination(a) ==
    /\ save[a] = "copying"
    /\ Unfinished(content[a])
    /\ content' = [content EXCEPT ![a] = Grown(@, a)]
    /\ UNCHANGED <<kind, named, aside, save, deletion, uncleaned>>

RemoveSource(a) ==
    /\ save[a] = "copying"
    /\ ~Unfinished(content[a])
    /\ aside' = [aside EXCEPT ![a] = None]
    /\ Becomes(a, "saved")
    /\ UNCHANGED <<kind, content, named, deletion, uncleaned>>

SaveLocalFile(a) ==
    \/ CreateTempFile(a) \/ WriteTempFile(a) \/ CloseTempFile(a) \/ Rename(a)
    \/ CreateDestination(a) \/ CopyToDestination(a) \/ RemoveSource(a)

----------------------------------------------------------------------------
(* Servers that write under the name at once, and those that do not.        *)
SaveUnderName(a) == CreateUnderName(a) \/ WriteUnderName(a) \/ EndUnderName(a)

SaveNasFile(a) == kind = "nas" /\ SaveUnderName(a)
SaveSftpFile(a) == kind = "sftp" /\ SaveUnderName(a)
SaveFtpFile(a) == kind = "ftp" /\ SaveUnderName(a)

(* Blocks are staged and committed in one call; an object store shows an    *)
(* object when its upload has ended.                                        *)
SaveAside(a) == CreateAside(a) \/ WriteAside(a) \/ PublishAside(a, "writing")

SaveAzureFile(a) == kind = "azure" /\ SaveAside(a)
SaveRcloneFile(a) ==
    \/ kind = "rclone" /\ SaveAside(a)
    \/ kind = "rcloneDisk" /\ SaveUnderName(a)

SaveFile(a) ==
    \/ SaveLocalFile(a) \/ SaveNasFile(a) \/ SaveSftpFile(a)
    \/ SaveFtpFile(a) \/ SaveAzureFile(a) \/ SaveRcloneFile(a)

(* The source or the storage answers with an error, or no connection is     *)
(* made.  What was written stays where it is: SaveFile cleans nothing up,   *)
(* though some rclone remotes do.                                           *)
SaveFails(a) ==
    /\ save[a] \in SaveActive \cup {"new"}
    /\ Becomes(a, "failed")
    /\ \/ UNCHANGED named
       \/ kind = "rcloneDisk" /\ named' = [named EXCEPT ![a] = FALSE]
    /\ UNCHANGED <<kind, content, aside, deletion, uncleaned>>

(* The last call has its effect and is answered with an error all the same. *)
CommitFails(a) ==
    /\ kind \in {"azure", "rclone"}
    /\ save[a] = "writing"
    /\ ~Unfinished(aside[a])
    /\ Appear(a, "failed")

(* The source breaks off with io.ErrUnexpectedEOF, before its last chunk.   *)
SourceBreaksOff(a) ==
    /\ kind \in Cutting
    /\ save[a] = "writing"
    /\ \/ /\ kind \in InPlace
          /\ Unfinished(content[a])
          /\ Becomes(a, "cut")
          /\ UNCHANGED <<kind, content, named, aside, deletion, uncleaned>>
       \/ /\ kind \notin InPlace
          /\ Unfinished(aside[a])
          /\ Appear(a, "cut")

----------------------------------------------------------------------------
(* Deletions: of a partial archive by finalizeFailed, of any other by the   *)
(* user or by retention.                                                    *)
Answered(a, answer) ==
    deletion' = [deletion EXCEPT ![a] =
        IF save[a] \in SaveActive \cup {"new"} THEN "early" ELSE answer]

Missing(a) ==
    /\ ~named[a]
    /\ Answered(a, "gone")
    /\ UNCHANGED <<kind, content, named, aside, save, uncleaned>>

Unlink(a) ==
    /\ named[a]
    /\ named' = [named EXCEPT ![a] = FALSE]
    /\ Answered(a, "gone")
    /\ UNCHANGED <<kind, content, aside, save, uncleaned>>

(* The servers that write in place: an error of Stat passes for a file that *)
(* does not exist.                                                          *)
StatFails(a) ==
    /\ named[a]
    /\ Answered(a, "unseen")
    /\ UNCHANGED <<kind, content, named, aside, save, uncleaned>>

DeleteLocalFile(a) == kind \in Local /\ (Missing(a) \/ Unlink(a))
DeleteNasFile(a) == kind = "nas" /\ (Missing(a) \/ Unlink(a) \/ StatFails(a))
DeleteSftpFile(a) == kind = "sftp" /\ (Missing(a) \/ Unlink(a) \/ StatFails(a))
DeleteFtpFile(a) == kind = "ftp" /\ (Missing(a) \/ Unlink(a) \/ StatFails(a))
DeleteAzureFile(a) == kind = "azure" /\ (Missing(a) \/ Unlink(a))
DeleteRcloneFile(a) == kind \in Rclone /\ (Missing(a) \/ Unlink(a))

DeleteFile(a) ==
    \/ DeleteLocalFile(a) \/ DeleteNasFile(a) \/ DeleteSftpFile(a)
    \/ DeleteFtpFile(a) \/ DeleteAzureFile(a) \/ DeleteRcloneFile(a)

(* Of a server that does not answer, nobody knows whether it has deleted.   *)
DeleteFails(a) ==
    /\ named[a]
    /\ Answered(a, "error")
    /\ \/ UNCHANGED named
       \/ kind \notin Local /\ named' = [named EXCEPT ![a] = FALSE]
    /\ UNCHANGED <<kind, content, aside, save, uncleaned>>

----------------------------------------------------------------------------
(* GetFile opens what the name leads to, a file that is being written       *)
(* included.                                                                *)
GetLocalFile(a) == kind \in Local /\ named[a]
GetNasFile(a) == kind = "nas" /\ named[a]
GetSftpFile(a) == kind = "sftp" /\ named[a]
GetFtpFile(a) == kind = "ftp" /\ named[a]
GetAzureFile(a) == kind = "azure" /\ named[a]
GetRcloneFile(a) == kind \in Rclone /\ named[a]

GetFile(a) ==
    \/ GetLocalFile(a) \/ GetNasFile(a) \/ GetSftpFile(a)
    \/ GetFtpFile(a) \/ GetAzureFile(a) \/ GetRcloneFile(a)

----------------------------------------------------------------------------
(* The process ends under the saves it had begun; the next one empties the  *)
(* temporary folder, but for what it cannot remove: it starts all the same. *)
FilesRestart(begun, left) ==
    /\ save' = [a \in Archives |->
                  IF save[a] \in SaveActive \cup {"failed"} \/ a \in begun
                  THEN "killed" ELSE save[a]]
    /\ aside' = [a \in Archives |->
                   IF kind \in Local /\ a \notin left THEN None ELSE aside[a]]
    /\ uncleaned' = (left # {})
    /\ UNCHANGED <<kind, content, named, deletion>>

(* A disk, a server or an administrator changes what a save left.           *)
Damage(a, f) ==
    /\ save[a] = "saved" /\ named[a]
    /\ content' = [content EXCEPT ![a] = f]
    /\ UNCHANGED <<kind, named, aside, save, deletion, uncleaned>>
=============================================================================
