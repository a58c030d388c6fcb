---------------------------- MODULE ChunkedUpload ----------------------------
(****************************************************************************)
(* One archive on an S3 storage (storages/models/s3/model.go).  A stream    *)
(* that fits one inner part becomes a plain object; a longer one is cut     *)
(* into part objects, each uploaded as a multipart of inner parts, and a    *)
(* manifest, written last, lists them.  Deletions and reads, which may come *)
(* at any time, find their way by the manifest.                             *)
(*                                                                          *)
(* Bytes are offsets into the stream: a piece is a range of it, and two     *)
(* objects have the same size and checksum when they are the same piece.    *)
(* The bucket is external; a call to it is one action, and may fail, with   *)
(* or without having taken effect.                                          *)
(****************************************************************************)
EXTENDS Naturals, Sequences, FiniteSets

CONSTANTS
    PartSize,   \* innerPartSize, in bytes
    MaxParts,   \* maxPartsPerObject
    MaxLength,  \* bound on the length of the stream
    Readers,    \* calls of GetFile, each with the reading of its answer
    Deleters,   \* callers of DeleteFile
    Upsets,     \* what may go wrong: "s3" a call fails, "source" the stream
                \* fails or breaks off, "exit" the process ends, "bucket" the
                \* bucket's own rules
    Damaged,    \* content that is no piece of the stream
    None        \* no object

(* An object has a byte at least, but for the last; and one is next.        *)
Indices == 1 .. MaxLength + 2
Piece == [from : Nat, to : Nat]

ASSUME UploadAssumption ==
    /\ PartSize \in Nat \ {0}
    /\ MaxParts \in Nat \ {0}
    /\ MaxLength \in Nat
    /\ Damaged \notin Piece \cup {None}
    /\ None \notin Piece
    /\ None \notin Seq(Piece)
    /\ "saver" \notin Deleters

VARIABLES
    length,     \* of the stream: what the source gives before io.EOF or
                \* io.ErrUnexpectedEOF, which SaveFile takes for its end alike
    plain,      \* the object under the archive's own name
    parts,      \* the part objects, by their index
    manifest,   \* what the manifest object lists, in order
    uploads,    \* indices whose multipart is neither completed nor aborted
    stage,      \* where SaveFile is
    read,       \* bytes read off the source by uploadChunked
    count,      \* inner parts of the object being uploaded
    drained,    \* sourceEnded
    list,       \* manifestParts (uploadedKeys are their keys)
    todo,       \* the keys a removeObjects has still to remove, by caller
    del,        \* the calls of DeleteFile
    rd,         \* the reads
    leaky,      \* history: a cleaning call failed, or was cut short
    hurt        \* history: something of a saved archive was removed

bucketVars == <<plain, parts, manifest, uploads>>
saveVars == <<stage, read, count, drained, list>>
vars == <<length, bucketVars, saveVars, todo, del, rd, leaky, hurt>>

(* Keys: the index of a part object, or 0, the manifest's.                  *)
Keys == {0} \cup Indices
Actors == {"saver"} \cup Deleters

Working == {"open", "parts", "single", "manifest", "abort", "clean"}
Over == {"ok", "failed", "killed"}

(* The object being uploaded: the bytes since the last one.                 *)
From(l) == IF l = <<>> THEN 0 ELSE l[Len(l)].to
Index == Len(list) + 1
Current == [from |-> From(list), to |-> read]

(* The pieces of l, one after the other, are the stream of n bytes.         *)
Covers(l, n) ==
    /\ l # <<>>
    /\ l[1].from = 0
    /\ \A i \in 1 .. Len(l) - 1 : l[i].to = l[i + 1].from
    /\ l[Len(l)].to = n

(* What a read that was opened now would find: everything, or less.         *)
Stored ==
    IF manifest = None THEN plain # None
    ELSE \A i \in 1 .. Len(manifest) : parts[i] = manifest[i]

Closed == [at |-> "idle", got |-> <<>>, list |-> <<>>, sound |-> FALSE]
Failed == [at |-> "failed", got |-> <<>>, list |-> <<>>, sound |-> FALSE]

Init ==
    /\ length \in 0 .. MaxLength
    /\ plain = None
    /\ parts = [i \in Indices |-> None]
    /\ manifest = None
    /\ uploads = {}
    /\ stage = "idle"
    /\ read = 0
    /\ count = 0
    /\ drained = FALSE
    /\ list = <<>>
    /\ todo = [a \in Actors |-> {}]
    /\ del = [d \in Deleters |-> [at |-> "idle", late |-> FALSE]]
    /\ rd = [r \in Readers |-> Closed]
    /\ leaky = FALSE
    /\ hurt = FALSE

-----------------------------------------------------------------------------
(* Faults.  Each is an operator below it as a plausible bug would have it;  *)
(* nothing refers to them: putting one in the place of its original shows   *)
(* which property notices.                                                  *)

\* Mutant: completed objects are left where they are.
AbandonForgets(upload) ==
    stage' = (IF upload THEN "abort" ELSE "failed") /\ UNCHANGED todo

\* Mutant: an object in which the source ended is taken for an empty one.
AbortEndedUpload ==
    /\ stage = "parts" /\ drained
    /\ uploads' = uploads \ {Index}
    /\ stage' = "manifest"
    /\ UNCHANGED <<length, plain, parts, manifest, read, count, drained, list,
                   todo, del, rd, leaky, hurt>>

\* Mutant: no break after an object without data.
AbortEmptyUploadGoesOn ==
    /\ stage = "parts" /\ drained /\ count = 0
    /\ uploads' = uploads \ {Index}
    /\ stage' = "open"
    /\ UNCHANGED <<length, plain, parts, manifest, read, count, drained, list,
                   todo, del, rd, leaky, hurt>>

\* Mutant: sizes and checksums are not compared.
VerifiedUnseen(found, listed) == TRUE

\* Mutant: a part that is not there ends the stream.
ReadPartProbes(r) ==
    /\ rd[r].at = "parts"
    /\ Len(rd[r].got) < Len(rd[r].list)
    /\ parts[Len(rd[r].got) + 1] = None
    /\ rd' = [rd EXCEPT ![r].at = "ok"]
    /\ UNCHANGED <<length, bucketVars, saveVars, todo, del, leaky, hurt>>

-----------------------------------------------------------------------------
(* SaveFile: the look-ahead, and the layout of a small archive.             *)

SaveFile ==
    /\ stage = "idle"
    /\ \/ stage' = IF length <= PartSize THEN "single" ELSE "open"
       \/ {"source", "s3"} \cap Upsets # {} /\ stage' = "failed"
    /\ UNCHANGED <<length, bucketVars, read, count, drained, list, todo, del, rd,
                   leaky, hurt>>

uploadSingleObject ==
    /\ stage = "single"
    /\ \/ plain' = [from |-> 0, to |-> length] /\ stage' = "ok"
       \/ /\ "s3" \in Upsets
          /\ plain' \in {plain, [from |-> 0, to |-> length]}
          /\ stage' = "failed"
    /\ UNCHANGED <<length, parts, manifest, uploads, read, count, drained, list,
                   todo, del, rd, leaky, hurt>>

-----------------------------------------------------------------------------
(* uploadChunked: one object after the other until the source has ended.    *)

\* abandon: the multipart, if there is one, is aborted, then the completed
\* objects are removed in one call.
Abandon(upload) ==
    IF upload \/ list = <<>>
    THEN stage' = (IF upload THEN "abort" ELSE "failed") /\ UNCHANGED todo
    ELSE stage' = "clean" /\ todo' = [todo EXCEPT !["saver"] = 1 .. Len(list)]

NewMultipartUpload ==
    /\ stage = "open"
    /\ uploads' = uploads \cup {Index}
    /\ stage' = "parts"
    /\ UNCHANGED <<length, plain, parts, manifest, read, count, drained, list,
                   todo, del, rd, leaky, hurt>>

NewMultipartUploadFails ==
    /\ stage = "open"
    /\ "s3" \in Upsets
    /\ \/ UNCHANGED <<uploads, leaky>>
       \/ uploads' = uploads \cup {Index} /\ leaky' = TRUE
    /\ Abandon(FALSE)
    /\ UNCHANGED <<length, plain, parts, manifest, read, count, drained, list,
                   del, rd, hurt>>

\* io.ReadFull: a whole inner part, or what is left.
Filled(from) == IF from + PartSize <= length THEN from + PartSize ELSE length

More == stage = "parts" /\ count < MaxParts /\ ~ drained

PutInnerPart ==
    /\ More
    /\ read < length
    /\ read' = Filled(read)
    /\ count' = count + 1
    /\ drained' = (Filled(read) < read + PartSize)
    /\ UNCHANGED <<length, bucketVars, stage, list, todo, del, rd, leaky, hurt>>

SourceEnds ==
    /\ More
    /\ read = length
    /\ drained' = TRUE
    /\ UNCHANGED <<length, bucketVars, stage, read, count, list, todo, del, rd,
                   leaky, hurt>>

\* The source breaks off where an inner part would begin, with
\* io.ErrUnexpectedEOF and no byte: an empty inner part is its last.
PutEmptyPart ==
    /\ More
    /\ "source" \in Upsets
    /\ read = length
    /\ count' = count + 1
    /\ drained' = TRUE
    /\ UNCHANGED <<length, bucketVars, stage, read, list, todo, del, rd, leaky,
                   hurt>>

\* The source or the upload of an inner part fails, or the caller cancels.
PutInnerPartFails ==
    /\ More
    /\ {"source", "s3"} \cap Upsets # {}
    /\ Abandon(TRUE)
    /\ UNCHANGED <<length, bucketVars, read, count, drained, list, del, rd,
                   leaky, hurt>>

CompleteMultipartUpload ==
    /\ stage = "parts" /\ ~ More /\ count > 0
    /\ parts' = [parts EXCEPT ![Index] = Current]
    /\ uploads' = uploads \ {Index}
    /\ list' = Append(list, Current)
    /\ count' = 0
    /\ stage' = IF drained THEN "manifest" ELSE "open"
    /\ UNCHANGED <<length, plain, manifest, read, drained, todo, del, rd, leaky,
                   hurt>>

\* After an object that was completed all the same there is nothing to abort
\* and its key is not among those that are removed.
CompleteMultipartUploadFails ==
    /\ stage = "parts" /\ ~ More /\ count > 0
    /\ "s3" \in Upsets
    /\ \/ UNCHANGED <<parts, uploads, leaky>>
       \/ /\ parts' = [parts EXCEPT ![Index] = Current]
          /\ uploads' = uploads \ {Index}
          /\ leaky' = TRUE
    /\ Abandon(TRUE)
    /\ UNCHANGED <<length, plain, manifest, read, count, drained, list, del, rd,
                   hurt>>

\* The source ended on the boundary of the previous object; the error of the
\* abort is dropped.
AbortEmptyUpload ==
    /\ stage = "parts" /\ ~ More /\ count = 0
    /\ \/ uploads' = uploads \ {Index} /\ UNCHANGED leaky
       \/ "s3" \in Upsets /\ leaky' = TRUE /\ uploads' \in {uploads, uploads \ {Index}}
    /\ stage' = "manifest"
    /\ UNCHANGED <<length, plain, parts, manifest, read, count, drained, list,
                   todo, del, rd, hurt>>

writeManifest ==
    /\ stage = "manifest"
    /\ manifest' = list
    /\ stage' = "ok"
    /\ UNCHANGED <<length, plain, parts, uploads, read, count, drained, list,
                   todo, del, rd, leaky, hurt>>

writeManifestFails ==
    /\ stage = "manifest"
    /\ "s3" \in Upsets
    /\ manifest' \in {manifest, list}
    /\ Abandon(FALSE)
    /\ UNCHANGED <<length, plain, parts, uploads, read, count, drained, list,
                   del, rd, leaky, hurt>>

AbortMultipartUpload ==
    /\ stage = "abort"
    /\ \/ uploads' = uploads \ {Index} /\ UNCHANGED leaky
       \/ "s3" \in Upsets /\ leaky' = TRUE /\ uploads' \in {uploads, uploads \ {Index}}
    /\ Abandon(FALSE)
    /\ UNCHANGED <<length, plain, parts, manifest, read, count, drained, list,
                   del, rd, hurt>>

-----------------------------------------------------------------------------
(* removeObjects, for abandon and for DeleteFile: one call, in which the    *)
(* bucket removes one key after the other, in any order, each with a result *)
(* of its own.                                                              *)

Without(k) ==
    /\ manifest' = IF k = 0 THEN None ELSE manifest
    /\ parts' = [i \in Indices |-> IF i = k THEN None ELSE parts[i]]

\* The answer of the call when k was its last key.
Answer(a, k, res) ==
    IF a = "saver"
    THEN /\ stage' = IF todo[a] = {k} THEN "failed" ELSE stage
         /\ UNCHANGED del
    ELSE /\ del' = [del EXCEPT ![a].at =
                       IF res = "failed" \/ @ = "broken"
                       THEN (IF todo[a] = {k} THEN "failed" ELSE "broken")
                       ELSE (IF todo[a] = {k} THEN "ok" ELSE @)]
         /\ UNCHANGED stage

RemoveKey(a, k) ==
    /\ k \in todo[a]
    /\ todo' = [todo EXCEPT ![a] = @ \ {k}]
    /\ \/ Without(k) /\ Answer(a, k, "ok") /\ UNCHANGED leaky
       \/ /\ "s3" \in Upsets
          /\ Answer(a, k, "failed")
          /\ leaky' = TRUE
          /\ Without(k) \/ UNCHANGED <<manifest, parts>>
    /\ hurt' = (hurt \/ a # "saver")
    /\ UNCHANGED <<length, plain, uploads, read, count, drained, list, rd>>

-----------------------------------------------------------------------------
(* DeleteFile                                                               *)

Deleting(d, from, to) ==
    /\ del[d].at = from
    /\ del' = [del EXCEPT ![d].at = to]

DeleteFile(d) ==
    /\ del[d].at \in {"idle", "ok", "failed"}
    /\ del' = [del EXCEPT ![d] = [at |-> "stat", late |-> stage \in Over]]
    /\ UNCHANGED <<length, bucketVars, saveVars, todo, rd, leaky, hurt>>

\* readManifest asks whether there is one before it gets it.
StatManifest(d) ==
    /\ \/ manifest # None /\ Deleting(d, "stat", "get")
       \/ manifest = None /\ Deleting(d, "stat", "plain")
       \/ "s3" \in Upsets /\ Deleting(d, "stat", "failed")
    /\ UNCHANGED <<length, bucketVars, saveVars, todo, rd, leaky, hurt>>

GetManifest(d) ==
    /\ \/ /\ manifest # None
          /\ Deleting(d, "get", "remove")
          /\ todo' = [todo EXCEPT ![d] = {0} \cup 1 .. Len(manifest)]
       \/ /\ manifest = None \/ "s3" \in Upsets
          /\ Deleting(d, "get", "failed")
          /\ UNCHANGED todo
    /\ UNCHANGED <<length, bucketVars, saveVars, rd, leaky, hurt>>

\* Removing an object that is not there succeeds.
RemoveObject(d) ==
    /\ \/ /\ \/ Deleting(d, "plain", "ok")
             \/ "s3" \in Upsets /\ Deleting(d, "plain", "failed")
          /\ plain' = None
          /\ hurt' = (hurt \/ plain # None)
       \/ /\ "s3" \in Upsets
          /\ Deleting(d, "plain", "failed")
          /\ UNCHANGED <<plain, hurt>>
    /\ UNCHANGED <<length, parts, manifest, uploads, saveVars, todo, rd, leaky>>

-----------------------------------------------------------------------------
(* GetFile, and the reading of what it answered.                            *)

Reading(r, from, to) ==
    /\ rd[r].at = from
    /\ rd' = [rd EXCEPT ![r].at = to]

ReadFails(r, from) ==
    /\ rd[r].at = from
    /\ rd' = [rd EXCEPT ![r] = Failed]

Opening(r, from, to, l) ==
    /\ rd[r].at = from
    /\ rd' = [rd EXCEPT ![r] = [at |-> to, list |-> l, got |-> <<>>, sound |-> Stored]]

GetFile(r) ==
    /\ \/ manifest # None /\ Reading(r, "idle", "get")
       \/ manifest = None /\ Reading(r, "idle", "plain")
       \/ "s3" \in Upsets /\ ReadFails(r, "idle")
    /\ UNCHANGED <<length, bucketVars, saveVars, todo, del, leaky, hurt>>

readManifest(r) ==
    /\ \/ manifest # None /\ Opening(r, "get", "parts", manifest)
       \/ (manifest = None \/ "s3" \in Upsets) /\ ReadFails(r, "get")
    /\ UNCHANGED <<length, bucketVars, saveVars, todo, del, leaky, hurt>>

\* The plain object: its first byte is read to see that it is there, then the
\* reader is reset and asks for it anew.
GetObject(r) ==
    /\ \/ plain # None /\ Opening(r, "plain", "body", <<plain>>)
       \/ (plain = None \/ "s3" \in Upsets) /\ ReadFails(r, "plain")
    /\ UNCHANGED <<length, bucketVars, saveVars, todo, del, leaky, hurt>>

ReadObject(r) ==
    /\ \/ /\ rd[r].at = "body"
          /\ rd' = [rd EXCEPT ![r].at = "ok", ![r].got = rd[r].list]
       \/ (plain = None \/ "s3" \in Upsets) /\ ReadFails(r, "body")
    /\ UNCHANGED <<length, bucketVars, saveVars, todo, del, leaky, hurt>>

\* reassemblingReader: a part object is handed on as it is read, and compared
\* with the manifest's entry at its end.
Verified(found, listed) == found = listed

ReadPart(r) ==
    LET next == Len(rd[r].got) + 1
    IN  /\ rd[r].at = "parts"
        /\ next <= Len(rd[r].list)
        /\ parts[next] # None
        /\ rd' = IF Verified(parts[next], rd[r].list[next])
                 THEN [rd EXCEPT ![r].got = Append(@, parts[next])]
                 ELSE [rd EXCEPT ![r] = Failed]
        /\ UNCHANGED <<length, bucketVars, saveVars, todo, del, leaky, hurt>>

ReadPartFails(r) ==
    LET next == Len(rd[r].got) + 1
    IN  /\ next <= Len(rd[r].list)
        /\ parts[next] = None \/ "s3" \in Upsets
        /\ ReadFails(r, "parts")
        /\ UNCHANGED <<length, bucketVars, saveVars, todo, del, leaky, hurt>>

ReadEnds(r) ==
    /\ Len(rd[r].got) = Len(rd[r].list)
    /\ Reading(r, "parts", "ok")
    /\ UNCHANGED <<length, bucketVars, saveVars, todo, del, leaky, hurt>>

-----------------------------------------------------------------------------
(* The environment.                                                         *)

\* Rows, key and bucket stay; nothing looks for what was being written.
ProcessRestarts ==
    /\ "exit" \in Upsets
    /\ stage' = IF stage \in Working THEN "killed" ELSE stage
    /\ leaky' = (leaky \/ stage \in Working \/ \E a \in Actors : todo[a] # {})
    /\ todo' = [a \in Actors |-> {}]
    /\ del' = [d \in Deleters |->
                  IF del[d].at \in {"idle", "ok"} THEN del[d]
                  ELSE [del[d] EXCEPT !.at = "failed"]]
    /\ rd' = [r \in Readers |->
                 IF rd[r].at \in {"idle", "ok"} THEN rd[r] ELSE Failed]
    /\ UNCHANGED <<length, bucketVars, read, count, drained, list, hurt>>

\* A lifecycle rule, which goes by age, removes an object of a save that is
\* over; a part object loses bytes.  (Nothing in this module would notice that
\* in the plain object.)
BucketLoses ==
    /\ "bucket" \in Upsets
    /\ stage \in Over
    /\ \/ \E i \in Indices : /\ parts[i] # None
                             /\ \E left \in {None, Damaged} :
                                   parts' = [parts EXCEPT ![i] = left]
                             /\ UNCHANGED <<plain, manifest>>
       \/ plain # None /\ plain' = None /\ UNCHANGED <<parts, manifest>>
    /\ hurt' = TRUE
    /\ UNCHANGED <<length, uploads, saveVars, todo, del, rd, leaky>>

-----------------------------------------------------------------------------
Uploading ==
    \/ NewMultipartUpload \/ NewMultipartUploadFails
    \/ PutInnerPart \/ SourceEnds \/ PutEmptyPart \/ PutInnerPartFails
    \/ CompleteMultipartUpload \/ CompleteMultipartUploadFails
    \/ AbortEmptyUpload
    \/ writeManifest \/ writeManifestFails
    \/ AbortMultipartUpload

Saving ==
    \/ SaveFile \/ uploadSingleObject \/ Uploading
    \/ \E k \in Keys : RemoveKey("saver", k)

Deletes(d) ==
    \/ DeleteFile(d) \/ StatManifest(d) \/ GetManifest(d) \/ RemoveObject(d)
    \/ \E k \in Keys : RemoveKey(d, k)

Reads(r) ==
    \/ GetFile(r) \/ readManifest(r) \/ GetObject(r) \/ ReadObject(r)
    \/ ReadPart(r) \/ ReadPartFails(r) \/ ReadEnds(r)

Next ==
    \/ Saving
    \/ \E d \in Deleters : Deletes(d)
    \/ \E r \in Readers : Reads(r)
    \/ ProcessRestarts
    \/ BucketLoses

Spec == Init /\ [][Next]_vars

(* The run that saves goes on; every call to the bucket is answered.        *)
FairSpec == Spec /\ WF_vars(Saving)
-----------------------------------------------------------------------------
(* Properties                                                               *)

SaveTypeOK ==
    /\ length \in 0 .. MaxLength
    /\ stage \in {"idle"} \cup Working \cup Over
    /\ read \in 0 .. length
    /\ count \in 0 .. MaxParts
    /\ drained \in BOOLEAN
    /\ list \in Seq(Piece)
    /\ From(list) <= read /\ Len(list) <= From(list) + 1
    /\ stage \in {"open", "parts", "abort"} => Len(list) <= From(list)
BucketTypeOK ==
    /\ plain \in Piece \cup {None}
    /\ parts \in [Indices -> Piece \cup {Damaged, None}]
    /\ manifest \in Seq(Piece) \cup {None}
    /\ uploads \subseteq Indices
CallsTypeOK ==
    /\ todo \in [Actors -> SUBSET Keys]
    /\ del \in [Deleters -> [at : {"idle", "stat", "get", "plain", "remove",
                                   "broken", "ok", "failed"}, late : BOOLEAN]]
    /\ rd \in [Readers -> [at : {"idle", "get", "plain", "body", "parts", "ok",
                                 "failed"},
                           got : Seq(Piece \cup {Damaged}), list : Seq(Piece),
                           sound : BOOLEAN]]
    /\ leaky \in BOOLEAN /\ hurt \in BOOLEAN

(* The variables keep their types; no object but the last is empty, or ends *)
(* after what was read.                                                     *)
TypeOK == SaveTypeOK /\ BucketTypeOK /\ CallsTypeOK

(* A read that reached its end handed on the stream, every byte of it in    *)
(* order, whatever was deleted, lost or damaged meanwhile.  (model.go:      *)
(* 658-673, 777-867)                                                        *)
ReadsWhole ==
    \A r \in Readers : rd[r].at = "ok" => Covers(rd[r].got, length)

(* A save that answered success left an archive that can be read to its     *)
(* end, for every length of the stream, also at the boundaries of inner     *)
(* parts and objects, until somebody deletes it. (model.go:410-507)         *)
SavedReadable ==
    stage = "ok" /\ ~ hurt =>
        /\ Stored
        /\ Covers(IF manifest = None THEN <<plain>> ELSE manifest, length)

(* Every part object can still be found by somebody who will remove it: the *)
(* save that made it, the manifest, or a call that has its key; and every   *)
(* multipart by the save.  Otherwise a cleaning call failed or was cut      *)
(* short. (model.go:392-408, 206)                                           *)
Known(i) ==
    \/ stage \in Working \ {"clean"} /\ i <= Len(list)
    \/ manifest # None /\ i <= Len(manifest)
    \/ \E a \in Actors : i \in todo[a]
PartsAccounted ==
    leaky \/ /\ \A i \in Indices : parts[i] # None => Known(i)
             /\ \A i \in uploads : stage \in {"parts", "abort"} /\ i = Index

(* The save of an archive, its reads and its deletions do what a store      *)
(* promises that publishes an archive when it is complete: the name holds   *)
(* all of it or nothing that can be read. (model.go:78-224, 658-673)        *)
File == IF Stored THEN "whole" ELSE "absent"
Saver ==
    IF stage \in Working THEN "busy"
    ELSE IF stage \in {"failed", "killed"} THEN "failed" ELSE stage
Seen(r) ==
    CASE rd[r].at \in {"idle", "get", "plain"} -> "idle"
      [] rd[r].at \in {"body", "parts"} -> IF rd[r].sound THEN "sound" ELSE "doomed"
      [] rd[r].at = "ok" -> "whole"
      [] rd[r].at = "failed" -> "failed"
Store == INSTANCE ArchiveStore WITH
    file <- File, saver <- Saver, reads <- [r \in Readers |-> Seen(r)]
Implements == Store!Spec

(* A save that was begun ends: the source ends once, also when it ends on   *)
(* the boundary of an object. (model.go:413-484)                            *)
SaveEnds == stage = "open" ~> stage \in Over

(* "... dead weight in the bucket until retention or an overwrite reclaims  *)
(* them" (model.go:395-396): when a DeleteFile that came after the save     *)
(* has answered success, nothing is left.                                   *)
Reclaimed ==
    \A d \in Deleters :
        del[d].at = "ok" /\ del[d].late /\ (\A a \in Actors : todo[a] = {})
            => \A i \in Indices : parts[i] = None
=============================================================================
