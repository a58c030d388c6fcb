------------------------- MODULE ChunkedUploadProofs -------------------------
(****************************************************************************)
(* What TLAPS proves of ChunkedUpload, for every size of inner part, number *)
(* of inner parts per object, length of the stream and set of readers and   *)
(* deleters: types, that reads are whole, that saved archives can be read,  *)
(* that parts are accounted for, and that every step is one of ArchiveStore.*)
(****************************************************************************)
EXTENDS ChunkedUpload, TLAPS

-----------------------------------------------------------------------------
(* The inductive invariant                                                  *)

(* What the save has behind it at each stage.                               *)
Layout ==
    /\ list = <<>> \/ Covers(list, From(list))
    /\ stage \in Working \ {"single"} => length > 0
    /\ stage \in {"idle", "single"} => list = <<>> /\ read = 0 /\ count = 0 /\ ~ drained
    /\ stage = "open" => count = 0 /\ ~ drained
    /\ stage \in {"open", "parts"} /\ count = 0 => read = From(list)
    /\ count > 0 => From(list) < read \/ drained
    /\ drained => read = length
    /\ stage = "manifest" => list # <<>> /\ From(list) = length

(* Once there is something to find, the save will not add to it.            *)
Published ==
    /\ plain # None => /\ plain = [from |-> 0, to |-> length]
                       /\ list = <<>>
                       /\ stage \in Over
    /\ manifest # None => /\ manifest = list
                          /\ list # <<>>
                          /\ From(list) = length
                          /\ stage \in {"clean"} \cup Over

(* A read has checked what it handed on; one that was opened when something *)
(* was missing has yet to come to it.                                       *)
ReadSound(r) ==
    /\ rd[r].at = "body" => /\ rd[r].list = <<[from |-> 0, to |-> length]>>
                            /\ rd[r].sound
    /\ rd[r].at = "parts" =>
         /\ rd[r].list = list
         /\ list # <<>>
         /\ From(list) = length
         /\ stage \in {"clean"} \cup Over
         /\ Len(rd[r].got) <= Len(list)
         /\ \A i \in 1 .. Len(rd[r].got) : rd[r].got[i] = list[i]
         /\ rd[r].sound \/ \E i \in 1 .. Len(list) :
                              i > Len(rd[r].got) /\ parts[i] # list[i]
    /\ rd[r].at = "ok" => Covers(rd[r].got, length)
ReadsSound == \A r \in Readers : ReadSound(r)

(* What was uploaded stays as it is until the save is over or cleans up.    *)
Kept ==
    /\ stage \in {"idle", "single", "open", "parts", "manifest", "abort"} =>
         /\ \A i \in 1 .. Len(list) : parts[i] = list[i]
         /\ \A a \in Actors : todo[a] = {}
    /\ stage # "clean" => todo["saver"] = {}
    /\ stage = "ok" /\ ~ hurt =>
         /\ manifest = None => plain # None
         /\ manifest # None => \A i \in 1 .. Len(list) : parts[i] = list[i]

(* Without a failure among the removals a key is in the hands of whoever    *)
(* removes what the manifest lists, or its object is gone.                  *)
Counted ==
    leaky \/ /\ \A i \in Indices : parts[i] # None => i <= Len(list)
             /\ \A a \in Actors, i \in 1 .. Len(list) :
                   0 \in todo[a] => i \in todo[a] \/ parts[i] = None

IInv == TypeOK /\ Layout /\ Published /\ ReadsSound /\ Kept /\ Counted /\ PartsAccounted

-----------------------------------------------------------------------------
(* Next as the actions the proofs go through.                               *)
LEMMA NextCases ==
    ASSUME Next
    PROVE  \/ SaveFile \/ uploadSingleObject
           \/ NewMultipartUpload \/ NewMultipartUploadFails
           \/ PutInnerPart \/ SourceEnds \/ PutEmptyPart \/ PutInnerPartFails
           \/ CompleteMultipartUpload \/ CompleteMultipartUploadFails
           \/ AbortEmptyUpload
           \/ writeManifest \/ writeManifestFails
           \/ AbortMultipartUpload
           \/ \E a \in Actors, k \in Keys : RemoveKey(a, k)
           \/ \E d \in Deleters : \/ DeleteFile(d) \/ StatManifest(d)
                                  \/ GetManifest(d) \/ RemoveObject(d)
           \/ \E r \in Readers : \/ GetFile(r) \/ readManifest(r)
                                 \/ GetObject(r) \/ ReadObject(r)
                                 \/ ReadPart(r) \/ ReadPartFails(r) \/ ReadEnds(r)
           \/ ProcessRestarts
           \/ BucketLoses
BY Zenon DEF Next, Saving, Uploading, Deletes, Reads, Actors

(* Where the save stands after an error.                                    *)
LEMMA AbandonStage ==
    ASSUME NEW upload \in BOOLEAN, Abandon(upload)
    PROVE  /\ stage' \in {"abort", "clean", "failed"}
           /\ stage' = "abort" <=> upload
           /\ stage' = "clean" => list # <<>>
           /\ stage' # "clean" => todo' = todo
           /\ stage' = "clean" => todo' = [todo EXCEPT !["saver"] = 1 .. Len(list)]
           /\ stage' = "failed" => list = <<>>
BY DEF Abandon

(* The bytes uploadChunked reads in one go.                                 *)
LEMMA FilledBytes ==
    ASSUME length \in Nat, NEW from \in 0 .. length, from < length
    PROVE  /\ Filled(from) \in 0 .. length
           /\ from < Filled(from)
           /\ Filled(from) < from + PartSize => Filled(from) = length
BY UploadAssumption DEF Filled

(* Where the object after those of a list begins.                           *)
LEMMA FromOffset ==
    ASSUME NEW l \in Seq(Piece)
    PROVE  /\ From(l) \in Nat
           /\ l # <<>> => Len(l) \in 1 .. Len(l) /\ l[Len(l)].to = From(l)
<1>1. CASE l = <<>>
  BY <1>1 DEF From
<1>2. CASE l # <<>>
  <2>1. Len(l) \in 1 .. Len(l)
    BY <1>2
  <2>2. l[Len(l)] \in Piece
    BY <2>1
  <2> QED
    BY <1>2, <2>1, <2>2 DEF From, Piece
<1> QED
  BY <1>1, <1>2

(* A list with one more object covers the bytes up to what was read.        *)
LEMMA Appended ==
    ASSUME NEW l \in Seq(Piece), NEW to \in Nat,
           l = <<>> \/ Covers(l, From(l))
    PROVE  LET longer == Append(l, [from |-> From(l), to |-> to])
           IN  /\ longer \in Seq(Piece)
               /\ longer # <<>>
               /\ Len(longer) = Len(l) + 1
               /\ From(longer) = to
               /\ Covers(longer, to)
               /\ \A i \in 1 .. Len(l) : longer[i] = l[i]
               /\ longer[Len(l) + 1] = [from |-> From(l), to |-> to]
<1> DEFINE last == [from |-> From(l), to |-> to]
           longer == Append(l, last)
<1>1. From(l) \in Nat
  BY FromOffset
<1>2. last \in Piece
  BY <1>1 DEF Piece
<1> HIDE DEF last
<1>3. /\ longer \in Seq(Piece)
      /\ longer # <<>>
      /\ Len(longer) = Len(l) + 1
      /\ \A i \in 1 .. Len(l) : longer[i] = l[i]
      /\ longer[Len(l) + 1] = last
  <2>1. longer \in Seq(Piece) /\ Len(longer) = Len(l) + 1
    BY <1>2
  <2>2. \A i \in 1 .. Len(l) : longer[i] = l[i]
    BY <1>2
  <2>3. longer[Len(l) + 1] = last
    BY <1>2
  <2> HIDE DEF longer
  <2> QED
    BY <2>1, <2>2, <2>3
<1> HIDE DEF longer
<1> USE DEF last
<1>4. From(longer) = to
  BY <1>3 DEF From
<1>5. Covers(longer, to)
  <2>1. longer[1].from = 0
    <3>1. CASE l = <<>>
      BY <3>1, <1>3 DEF From
    <3>2. CASE l # <<>>
      BY <3>2, <1>3 DEF Covers
    <3> QED
      BY <3>1, <3>2
  <2>2. ASSUME NEW i \in 1 .. Len(longer) - 1
        PROVE  longer[i].to = longer[i + 1].from
    <3>1. l # <<>> /\ i \in 1 .. Len(l)
      BY <1>3
    <3>2. CASE i = Len(l)
      BY <3>1, <3>2, <1>3 DEF From
    <3>3. CASE i # Len(l)
      <4>1. i \in 1 .. Len(l) - 1 /\ i + 1 \in 1 .. Len(l)
        BY <3>1, <3>3
      <4> QED
        BY <3>1, <4>1, <1>3 DEF Covers
    <3> QED
      BY <3>2, <3>3
  <2>3. longer[Len(longer)].to = to
    BY <1>3
  <2> QED
    BY <1>3, <2>1, <2>2, <2>3 DEF Covers
<1> QED
  BY <1>3, <1>4, <1>5 DEF longer, last

(* What the calls of DeleteFile and of the readers leave alone.             *)
LEMMA DeletesQuiet ==
    ASSUME NEW d \in Deleters,
           DeleteFile(d) \/ StatManifest(d) \/ GetManifest(d) \/ RemoveObject(d)
    PROVE  /\ UNCHANGED <<length, parts, manifest, uploads, saveVars, rd, leaky>>
           /\ \/ plain' = plain /\ hurt' = hurt
              \/ plain' = None /\ hurt' = (hurt \/ plain # None)
<1>1. CASE DeleteFile(d) \/ StatManifest(d) \/ GetManifest(d)
  <2>1. UNCHANGED <<length, plain, parts, manifest, uploads, saveVars, rd, leaky, hurt>>
    BY Zenon, <1>1 DEF DeleteFile, StatManifest, GetManifest, bucketVars
  <2> QED
    BY <2>1
<1>2. CASE RemoveObject(d)
  <2>1. UNCHANGED <<length, parts, manifest, uploads, saveVars, rd, leaky>>
    BY Zenon, <1>2 DEF RemoveObject
  <2>2. \/ plain' = None /\ hurt' = (hurt \/ plain # None)
        \/ plain' = plain /\ hurt' = hurt
    BY Zenon, <1>2 DEF RemoveObject
  <2> QED
    BY Zenon, <2>1, <2>2
<1> QED
  BY <1>1, <1>2

LEMMA ReadsQuiet ==
    ASSUME NEW r \in Readers,
           \/ GetFile(r) \/ readManifest(r) \/ GetObject(r) \/ ReadObject(r)
           \/ ReadPart(r) \/ ReadPartFails(r) \/ ReadEnds(r)
    PROVE  UNCHANGED <<length, plain, parts, manifest, uploads, saveVars, todo,
                       del, leaky, hurt>>
BY Zenon DEF GetFile, readManifest, GetObject, ReadObject, ReadPart, ReadPartFails,
             ReadEnds, bucketVars

(* What the removal of a key does besides.                                  *)
LEMMA RemoveKeyQuiet ==
    ASSUME NEW a \in Actors, NEW k \in Keys, RemoveKey(a, k)
    PROVE  /\ UNCHANGED <<length, plain, uploads, read, count, drained, list, rd>>
           /\ k \in todo[a]
           /\ todo' = [todo EXCEPT ![a] = @ \ {k}]
           /\ \/ stage' = stage
              \/ a = "saver" /\ stage' = "failed"
           /\ \/ Without(k)
              \/ leaky' = TRUE /\ manifest' = manifest /\ parts' = parts
           /\ leaky' \in {leaky, TRUE}
           /\ hurt' = (hurt \/ a # "saver")
BY DEF RemoveKey, Answer

-----------------------------------------------------------------------------
(* Types                                                                    *)

LEMMA SaveTypeStep ==
    ASSUME TypeOK, Layout, Next
    PROVE  SaveTypeOK'
<1> USE UploadAssumption DEF TypeOK
<1>0. CASE UNCHANGED <<length, saveVars>>
  BY <1>0 DEF SaveTypeOK, saveVars
<1>1. ASSUME UNCHANGED <<length, read, count, drained, list>>,
             stage' \in {"idle"} \cup Working \cup Over,
             stage' \in {"open", "parts", "abort"} => Len(list) <= From(list)
      PROVE  SaveTypeOK'
  BY <1>1 DEF SaveTypeOK
<1>2. CASE SaveFile \/ uploadSingleObject \/ NewMultipartUpload \/ AbortEmptyUpload
           \/ writeManifest
  <2>1. list = <<>> => Len(list) <= From(list)
    BY DEF From
  <2>2. /\ UNCHANGED <<length, read, count, drained, list>>
        /\ \/ stage' \in {"single", "failed", "ok", "manifest"}
           \/ stage = "idle" /\ stage' = "open"
           \/ stage = "open" /\ stage' = "parts"
    BY <1>2 DEF SaveFile, uploadSingleObject, NewMultipartUpload, AbortEmptyUpload,
       writeManifest
  <2> QED
    BY <1>1, <2>1, <2>2 DEF SaveTypeOK, Layout, Working, Over
<1>3. CASE NewMultipartUploadFails \/ PutInnerPartFails
           \/ CompleteMultipartUploadFails \/ writeManifestFails
           \/ AbortMultipartUpload
  <2>1. /\ stage' \in {"abort", "clean", "failed"}
        /\ stage' = "abort" => stage = "parts"
    BY <1>3 DEF NewMultipartUploadFails, PutInnerPartFails, More,
       CompleteMultipartUploadFails, writeManifestFails, AbortMultipartUpload, Abandon
  <2> QED
    BY <1>1, <1>3, <2>1 DEF SaveTypeOK, NewMultipartUploadFails, PutInnerPartFails,
       CompleteMultipartUploadFails, writeManifestFails, AbortMultipartUpload,
       Working, Over
<1>4. CASE PutInnerPart
  <2>1. Filled(read) \in 0 .. length /\ read < Filled(read)
    BY <1>4, FilledBytes DEF PutInnerPart, SaveTypeOK
  <2>2. count' \in 0 .. MaxParts
    BY <1>4 DEF PutInnerPart, More, SaveTypeOK
  <2> QED
    BY <1>4, <2>1, <2>2, FromOffset DEF PutInnerPart, SaveTypeOK
<1>5. CASE SourceEnds \/ PutEmptyPart
  <2>1. /\ UNCHANGED <<length, stage, read, list>> /\ drained' = TRUE
        /\ count' = count \/ (count' = count + 1 /\ count < MaxParts)
    BY <1>5 DEF SourceEnds, PutEmptyPart, More, bucketVars
  <2>2. count' \in 0 .. MaxParts
    BY <2>1 DEF SaveTypeOK
  <2> QED
    BY <2>1, <2>2 DEF SaveTypeOK
<1>6. CASE CompleteMultipartUpload
  <2>1. read \in Nat /\ count \in Nat /\ From(list) \in Nat
    BY FromOffset DEF SaveTypeOK
  <2>2. From(list) < read \/ (From(list) <= read /\ drained)
    BY <1>6, <2>1 DEF CompleteMultipartUpload, Layout, SaveTypeOK
  <2>3. /\ list' \in Seq(Piece)
        /\ Len(list') = Len(list) + 1
        /\ From(list') = read
    <3>1. list' = Append(list, [from |-> From(list), to |-> read])
      BY <1>6 DEF CompleteMultipartUpload, Current
    <3>2. list = <<>> \/ Covers(list, From(list))
      BY DEF Layout
    <3> QED
      BY <2>1, <3>1, <3>2, Appended DEF SaveTypeOK
  <2>4. /\ stage' = (IF drained THEN "manifest" ELSE "open")
        /\ UNCHANGED <<length, read, drained>> /\ count' = 0
    BY <1>6 DEF CompleteMultipartUpload
  <2>5. Len(list) <= From(list) /\ Len(list) \in Nat
    BY <1>6 DEF CompleteMultipartUpload, SaveTypeOK
  <2>6. Len(list') <= read + 1 /\ (~ drained => Len(list') <= read)
    BY <2>1, <2>2, <2>3, <2>5
  <2> QED
    BY <2>1, <2>3, <2>4, <2>6 DEF SaveTypeOK, Working
<1>7. CASE \E a \in Actors, k \in Keys : RemoveKey(a, k)
  BY <1>1, <1>7, RemoveKeyQuiet DEF SaveTypeOK, Over
<1>8. CASE ProcessRestarts
  BY <1>1, <1>8 DEF ProcessRestarts, SaveTypeOK, Over
<1>9. CASE BucketLoses
  BY <1>0, <1>9 DEF BucketLoses
<1> QED
  BY NextCases, DeletesQuiet, ReadsQuiet, <1>0, <1>2, <1>3, <1>4, <1>5, <1>6, <1>7,
     <1>8, <1>9

(* The object being uploaded has an index and is a piece.                   *)
LEMMA IndexTyped ==
    ASSUME SaveTypeOK
    PROVE  /\ Index \in Indices
           /\ Current \in Piece
           /\ [from |-> 0, to |-> length] \in Piece
           /\ 1 .. Len(list) \subseteq Indices
           /\ Index \notin 1 .. Len(list)
<1>1. Len(list) \in Nat /\ length \in Nat /\ read \in Nat /\ From(list) \in Nat
  BY FromOffset, UploadAssumption DEF SaveTypeOK
<1>2. Len(list) <= MaxLength + 1
  BY <1>1, UploadAssumption DEF SaveTypeOK
<1> QED
  BY <1>1, <1>2, UploadAssumption DEF Index, Indices, Current, Piece

(* What an error answered by the bucket may leave behind.                   *)
LEMMA FailuresQuiet ==
    ASSUME \/ NewMultipartUploadFails \/ PutInnerPartFails
           \/ CompleteMultipartUploadFails \/ writeManifestFails
           \/ AbortMultipartUpload
    PROVE  /\ UNCHANGED <<length, plain, read, count, drained, list, del, rd, hurt>>
           /\ stage \in {"open", "parts", "manifest", "abort"}
           /\ \E upload \in BOOLEAN : Abandon(upload)
           /\ stage = "open" => UNCHANGED <<parts, manifest>>
           /\ stage = "abort" => UNCHANGED <<parts, manifest>>
           /\ stage = "manifest" => /\ UNCHANGED <<parts, uploads, leaky>>
                                    /\ manifest' \in {manifest, list}
           /\ stage = "parts" => /\ UNCHANGED manifest
                                 /\ \/ parts' = parts /\ leaky' = leaky
                                    \/ /\ parts' = [parts EXCEPT ![Index] = Current]
                                       /\ leaky' = TRUE
           /\ uploads' \subseteq uploads \cup {Index}
<1>1. CASE NewMultipartUploadFails
  BY <1>1 DEF NewMultipartUploadFails
<1>2. CASE PutInnerPartFails
  BY <1>2 DEF PutInnerPartFails, More, bucketVars
<1>3. CASE CompleteMultipartUploadFails
  BY <1>3 DEF CompleteMultipartUploadFails
<1>4. CASE writeManifestFails
  BY <1>4 DEF writeManifestFails
<1>5. CASE AbortMultipartUpload
  BY <1>5 DEF AbortMultipartUpload
<1> QED
  BY <1>1, <1>2, <1>3, <1>4, <1>5

LEMMA BucketTypeStep ==
    ASSUME TypeOK, Next
    PROVE  BucketTypeOK'
<1> USE DEF TypeOK, BucketTypeOK
<1>0. CASE UNCHANGED <<plain, parts, manifest, uploads>>
  BY <1>0
<1>1. CASE uploadSingleObject
  BY <1>1, IndexTyped DEF uploadSingleObject
<1>2. CASE NewMultipartUpload
  BY <1>2, IndexTyped DEF NewMultipartUpload
<1>3. CASE CompleteMultipartUpload
  BY <1>3, IndexTyped DEF CompleteMultipartUpload
<1>4. CASE AbortEmptyUpload
  BY <1>4 DEF AbortEmptyUpload
<1>5. CASE writeManifest
  BY <1>5 DEF writeManifest, SaveTypeOK
<1>6. CASE \/ NewMultipartUploadFails \/ PutInnerPartFails
           \/ CompleteMultipartUploadFails \/ writeManifestFails
           \/ AbortMultipartUpload
  <2>1. /\ plain' = plain
        /\ uploads' \subseteq uploads \cup {Index}
        /\ manifest' \in {manifest, list}
        /\ parts' = parts \/ parts' = [parts EXCEPT ![Index] = Current]
    BY <1>6, FailuresQuiet
  <2>2. list \in Seq(Piece)
    BY DEF SaveTypeOK
  <2> QED
    BY <2>1, <2>2, IndexTyped
<1>7. ASSUME NEW a \in Actors, NEW k \in Keys, RemoveKey(a, k)
      PROVE  BucketTypeOK'
  BY <1>7, RemoveKeyQuiet DEF Without
<1>8. ASSUME NEW d \in Deleters,
             DeleteFile(d) \/ StatManifest(d) \/ GetManifest(d) \/ RemoveObject(d)
      PROVE  BucketTypeOK'
  <2>1. UNCHANGED <<parts, manifest, uploads>> /\ (plain' = plain \/ plain' = None)
    BY <1>8, DeletesQuiet
  <2> QED
    BY <2>1
<1>9. CASE BucketLoses
  BY <1>9 DEF BucketLoses
<1>10. CASE SaveFile \/ PutInnerPart \/ SourceEnds \/ PutEmptyPart \/ ProcessRestarts
  BY <1>0, <1>10 DEF SaveFile, PutInnerPart, SourceEnds, PutEmptyPart, ProcessRestarts, bucketVars
<1> QED
  BY NextCases, ReadsQuiet, <1>0, <1>1, <1>2, <1>3, <1>4, <1>5, <1>6, <1>7, <1>8,
     <1>9, <1>10

DelStages == {"idle", "stat", "get", "plain", "remove", "broken", "ok", "failed"}
ReadStages == {"idle", "get", "plain", "body", "parts", "ok", "failed"}
Read == [at : ReadStages, got : Seq(Piece \cup {Damaged}), list : Seq(Piece),
         sound : BOOLEAN]

(* What is left of a read that failed.                                      *)
LEMMA FailedRead == Failed \in Read /\ Failed.at = "failed"
BY DEF Failed, Read, ReadStages

LEMMA TodoTypeStep ==
    ASSUME TypeOK, Published, Next
    PROVE  todo' \in [Actors -> SUBSET Keys]
<1> USE DEF TypeOK, CallsTypeOK
<1>0. 1 .. Len(list) \subseteq Keys
  BY IndexTyped DEF Keys
<1>1. CASE UNCHANGED todo
  BY <1>1
<1>2. CASE SaveFile \/ uploadSingleObject \/ NewMultipartUpload \/ PutInnerPart
           \/ SourceEnds \/ PutEmptyPart \/ CompleteMultipartUpload \/ AbortEmptyUpload
           \/ writeManifest \/ BucketLoses
  BY <1>1, <1>2 DEF SaveFile, uploadSingleObject, NewMultipartUpload, PutInnerPart,
     SourceEnds, PutEmptyPart, CompleteMultipartUpload, AbortEmptyUpload, writeManifest, BucketLoses
<1>3. CASE \/ NewMultipartUploadFails \/ PutInnerPartFails
           \/ CompleteMultipartUploadFails \/ writeManifestFails
           \/ AbortMultipartUpload
  <2>1. todo' = todo \/ todo' = [todo EXCEPT !["saver"] = 1 .. Len(list)]
    BY <1>3, FailuresQuiet, AbandonStage
  <2> QED
    BY <1>0, <2>1
<1>4. ASSUME NEW a \in Actors, NEW k \in Keys, RemoveKey(a, k)
      PROVE  todo' \in [Actors -> SUBSET Keys]
  <2>1. todo' = [todo EXCEPT ![a] = @ \ {k}]
    BY <1>4, RemoveKeyQuiet
  <2> QED
    BY <2>1
<1>5. ASSUME NEW d \in Deleters,
             DeleteFile(d) \/ StatManifest(d) \/ GetManifest(d) \/ RemoveObject(d)
      PROVE  todo' \in [Actors -> SUBSET Keys]
  <2>1. \/ todo' = todo
        \/ manifest # None /\ todo' = [todo EXCEPT ![d] = {0} \cup 1 .. Len(manifest)]
    BY Zenon, <1>5 DEF DeleteFile, StatManifest, GetManifest, RemoveObject
  <2>2. manifest # None => {0} \cup 1 .. Len(manifest) \in SUBSET Keys
    BY <1>0 DEF Published, Keys
  <2> QED
    BY <2>1, <2>2
<1>6. CASE ProcessRestarts
  BY <1>6 DEF ProcessRestarts
<1> QED
  BY NextCases, ReadsQuiet, <1>1, <1>2, <1>3, <1>4, <1>5, <1>6

(* A call of DeleteFile goes from stage to stage and keeps its flag.        *)
LEMMA DelTypeStep ==
    ASSUME TypeOK, Next
    PROVE  del' \in [Deleters -> [at : DelStages, late : BOOLEAN]]
<1> DEFINE T == [Deleters -> [at : DelStages, late : BOOLEAN]]
<1>0. del \in T
  BY DEF TypeOK, CallsTypeOK, DelStages
<1>1. CASE UNCHANGED del
  BY <1>0, <1>1
<1>2. ASSUME NEW d \in Deleters, NEW to \in DelStages,
             del' = [del EXCEPT ![d].at = to]
      PROVE  del' \in T
  BY <1>0, <1>2
<1>3. ASSUME NEW d \in Deleters, NEW from,
             \E to \in DelStages : Deleting(d, from, to)
      PROVE  del' \in T
  BY <1>2, <1>3 DEF Deleting
<1>4. CASE SaveFile \/ uploadSingleObject \/ NewMultipartUpload \/ PutInnerPart
           \/ SourceEnds \/ PutEmptyPart \/ CompleteMultipartUpload \/ AbortEmptyUpload
           \/ writeManifest \/ BucketLoses
  BY <1>1, <1>4 DEF SaveFile, uploadSingleObject, NewMultipartUpload, PutInnerPart,
     SourceEnds, PutEmptyPart, CompleteMultipartUpload, AbortEmptyUpload, writeManifest, BucketLoses
<1>5. CASE \/ NewMultipartUploadFails \/ PutInnerPartFails
           \/ CompleteMultipartUploadFails \/ writeManifestFails
           \/ AbortMultipartUpload
  BY <1>1, <1>5, FailuresQuiet
<1>6. ASSUME NEW a \in Actors, NEW k \in Keys, RemoveKey(a, k)
      PROVE  del' \in T
  <2>1. del[a].at \in DelStages \/ a = "saver"
    BY <1>0 DEF Actors
  <2>2. \/ del' = del
        \/ a # "saver" /\ \E to \in DelStages : del' = [del EXCEPT ![a].at = to]
    BY <1>6, <2>1 DEF RemoveKey, Answer, DelStages
  <2> QED
    BY <1>1, <1>2, <2>2 DEF Actors
<1>7. ASSUME NEW d \in Deleters,
             DeleteFile(d) \/ StatManifest(d) \/ GetManifest(d) \/ RemoveObject(d)
      PROVE  del' \in T
  <2>1. CASE DeleteFile(d)
    BY <1>0, <2>1 DEF DeleteFile, DelStages
  <2>2. CASE StatManifest(d)
    BY <1>3, <2>2 DEF StatManifest, DelStages
  <2>3. CASE GetManifest(d)
    BY <1>3, <2>3 DEF GetManifest, DelStages
  <2>4. CASE RemoveObject(d)
    BY <1>3, <2>4 DEF RemoveObject, DelStages
  <2> QED
    BY <1>7, <2>1, <2>2, <2>3, <2>4
<1>8. CASE ProcessRestarts
  <2>1. \A d \in Deleters : [del[d] EXCEPT !.at = "failed"] \in [at : DelStages, late : BOOLEAN]
    BY <1>0 DEF DelStages
  <2> QED
    BY <1>0, <1>8, <2>1 DEF ProcessRestarts
<1> QED
  BY NextCases, ReadsQuiet, <1>1, <1>4, <1>5, <1>6, <1>7, <1>8

LEMMA ReadTypeStep ==
    ASSUME TypeOK, Published, ReadsSound, Next
    PROVE  rd' \in [Readers -> Read]
<1> DEFINE T == [Readers -> Read]
<1>0. rd \in T
  BY DEF TypeOK, CallsTypeOK, ReadStages, Read
<1>1. CASE UNCHANGED rd
  BY <1>0, <1>1
<1>2. ASSUME NEW r \in Readers, NEW x \in Read, rd' = [rd EXCEPT ![r] = x]
      PROVE  rd' \in T
  BY <1>0, <1>2
<1>3. ASSUME NEW r \in Readers, NEW from, NEW to \in ReadStages, Reading(r, from, to)
      PROVE  rd' \in T
  <2>1. [rd[r] EXCEPT !.at = to] \in Read
    BY <1>0 DEF Read
  <2>2. rd' = [rd EXCEPT ![r] = [rd[r] EXCEPT !.at = to]]
    BY <1>3 DEF Reading
  <2> QED
    BY <1>2, <2>1, <2>2
<1>4. ASSUME NEW r \in Readers, NEW from, NEW to \in ReadStages,
             NEW l \in Seq(Piece), Opening(r, from, to, l)
      PROVE  rd' \in T
  <2>1. Stored \in BOOLEAN
    BY Zenon DEF Stored
  <2>2. [at |-> to, list |-> l, got |-> <<>>, sound |-> Stored] \in Read
    BY <2>1 DEF Read
  <2> QED
    BY <1>2, <1>4, <2>2 DEF Opening
<1>5. CASE SaveFile \/ uploadSingleObject \/ NewMultipartUpload \/ PutInnerPart
           \/ SourceEnds \/ PutEmptyPart \/ CompleteMultipartUpload \/ AbortEmptyUpload
           \/ writeManifest \/ BucketLoses
  BY <1>1, <1>5 DEF SaveFile, uploadSingleObject, NewMultipartUpload, PutInnerPart,
     SourceEnds, PutEmptyPart, CompleteMultipartUpload, AbortEmptyUpload, writeManifest, BucketLoses
<1>6. CASE \/ NewMultipartUploadFails \/ PutInnerPartFails
           \/ CompleteMultipartUploadFails \/ writeManifestFails
           \/ AbortMultipartUpload
  BY <1>1, <1>6, FailuresQuiet
<1>7. ASSUME NEW r \in Readers,
             \/ GetFile(r) \/ readManifest(r) \/ GetObject(r) \/ ReadObject(r)
             \/ ReadPart(r) \/ ReadPartFails(r) \/ ReadEnds(r)
      PROVE  rd' \in T
  <2>1. CASE GetFile(r)
    BY <1>2, <1>3, <2>1, FailedRead DEF GetFile, ReadFails, ReadStages
  <2>2. CASE readManifest(r)
    BY <1>2, <1>3, <1>4, <2>2, FailedRead
       DEF readManifest, ReadFails, ReadStages, TypeOK, BucketTypeOK
  <2>3. CASE GetObject(r)
    <3>1. plain # None => <<plain>> \in Seq(Piece)
      BY DEF TypeOK, BucketTypeOK
    <3> QED
      BY <1>2, <1>3, <1>4, <2>3, <3>1, FailedRead DEF GetObject, ReadFails, ReadStages
  <2>4. CASE ReadObject(r)
    <3>1. CASE rd' = [rd EXCEPT ![r].at = "ok", ![r].got = rd[r].list]
      <4>1. rd[r].list \in Seq(Piece \cup {Damaged})
        BY <1>0 DEF Read
      <4>2. [rd[r] EXCEPT !.at = "ok", !.got = rd[r].list] \in Read
        BY <1>0, <4>1 DEF Read, ReadStages
      <4>3. rd' = [rd EXCEPT ![r] = [rd[r] EXCEPT !.at = "ok", !.got = rd[r].list]]
        BY <3>1
      <4> QED
        BY <1>2, <4>2, <4>3
    <3> QED
      BY <1>2, <2>4, <3>1, FailedRead DEF ReadObject, ReadFails
  <2>5. CASE ReadPart(r)
    <3> DEFINE next == Len(rd[r].got) + 1
    <3>1. next \in 1 .. Len(list)
      BY <1>0, <2>5 DEF ReadPart, ReadsSound, ReadSound, Read
    <3>2. parts[next] \in Piece \cup {Damaged}
      BY <2>5, <3>1, IndexTyped DEF ReadPart, TypeOK, BucketTypeOK
    <3>3. Append(rd[r].got, parts[next]) \in Seq(Piece \cup {Damaged})
      BY <1>0, <3>2 DEF Read
    <3>4. \/ rd' = [rd EXCEPT ![r] = [rd[r] EXCEPT !.got = Append(rd[r].got, parts[next])]]
          \/ rd' = [rd EXCEPT ![r] = Failed]
      BY <2>5 DEF ReadPart
    <3> HIDE DEF next
    <3>5. [rd[r] EXCEPT !.got = Append(rd[r].got, parts[next])] \in Read
      BY <1>0, <3>3 DEF Read
    <3> QED
      BY <1>2, <3>4, <3>5, FailedRead
  <2>6. CASE ReadPartFails(r)
    BY <1>2, <2>6, FailedRead DEF ReadPartFails, ReadFails
  <2>7. CASE ReadEnds(r)
    BY <1>3, <2>7 DEF ReadEnds, ReadStages
  <2> QED
    BY <1>7, <2>1, <2>2, <2>3, <2>4, <2>5, <2>6, <2>7
<1>8. CASE ProcessRestarts
  BY <1>0, <1>8, FailedRead DEF ProcessRestarts
<1> QED
  BY NextCases, RemoveKeyQuiet, DeletesQuiet, <1>1, <1>5, <1>6, <1>7, <1>8

(* The histories are flags.                                                 *)
LEMMA FlagTypeStep ==
    ASSUME TypeOK, Next
    PROVE  leaky' \in BOOLEAN /\ hurt' \in BOOLEAN
<1>0. leaky \in BOOLEAN /\ hurt \in BOOLEAN
  BY DEF TypeOK, CallsTypeOK
<1>1. CASE UNCHANGED <<leaky, hurt>>
  BY <1>0, <1>1
<1>2. CASE SaveFile \/ uploadSingleObject \/ NewMultipartUpload \/ PutInnerPart
           \/ SourceEnds \/ PutEmptyPart \/ CompleteMultipartUpload \/ writeManifest
  BY <1>1, <1>2 DEF SaveFile, uploadSingleObject, NewMultipartUpload, PutInnerPart,
     SourceEnds, PutEmptyPart, CompleteMultipartUpload, writeManifest
<1>3. CASE AbortEmptyUpload \/ NewMultipartUploadFails \/ PutInnerPartFails
           \/ CompleteMultipartUploadFails \/ writeManifestFails
           \/ AbortMultipartUpload
  BY <1>0, <1>3 DEF AbortEmptyUpload, NewMultipartUploadFails, PutInnerPartFails,
     CompleteMultipartUploadFails, writeManifestFails, AbortMultipartUpload
<1>4. ASSUME NEW a \in Actors, NEW k \in Keys, RemoveKey(a, k)
      PROVE  leaky' \in BOOLEAN /\ hurt' \in BOOLEAN
  BY <1>0, <1>4 DEF RemoveKey
<1>5. ASSUME NEW d \in Deleters,
             DeleteFile(d) \/ StatManifest(d) \/ GetManifest(d) \/ RemoveObject(d)
      PROVE  leaky' \in BOOLEAN /\ hurt' \in BOOLEAN
  BY <1>0, <1>5, DeletesQuiet
<1>6. CASE ProcessRestarts \/ BucketLoses
  BY <1>0, <1>6 DEF ProcessRestarts, BucketLoses
<1> QED
  BY NextCases, ReadsQuiet, <1>1, <1>2, <1>3, <1>4, <1>5, <1>6

LEMMA TypeStep ==
    ASSUME TypeOK, Layout, Published, ReadsSound, Next
    PROVE  TypeOK'
BY SaveTypeStep, BucketTypeStep, TodoTypeStep, DelTypeStep, ReadTypeStep, FlagTypeStep
   DEF TypeOK, CallsTypeOK, DelStages, ReadStages, Read

-----------------------------------------------------------------------------
(* The steps of the invariant                                               *)

LEMMA LayoutStep ==
    ASSUME TypeOK, Layout, Next
    PROVE  Layout'
<1>0. /\ length \in Nat /\ read \in 0 .. length /\ count \in 0 .. MaxParts
      /\ drained \in BOOLEAN /\ list \in Seq(Piece) /\ From(list) \in Nat
  BY FromOffset, UploadAssumption DEF TypeOK, SaveTypeOK
<1>1. CASE UNCHANGED <<length, saveVars>>
  BY <1>1 DEF Layout, saveVars
<1>2. ASSUME UNCHANGED <<length, read, count, drained, list>>,
             \/ stage' = stage
             \/ stage' \in Over
             \/ stage' \in {"abort", "clean"} /\ stage \in Working \ {"single"}
      PROVE  Layout'
  BY <1>2 DEF Layout, Over, Working
<1>3. CASE SaveFile
  <2>1. stage = "idle" /\ UNCHANGED <<length, read, count, drained, list>>
    BY <1>3 DEF SaveFile
  <2>2. stage' \in {"single", "failed"} \/ (stage' = "open" /\ length > 0)
    BY <1>0, <1>3, UploadAssumption DEF SaveFile
  <2> QED
    BY <1>0, <2>1, <2>2 DEF Layout, Working, From
<1>4. CASE uploadSingleObject
  BY <1>2, <1>4 DEF uploadSingleObject, Over
<1>5. CASE NewMultipartUpload
  BY <1>5 DEF NewMultipartUpload, Layout, Working
<1>6. CASE PutInnerPart
  <2>1. /\ Filled(read) \in 0 .. length
        /\ read < Filled(read)
        /\ Filled(read) < read + PartSize => Filled(read) = length
    BY <1>0, <1>6, FilledBytes DEF PutInnerPart
  <2>2. /\ stage = "parts" /\ stage' = stage /\ count' = count + 1
        /\ read' = Filled(read) /\ list' = list /\ length' = length
        /\ drained' = (Filled(read) < read + PartSize)
    BY <1>6 DEF PutInnerPart, More
  <2>3. From(list) <= read
    BY DEF TypeOK, SaveTypeOK
  <2> QED
    BY <1>0, <2>1, <2>2, <2>3 DEF Layout, Working
<1>7. CASE SourceEnds \/ PutEmptyPart
  BY <1>0, <1>7 DEF SourceEnds, PutEmptyPart, More, Layout, Working
<1>8. CASE CompleteMultipartUpload
  <2>1. list' = Append(list, [from |-> From(list), to |-> read])
    BY <1>8 DEF CompleteMultipartUpload, Current
  <2>2. list = <<>> \/ Covers(list, From(list))
    BY DEF Layout
  <2>3. list' # <<>> /\ From(list') = read /\ Covers(list', read)
    BY <1>0, <2>1, <2>2, Appended
  <2>4. /\ stage = "parts" /\ stage' = IF drained THEN "manifest" ELSE "open"
        /\ UNCHANGED <<length, read, drained>> /\ count' = 0
    BY <1>8 DEF CompleteMultipartUpload
  <2> QED
    BY <1>0, <2>3, <2>4 DEF Layout, Working
<1>9. CASE AbortEmptyUpload
  <2>1. /\ stage = "parts" /\ count = 0 /\ drained
        /\ stage' = "manifest" /\ UNCHANGED <<length, read, count, drained, list>>
    BY <1>0, <1>9, UploadAssumption DEF AbortEmptyUpload, More
  <2>2. From(list) = length /\ length > 0
    BY <2>1 DEF Layout, Working
  <2>3. list # <<>>
    BY <2>2 DEF From
  <2> QED
    BY <2>1, <2>2, <2>3 DEF Layout, Working
<1>10. CASE writeManifest
  BY <1>2, <1>10 DEF writeManifest, Over
<1>11. CASE \/ NewMultipartUploadFails \/ PutInnerPartFails
            \/ CompleteMultipartUploadFails \/ writeManifestFails
            \/ AbortMultipartUpload
  <2>1. stage' \in {"abort", "clean", "failed"}
    BY <1>11, FailuresQuiet, AbandonStage
  <2>2. UNCHANGED <<length, read, count, drained, list>>
    BY <1>11, FailuresQuiet
  <2>3. stage \in Working \ {"single"}
    BY <1>11, FailuresQuiet DEF Working
  <2> QED
    BY <1>2, <2>1, <2>2, <2>3 DEF Over
<1>12. ASSUME NEW a \in Actors, NEW k \in Keys, RemoveKey(a, k)
       PROVE  Layout'
  <2>1. UNCHANGED <<length, read, count, drained, list>>
    BY <1>12, RemoveKeyQuiet
  <2>2. stage' = stage \/ stage' \in Over
    BY <1>12, RemoveKeyQuiet DEF Over
  <2> QED
    BY <1>2, <2>1, <2>2
<1>13. CASE ProcessRestarts
  BY <1>2, <1>13 DEF ProcessRestarts, Over
<1>14. CASE BucketLoses
  BY <1>1, <1>14 DEF BucketLoses
<1> QED
  BY NextCases, DeletesQuiet, ReadsQuiet, <1>1, <1>3, <1>4, <1>5, <1>6, <1>7, <1>8,
     <1>9, <1>10, <1>11, <1>12, <1>13, <1>14

LEMMA PublishedStep ==
    ASSUME TypeOK, Layout, Published, Next
    PROVE  Published'
<1>0. None \notin Piece /\ list # None
  BY UploadAssumption DEF TypeOK, SaveTypeOK
<1>1. ASSUME UNCHANGED <<length, list>>, plain' \in {plain, None},
             manifest' \in {manifest, None},
             stage' = stage \/ stage' \in Over
      PROVE  Published'
  BY <1>1 DEF Published
<1>2. ASSUME UNCHANGED <<plain, manifest, length>>,
             stage \in {"idle", "single", "open", "parts", "manifest", "abort"}
      PROVE  Published'
  <2>1. plain = None /\ manifest = None
    BY <1>2 DEF Published, Over
  <2> QED
    BY <1>2, <2>1 DEF Published
<1>3. CASE SaveFile \/ NewMultipartUpload \/ PutInnerPart \/ SourceEnds \/ PutEmptyPart
           \/ CompleteMultipartUpload \/ AbortEmptyUpload
  BY <1>2, <1>3 DEF SaveFile, NewMultipartUpload, PutInnerPart, SourceEnds, PutEmptyPart, More,
     CompleteMultipartUpload, AbortEmptyUpload, bucketVars
<1>4. CASE uploadSingleObject
  <2>1. stage = "single" /\ list = <<>> /\ manifest = None /\ plain = None
    BY <1>4 DEF uploadSingleObject, Layout, Published, Over
  <2>2. /\ stage' \in Over
        /\ plain' \in {None, [from |-> 0, to |-> length]}
        /\ UNCHANGED <<length, manifest, list>>
    BY <1>4, <2>1 DEF uploadSingleObject, Over
  <2> QED
    BY <2>1, <2>2 DEF Published
<1>5. CASE writeManifest
  <2>1. stage = "manifest" /\ list # <<>> /\ From(list) = length /\ plain = None
    BY <1>5 DEF writeManifest, Layout, Published, Over
  <2>2. stage' \in Over /\ manifest' = list /\ UNCHANGED <<length, plain, list>>
    BY <1>5 DEF writeManifest, Over
  <2> QED
    BY <2>1, <2>2 DEF Published
<1>6. CASE \/ NewMultipartUploadFails \/ PutInnerPartFails
           \/ CompleteMultipartUploadFails \/ writeManifestFails
           \/ AbortMultipartUpload
  <2>1. /\ UNCHANGED <<length, plain, list>>
        /\ stage \in {"open", "parts", "manifest", "abort"}
        /\ stage # "manifest" => manifest' = manifest
        /\ stage = "manifest" => manifest' \in {manifest, list}
    BY <1>6, FailuresQuiet
  <2>2. CASE stage # "manifest"
    BY <1>2, <2>1, <2>2
  <2>3. CASE stage = "manifest"
    <3>1. plain = None /\ manifest = None /\ list # <<>> /\ From(list) = length
      BY <2>3 DEF Layout, Published, Over
    <3>2. stage' \in {"clean", "failed"}
      BY <1>6, <2>3, AbandonStage DEF NewMultipartUploadFails, PutInnerPartFails, More,
         CompleteMultipartUploadFails, writeManifestFails, AbortMultipartUpload
    <3> QED
      BY <2>1, <2>3, <3>1, <3>2 DEF Published, Over
  <2> QED
    BY <2>2, <2>3
<1>7. ASSUME NEW a \in Actors, NEW k \in Keys, RemoveKey(a, k)
      PROVE  Published'
  <2>1. UNCHANGED <<length, list, plain>> /\ manifest' \in {manifest, None}
    BY <1>7, RemoveKeyQuiet DEF Without
  <2>2. stage' = stage \/ stage' \in Over
    BY <1>7, RemoveKeyQuiet DEF Over
  <2> QED
    BY <1>1, <2>1, <2>2
<1>8. ASSUME NEW d \in Deleters,
             DeleteFile(d) \/ StatManifest(d) \/ GetManifest(d) \/ RemoveObject(d)
      PROVE  Published'
  BY <1>1, <1>8, DeletesQuiet DEF saveVars
<1>9. ASSUME NEW r \in Readers,
             \/ GetFile(r) \/ readManifest(r) \/ GetObject(r) \/ ReadObject(r)
             \/ ReadPart(r) \/ ReadPartFails(r) \/ ReadEnds(r)
      PROVE  Published'
  BY <1>1, <1>9, ReadsQuiet DEF saveVars
<1>10. CASE ProcessRestarts
  BY <1>1, <1>10 DEF ProcessRestarts, Over, bucketVars
<1>11. CASE BucketLoses
  BY <1>1, <1>11 DEF BucketLoses, saveVars
<1> QED
  BY NextCases, <1>3, <1>4, <1>5, <1>6, <1>7, <1>8, <1>9, <1>10, <1>11

(* Stages before anything can be removed.                                   *)
Early == {"idle", "single", "open", "parts", "manifest", "abort"}

LEMMA KeptStep ==
    ASSUME TypeOK, Layout, Published, Kept, Next
    PROVE  Kept'
<1>0. /\ list \in Seq(Piece) /\ 1 .. Len(list) \subseteq Indices
      /\ Index \in Indices /\ Index \notin 1 .. Len(list)
      /\ Index = Len(list) + 1 /\ Len(list) \in Nat
      /\ parts \in [Indices -> Piece \cup {Damaged, None}]
      /\ todo \in [Actors -> SUBSET Keys]
      /\ "saver" \in Actors
  BY IndexTyped DEF TypeOK, SaveTypeOK, BucketTypeOK, CallsTypeOK, Index, Actors
<1>1. CASE UNCHANGED <<plain, parts, manifest, saveVars, todo, hurt>>
  BY <1>1 DEF Kept, saveVars
<1>2. ASSUME UNCHANGED <<parts, list, todo>>, stage \in Early, stage' \in Early \cup {"failed"}
      PROVE  Kept'
  BY <1>2 DEF Kept, Early
<1>3. CASE SaveFile \/ NewMultipartUpload \/ PutInnerPart \/ SourceEnds \/ PutEmptyPart
           \/ AbortEmptyUpload
  BY <1>2, <1>3 DEF SaveFile, NewMultipartUpload, PutInnerPart, SourceEnds, PutEmptyPart, More,
     AbortEmptyUpload, bucketVars, Early
<1>4. CASE uploadSingleObject
  <2>1. /\ stage = "single" /\ UNCHANGED <<parts, list, todo, manifest>>
        /\ \/ stage' = "failed"
           \/ stage' = "ok" /\ plain' = [from |-> 0, to |-> length]
    BY <1>4 DEF uploadSingleObject
  <2>2. manifest = None /\ [from |-> 0, to |-> length] # None
    BY <2>1, IndexTyped, UploadAssumption DEF Published, Over, TypeOK
  <2>3. CASE stage' = "failed"
    BY <1>2, <2>1, <2>3 DEF Early
  <2>4. CASE stage' = "ok"
    BY <2>1, <2>2, <2>4 DEF Kept
  <2> QED
    BY <2>1, <2>3, <2>4
<1>5. CASE CompleteMultipartUpload
  <2>1. list' = Append(list, [from |-> From(list), to |-> read])
    BY <1>5 DEF CompleteMultipartUpload, Current
  <2>2. list = <<>> \/ Covers(list, From(list))
    BY DEF Layout
  <2>3. read \in Nat
    BY DEF TypeOK, SaveTypeOK
  <2>4. /\ Len(list') = Index
        /\ \A i \in 1 .. Len(list) : list'[i] = list[i]
        /\ list'[Index] = Current
    BY <1>0, <2>1, <2>2, <2>3, Appended DEF Current
  <2>5. /\ parts' = [parts EXCEPT ![Index] = Current]
        /\ stage = "parts" /\ stage' \in {"manifest", "open"}
        /\ UNCHANGED todo
    BY <1>5 DEF CompleteMultipartUpload
  <2>6. \A i \in 1 .. Len(list') : parts'[i] = list'[i]
    <3> SUFFICES ASSUME NEW i \in 1 .. Len(list') PROVE parts'[i] = list'[i]
      OBVIOUS
    <3>1. CASE i = Index
      BY <1>0, <2>4, <2>5, <3>1
    <3>2. CASE i # Index
      <4>1. i \in 1 .. Len(list)
        BY <1>0, <2>4, <3>2
      <4>2. parts[i] = list[i]
        BY <2>5, <4>1 DEF Kept
      <4> QED
        BY <1>0, <2>4, <2>5, <3>2, <4>1, <4>2
    <3> QED
      BY <3>1, <3>2
  <2> QED
    BY <2>5, <2>6 DEF Kept
<1>6. CASE writeManifest
  <2>1. /\ stage = "manifest" /\ stage' = "ok" /\ manifest' = list
        /\ UNCHANGED <<parts, list, todo>>
    BY <1>6 DEF writeManifest
  <2>2. list # None
    BY <1>0, UploadAssumption
  <2> QED
    BY <2>1, <2>2 DEF Kept
<1>7. CASE \/ NewMultipartUploadFails \/ PutInnerPartFails
           \/ CompleteMultipartUploadFails \/ writeManifestFails
           \/ AbortMultipartUpload
  <2>1. PICK upload \in BOOLEAN : Abandon(upload)
    BY <1>7, FailuresQuiet
  <2>2. /\ stage \in {"open", "parts", "manifest", "abort"}
        /\ UNCHANGED list
        /\ parts' = parts \/ parts' = [parts EXCEPT ![Index] = Current]
    BY <1>7, FailuresQuiet
  <2>3. \A i \in 1 .. Len(list) : parts'[i] = list[i]
    BY <1>0, <2>2 DEF Kept
  <2>4. /\ stage' \in {"abort", "clean", "failed"}
        /\ stage' # "clean" => todo' = todo
    BY <2>1, AbandonStage
  <2>5. \A a \in Actors : todo[a] = {}
    BY <2>2 DEF Kept
  <2> QED
    BY <1>0, <2>2, <2>3, <2>4, <2>5 DEF Kept
<1>8. ASSUME NEW a \in Actors, NEW k \in Keys, RemoveKey(a, k)
      PROVE  Kept'
  <2>1. /\ k \in todo[a] /\ todo' = [todo EXCEPT ![a] = @ \ {k}]
        /\ UNCHANGED <<list, plain>>
        /\ hurt' = (hurt \/ a # "saver")
    BY <1>8, RemoveKeyQuiet
  <2>2. stage \notin Early
    BY <2>1 DEF Kept, Early
  <2>3. CASE a = "saver"
    <3>1. stage = "clean"
      BY <2>1, <2>3 DEF Kept
    <3>2. stage' = IF todo[a] = {k} THEN "failed" ELSE stage
      BY <1>8, <2>3 DEF RemoveKey, Answer
    <3> QED
      BY <1>0, <2>1, <2>3, <3>1, <3>2 DEF Kept
  <2>4. CASE a # "saver"
    <3>1. stage' = stage
      BY <1>8, <2>4, RemoveKeyQuiet
    <3>2. hurt'
      BY <2>1, <2>4
    <3>3. todo'["saver"] = todo["saver"]
      BY <1>0, <2>1, <2>4
    <3> QED
      BY <2>2, <3>1, <3>2, <3>3 DEF Kept, Early
  <2> QED
    BY <2>3, <2>4
<1>9. ASSUME NEW d \in Deleters,
             DeleteFile(d) \/ StatManifest(d) \/ GetManifest(d) \/ RemoveObject(d)
      PROVE  Kept'
  <2>1. UNCHANGED <<parts, manifest, stage, list>>
    BY <1>9, DeletesQuiet DEF saveVars
  <2>2. /\ d # "saver" /\ d \in Actors
        /\ \/ todo' = todo
           \/ manifest # None /\ todo' = [todo EXCEPT ![d] = {0} \cup 1 .. Len(manifest)]
    BY Zenon, <1>9, UploadAssumption
       DEF DeleteFile, StatManifest, GetManifest, RemoveObject, Actors
  <2>3. stage \in Early => todo' = todo
    BY <2>2 DEF Published, Early, Over
  <2>4. todo'["saver"] = todo["saver"]
    BY <1>0, <2>2
  <2>5. stage = "ok" /\ ~ hurt' => ~ hurt /\ plain' = plain
    BY <1>9, DeletesQuiet, <2>1 DEF Kept
  <2>6. /\ stage' \in Early => /\ \A i \in 1 .. Len(list') : parts'[i] = list'[i]
                               /\ \A a \in Actors : todo'[a] = {}
        /\ stage' # "clean" => todo'["saver"] = {}
    BY <2>1, <2>3, <2>4 DEF Kept, Early
  <2>7. stage' = "ok" /\ ~ hurt' =>
            /\ manifest' = None => plain' # None
            /\ manifest' # None => \A i \in 1 .. Len(list') : parts'[i] = list'[i]
    BY <2>1, <2>5 DEF Kept
  <2> QED
    BY <2>6, <2>7 DEF Kept, Early
<1>10. ASSUME NEW r \in Readers,
             \/ GetFile(r) \/ readManifest(r) \/ GetObject(r) \/ ReadObject(r)
             \/ ReadPart(r) \/ ReadPartFails(r) \/ ReadEnds(r)
       PROVE  Kept'
  BY <1>1, <1>10, ReadsQuiet
<1>11. CASE ProcessRestarts
  <2>1. /\ UNCHANGED <<plain, parts, manifest, list, hurt>>
        /\ todo' = [a \in Actors |-> {}]
        /\ stage' = IF stage \in Working THEN "killed" ELSE stage
    BY <1>11 DEF ProcessRestarts, bucketVars
  <2> QED
    BY <1>0, <2>1 DEF Kept, Working
<1>12. CASE BucketLoses
  BY <1>12 DEF BucketLoses, Kept, Over, saveVars
<1> QED
  BY NextCases, <1>3, <1>4, <1>5, <1>6, <1>7, <1>8, <1>9, <1>10, <1>11, <1>12

(* Where a removal leaves a key that somebody held, or an object.           *)
LEMMA RemovalClean ==
    ASSUME TypeOK, NEW a \in Actors, NEW k \in Keys, RemoveKey(a, k), ~ leaky'
    PROVE  /\ ~ leaky
           /\ manifest' = IF k = 0 THEN None ELSE manifest
           /\ \A i \in Indices : parts'[i] = IF i = k THEN None ELSE parts[i]
           /\ \A i \in Keys, b \in Actors :
                 i \in todo'[b] <=> i \in todo[b] /\ ~ (b = a /\ i = k)
<1>1. Without(k) /\ leaky' = leaky
  BY RemoveKeyQuiet
<1>2. todo' = [todo EXCEPT ![a] = @ \ {k}]
  BY RemoveKeyQuiet
<1>3. \A i \in Keys, b \in Actors :
         i \in todo'[b] <=> i \in todo[b] /\ ~ (b = a /\ i = k)
  BY <1>2 DEF TypeOK, CallsTypeOK
<1> QED
  BY <1>1, <1>3 DEF Without

LEMMA CountedStep ==
    ASSUME TypeOK, Layout, Published, Kept, Counted, Next
    PROVE  Counted'
<1>0. /\ list \in Seq(Piece) /\ 1 .. Len(list) \subseteq Indices
      /\ Index \in Indices /\ Index = Len(list) + 1 /\ Len(list) \in Nat
      /\ parts \in [Indices -> Piece \cup {Damaged, None}]
      /\ todo \in [Actors -> SUBSET Keys]
      /\ Indices \subseteq Keys /\ Indices \subseteq Nat \ {0} /\ 0 \in Keys
  BY IndexTyped, UploadAssumption
     DEF TypeOK, SaveTypeOK, BucketTypeOK, CallsTypeOK, Index, Keys, Indices
<1>1. CASE UNCHANGED <<parts, list, todo, leaky>>
  BY <1>1 DEF Counted
<1>2. ASSUME UNCHANGED <<parts, list, todo>>, leaky => leaky'
      PROVE  Counted'
  BY <1>2 DEF Counted
<1>3. CASE SaveFile \/ uploadSingleObject \/ NewMultipartUpload \/ PutInnerPart
           \/ SourceEnds \/ PutEmptyPart \/ AbortEmptyUpload \/ writeManifest
  BY <1>2, <1>3 DEF SaveFile, uploadSingleObject, NewMultipartUpload, PutInnerPart,
     SourceEnds, PutEmptyPart, AbortEmptyUpload, writeManifest, bucketVars
<1>4. CASE CompleteMultipartUpload
  <2>1. /\ stage = "parts" /\ parts' = [parts EXCEPT ![Index] = Current]
        /\ list' = Append(list, Current) /\ UNCHANGED <<todo, leaky>>
    BY <1>4 DEF CompleteMultipartUpload
  <2>2. Len(list') = Len(list) + 1
    BY <1>0, <2>1, IndexTyped DEF TypeOK
  <2>3. \A a \in Actors : todo'[a] = {}
    BY <2>1 DEF Kept
  <2>4. ~ leaky' => \A i \in Indices : parts'[i] # None => i <= Len(list')
    BY <1>0, <2>1, <2>2 DEF Counted
  <2> QED
    BY <2>3, <2>4 DEF Counted
<1>5. CASE \/ NewMultipartUploadFails \/ PutInnerPartFails
           \/ CompleteMultipartUploadFails \/ writeManifestFails
           \/ AbortMultipartUpload
  <2>1. PICK upload \in BOOLEAN : Abandon(upload)
    BY <1>5, FailuresQuiet
  <2>2. todo' = todo \/ todo' = [todo EXCEPT !["saver"] = 1 .. Len(list)]
    BY <2>1, AbandonStage
  <2>3. \A a \in Actors : 0 \notin todo'[a]
    BY <1>0, <1>5, <2>2, FailuresQuiet DEF Kept, Actors
  <2>4. ~ leaky' => parts' = parts /\ ~ leaky
    BY <1>5 DEF NewMultipartUploadFails, PutInnerPartFails,
       CompleteMultipartUploadFails, writeManifestFails, AbortMultipartUpload, bucketVars
  <2>5. UNCHANGED list
    BY <1>5, FailuresQuiet
  <2> QED
    BY <2>3, <2>4, <2>5 DEF Counted
<1>6. ASSUME NEW a \in Actors, NEW k \in Keys, RemoveKey(a, k)
      PROVE  Counted'
  <2>1. UNCHANGED list
    BY <1>6, RemoveKeyQuiet
  <2>2. CASE ~ leaky'
    <3>1. /\ ~ leaky
          /\ \A i \in Indices : parts'[i] = IF i = k THEN None ELSE parts[i]
          /\ \A i \in Keys, b \in Actors :
                i \in todo'[b] <=> i \in todo[b] /\ ~ (b = a /\ i = k)
      BY <1>6, <2>2, RemovalClean
    <3>2. \A i \in Indices : parts'[i] # None => i <= Len(list')
      BY <2>1, <3>1 DEF Counted
    <3>3. ASSUME NEW b \in Actors, NEW i \in 1 .. Len(list), 0 \in todo'[b]
          PROVE  i \in todo'[b] \/ parts'[i] = None
      <4>1. 0 \in todo[b] /\ i \in Indices /\ i \in Keys
        BY <1>0, <3>1, <3>3
      <4>2. i \in todo[b] \/ parts[i] = None
        BY <3>1, <4>1 DEF Counted
      <4> QED
        BY <3>1, <4>1, <4>2
    <3> QED
      BY <2>1, <3>2, <3>3 DEF Counted
  <2> QED
    BY <2>2 DEF Counted
<1>7. ASSUME NEW d \in Deleters,
             DeleteFile(d) \/ StatManifest(d) \/ GetManifest(d) \/ RemoveObject(d)
      PROVE  Counted'
  <2>1. UNCHANGED <<parts, list, leaky>>
    BY <1>7, DeletesQuiet DEF saveVars
  <2>2. \/ todo' = todo
        \/ manifest # None /\ todo' = [todo EXCEPT ![d] = {0} \cup 1 .. Len(manifest)]
    BY Zenon, <1>7 DEF DeleteFile, StatManifest, GetManifest, RemoveObject
  <2>3. manifest # None => manifest = list
    BY DEF Published
  <2>4. CASE todo' = todo
    BY <1>1, <2>1, <2>4
  <2>5. CASE todo' = [todo EXCEPT ![d] = {0} \cup 1 .. Len(list)]
    <3>1. \A a \in Actors : todo'[a] = todo[a] \/ todo'[a] = {0} \cup 1 .. Len(list)
      BY <1>0, <2>5
    <3> QED
      BY <2>1, <3>1 DEF Counted
  <2> QED
    BY <2>2, <2>3, <2>4, <2>5
<1>8. CASE ProcessRestarts
  <2>1. UNCHANGED <<parts, list>> /\ todo' = [a \in Actors |-> {}]
    BY <1>8 DEF ProcessRestarts, bucketVars
  <2>2. \A a \in Actors : 0 \notin todo'[a]
    BY <2>1
  <2>3. leaky' \/ ~ leaky
    BY Zenon, <1>8 DEF ProcessRestarts
  <2>4. leaky' \/ \A i \in Indices : parts'[i] # None => i <= Len(list')
    <3>1. CASE leaky'
      BY <3>1
    <3>2. CASE ~ leaky
      BY <2>1, <3>2 DEF Counted
    <3> QED
      BY Zenon, <2>3, <3>1, <3>2
  <2> QED
    BY <2>2, <2>4 DEF Counted
<1>9. CASE BucketLoses
  <2>1. /\ UNCHANGED <<list, todo, leaky>>
        /\ \A i \in Indices : parts[i] = None => parts'[i] = None
    BY <1>0, <1>9 DEF BucketLoses, saveVars
  <2>2. CASE leaky
    BY <2>1, <2>2 DEF Counted
  <2>3. CASE ~ leaky
    <3>1. \A i \in Indices : parts'[i] # None => i <= Len(list')
      BY <2>1, <2>3 DEF Counted
    <3>2. \A a \in Actors, i \in 1 .. Len(list') :
             0 \in todo'[a] => i \in todo'[a] \/ parts'[i] = None
      BY <1>0, <2>1, <2>3 DEF Counted
    <3> QED
      BY <3>1, <3>2 DEF Counted
  <2> QED
    BY <2>2, <2>3
<1> QED
  BY NextCases, ReadsQuiet, <1>1, <1>3, <1>4, <1>5, <1>6, <1>7, <1>8, <1>9 DEF saveVars

(* A failure among the removals is not forgotten.                           *)
LEMMA LeakyStays ==
    ASSUME TypeOK, Next, ~ leaky'
    PROVE  ~ leaky
<1>0. leaky \in BOOLEAN
  BY DEF TypeOK, CallsTypeOK
<1>1. CASE SaveFile \/ uploadSingleObject \/ NewMultipartUpload \/ PutInnerPart
           \/ SourceEnds \/ PutEmptyPart \/ CompleteMultipartUpload \/ writeManifest
  BY <1>1 DEF SaveFile, uploadSingleObject, NewMultipartUpload, PutInnerPart,
     SourceEnds, PutEmptyPart, CompleteMultipartUpload, writeManifest
<1>2. CASE AbortEmptyUpload \/ NewMultipartUploadFails \/ PutInnerPartFails
           \/ CompleteMultipartUploadFails \/ writeManifestFails
           \/ AbortMultipartUpload
  BY <1>0, <1>2 DEF AbortEmptyUpload, NewMultipartUploadFails, PutInnerPartFails,
     CompleteMultipartUploadFails, writeManifestFails, AbortMultipartUpload
<1>3. CASE \E a \in Actors, k \in Keys : RemoveKey(a, k)
  BY <1>0, <1>3, RemoveKeyQuiet
<1>4. CASE ProcessRestarts
  BY Zenon, <1>4 DEF ProcessRestarts
<1>5. CASE BucketLoses
  BY <1>5 DEF BucketLoses
<1> QED
  BY NextCases, DeletesQuiet, ReadsQuiet, <1>1, <1>2, <1>3, <1>4, <1>5

LEMMA UploadsStep ==
    ASSUME TypeOK, Kept, PartsAccounted, Next, ~ leaky'
    PROVE  \A i \in uploads' : stage' \in {"parts", "abort"} /\ i = Index'
<1>0. /\ ~ leaky
      /\ \A i \in uploads : stage \in {"parts", "abort"} /\ i = Index
  BY LeakyStays DEF PartsAccounted
<1>1. CASE UNCHANGED <<uploads, saveVars>>
  BY <1>0, <1>1 DEF saveVars, Index
<1>2. CASE /\ UNCHANGED <<uploads, list>>
           /\ stage' = stage \/ stage' = "abort" \/ stage \notin {"parts", "abort"}
  BY <1>0, <1>2 DEF Index
<1>3. CASE uploads' = uploads \ {Index}
  BY <1>0, <1>3
<1>4. CASE SaveFile \/ uploadSingleObject \/ writeManifest
  BY <1>2, <1>4 DEF SaveFile, uploadSingleObject, writeManifest, bucketVars
<1>5. CASE PutInnerPart \/ SourceEnds \/ PutEmptyPart
  BY <1>2, <1>5 DEF PutInnerPart, SourceEnds, PutEmptyPart, bucketVars
<1>6. CASE NewMultipartUpload
  <2>1. stage = "open" /\ stage' = "parts" /\ list' = list
        /\ uploads' = uploads \cup {Index}
    BY <1>6 DEF NewMultipartUpload
  <2> QED
    BY <1>0, <2>1 DEF Index
<1>7. CASE CompleteMultipartUpload
  BY <1>3, <1>7 DEF CompleteMultipartUpload
<1>8. CASE AbortEmptyUpload
  BY <1>3, <1>8 DEF AbortEmptyUpload
<1>9. CASE NewMultipartUploadFails \/ writeManifestFails
  <2>1. UNCHANGED <<uploads, list>> /\ stage \in {"open", "manifest"}
    BY <1>0, <1>9 DEF NewMultipartUploadFails, writeManifestFails
  <2> QED
    BY <1>2, <2>1
<1>10. CASE PutInnerPartFails \/ CompleteMultipartUploadFails
  <2>1. UNCHANGED <<uploads, list>> /\ stage' = "abort"
    BY <1>0, <1>10 DEF PutInnerPartFails, CompleteMultipartUploadFails, Abandon, bucketVars
  <2> QED
    BY <1>2, <2>1
<1>11. CASE AbortMultipartUpload
  BY <1>3, <1>11 DEF AbortMultipartUpload
<1>12. ASSUME NEW a \in Actors, NEW k \in Keys, RemoveKey(a, k)
       PROVE  \A i \in uploads' : stage' \in {"parts", "abort"} /\ i = Index'
  <2>1. UNCHANGED <<uploads, list>> /\ k \in todo[a]
    BY <1>12, RemoveKeyQuiet
  <2>2. stage \notin {"parts", "abort"}
    BY <2>1 DEF Kept
  <2> QED
    BY <1>2, <2>1, <2>2
<1>13. CASE ProcessRestarts
  <2>1. UNCHANGED <<uploads, list>>
    BY <1>13 DEF ProcessRestarts, bucketVars
  <2>2. stage \notin Working
    BY Zenon, <1>13 DEF ProcessRestarts
  <2> QED
    BY <1>2, <2>1, <2>2 DEF Working
<1>14. CASE BucketLoses
  BY <1>1, <1>14 DEF BucketLoses
<1> QED
  BY NextCases, DeletesQuiet, ReadsQuiet, <1>1, <1>4, <1>5, <1>6, <1>7, <1>8, <1>9,
     <1>10, <1>11, <1>12, <1>13, <1>14

LEMMA KnownStep ==
    ASSUME TypeOK, Layout, Published, Kept, Counted, PartsAccounted, Next,
           Layout', TypeOK', Counted', ~ leaky', NEW i \in Indices, parts'[i] # None
    PROVE  Known(i)'
<1>0. /\ ~ leaky
      /\ i \in Nat \ {0} /\ i \in Keys
      /\ i <= Len(list')
      /\ \A j \in Indices : parts[j] # None => Known(j)
      /\ list \in Seq(Piece)
      /\ todo \in [Actors -> SUBSET Keys]
      /\ parts \in [Indices -> Piece \cup {Damaged, None}]
      /\ "saver" \in Actors
      /\ list # None
  BY SMTT(30), LeakyStays, UploadAssumption DEF Counted, PartsAccounted, Indices, Keys, TypeOK,
     SaveTypeOK, CallsTypeOK, BucketTypeOK, Actors
<1>1. CASE stage' \in Working \ {"clean"}
  BY <1>0, <1>1 DEF Known
<1>2. CASE list' = <<>>
  BY <1>0, <1>2
<1>3. CASE SaveFile \/ uploadSingleObject
  BY <1>2, <1>3 DEF SaveFile, uploadSingleObject, Layout
<1>4. CASE NewMultipartUpload \/ PutInnerPart \/ SourceEnds \/ PutEmptyPart
           \/ CompleteMultipartUpload \/ AbortEmptyUpload
  BY <1>1, <1>4 DEF NewMultipartUpload, PutInnerPart, SourceEnds, PutEmptyPart, More,
     CompleteMultipartUpload, AbortEmptyUpload, Working
<1>5. CASE writeManifest
  <2>1. manifest' = list /\ list' = list
    BY <1>5 DEF writeManifest
  <2> QED
    BY <1>0, <2>1 DEF Known
<1>6. CASE \/ NewMultipartUploadFails \/ PutInnerPartFails
           \/ CompleteMultipartUploadFails \/ writeManifestFails
           \/ AbortMultipartUpload
  <2>1. PICK upload \in BOOLEAN : Abandon(upload)
    BY <1>6, FailuresQuiet
  <2>2. list' = list
    BY <1>6, FailuresQuiet
  <2>3. CASE stage' = "abort"
    BY <1>1, <2>3 DEF Working
  <2>4. CASE stage' = "failed"
    BY <1>2, <2>1, <2>2, <2>4, AbandonStage
  <2>5. CASE stage' = "clean"
    <3>1. todo' = [todo EXCEPT !["saver"] = 1 .. Len(list)]
      BY <2>1, <2>5, AbandonStage
    <3>2. i \in todo'["saver"]
      BY <1>0, <2>2, <3>1
    <3> QED
      BY <1>0, <3>2 DEF Known
  <2> QED
    BY <2>1, <2>3, <2>4, <2>5, AbandonStage
<1>7. ASSUME NEW a \in Actors, NEW k \in Keys, RemoveKey(a, k)
      PROVE  Known(i)'
  <2>1. /\ manifest' = IF k = 0 THEN None ELSE manifest
        /\ parts'[i] = IF i = k THEN None ELSE parts[i]
        /\ \A j \in Keys, b \in Actors :
              j \in todo'[b] <=> j \in todo[b] /\ ~ (b = a /\ j = k)
    BY <1>7, RemovalClean
  <2>2. k \in todo[a] /\ list' = list
    BY <1>7, RemoveKeyQuiet
  <2>3. i # k /\ parts[i] # None
    BY <2>1
  <2>4. stage \notin Working \ {"clean"}
    BY <2>2 DEF Kept, Working
  <2>5. CASE \E b \in Actors : i \in todo[b]
    <3>1. PICK b \in Actors : i \in todo[b]
      BY <2>5
    <3>2. i \in todo'[b]
      BY <1>0, <2>1, <2>3, <3>1
    <3> QED
      BY <3>2 DEF Known
  <2>6. CASE manifest # None /\ i <= Len(manifest)
    <3>1. CASE k = 0
      <4>1. i \in 1 .. Len(list)
        BY <1>0, <2>2
      <4>2. i \in todo[a]
        BY <1>0, <2>2, <2>3, <3>1, <4>1 DEF Counted
      <4> QED
        BY <2>5, <4>2
    <3>2. CASE k # 0
      BY <2>1, <2>6, <3>2 DEF Known
    <3> QED
      BY <3>1, <3>2
  <2>7. Known(i)
    BY <1>0, <2>3
  <2> QED
    BY <2>4, <2>5, <2>6, <2>7 DEF Known
<1>8. CASE parts' = parts /\ manifest' = manifest /\ todo' = todo /\ stage' = stage /\ list' = list
  BY <1>0, <1>8 DEF Known
<1>9. ASSUME NEW d \in Deleters,
             DeleteFile(d) \/ StatManifest(d) \/ GetManifest(d) \/ RemoveObject(d)
      PROVE  Known(i)'
  <2>1. UNCHANGED <<parts, manifest, stage, list>>
    BY <1>9, DeletesQuiet DEF saveVars
  <2>2. todo' = todo \/ manifest # None
    BY Zenon, <1>9 DEF DeleteFile, StatManifest, GetManifest, RemoveObject
  <2>3. CASE todo' = todo
    BY <1>8, <2>1, <2>3
  <2>4. CASE manifest # None
    <3>1. manifest' = list' /\ manifest' # None
      BY <2>1, <2>4 DEF Published
    <3> QED
      BY <1>0, <3>1 DEF Known
  <2> QED
    BY <2>2, <2>3, <2>4
<1>10. ASSUME NEW r \in Readers,
             \/ GetFile(r) \/ readManifest(r) \/ GetObject(r) \/ ReadObject(r)
             \/ ReadPart(r) \/ ReadPartFails(r) \/ ReadEnds(r)
       PROVE  Known(i)'
  BY <1>8, <1>10, ReadsQuiet DEF saveVars
<1>11. CASE ProcessRestarts
  <2>1. UNCHANGED <<parts, manifest, list>>
    BY <1>11 DEF ProcessRestarts, bucketVars
  <2>2. stage \notin Working /\ \A a \in Actors : todo[a] = {}
    BY Zenon, <1>11 DEF ProcessRestarts
  <2>3. Known(i)
    BY <1>0, <2>1
  <2>4. manifest # None /\ i <= Len(manifest)
    BY <2>2, <2>3 DEF Known
  <2> QED
    BY <2>1, <2>4 DEF Known
<1>12. CASE BucketLoses
  <2>1. UNCHANGED <<manifest, todo, stage, list>>
    BY <1>12 DEF BucketLoses, saveVars
  <2>2. parts[i] # None
    BY <1>0, <1>12 DEF BucketLoses
  <2> QED
    BY <1>0, <2>1, <2>2 DEF Known
<1> QED
  BY NextCases, <1>3, <1>4, <1>5, <1>6, <1>7, <1>9, <1>10, <1>11, <1>12

LEMMA AccountedStep ==
    ASSUME TypeOK, Layout, Published, ReadsSound, Kept, Counted, PartsAccounted, Next
    PROVE  PartsAccounted'
<1>1. TypeOK' /\ Layout' /\ Counted'
  BY TypeStep, LayoutStep, CountedStep
<1>2. ~ leaky' => \A i \in Indices : parts'[i] # None => Known(i)'
  BY <1>1, KnownStep
<1>3. ~ leaky' => \A i \in uploads' : stage' \in {"parts", "abort"} /\ i = Index'
  BY UploadsStep
<1> QED
  BY Zenon, <1>2, <1>3 DEF PartsAccounted

(* The stream does not change, nor, once the save is over or cleans up, what *)
(* it uploaded; a part that is not as it was uploaded stays so.             *)
LEMMA LengthStays ==
    ASSUME Next
    PROVE  length' = length
BY NextCases, RemoveKeyQuiet, DeletesQuiet, ReadsQuiet
   DEF SaveFile, uploadSingleObject, NewMultipartUpload, NewMultipartUploadFails,
       PutInnerPart, SourceEnds, PutEmptyPart, PutInnerPartFails, CompleteMultipartUpload,
       CompleteMultipartUploadFails, AbortEmptyUpload, writeManifest,
       writeManifestFails, AbortMultipartUpload, ProcessRestarts, BucketLoses

LEMMA PartsDecay ==
    ASSUME TypeOK, Next, stage \in {"clean"} \cup Over
    PROVE  /\ list' = list
           /\ stage' \in {"clean"} \cup Over
           /\ \A i \in 1 .. Len(list) : parts[i] # list[i] => parts'[i] # list[i]
<1>0. /\ parts \in [Indices -> Piece \cup {Damaged, None}]
      /\ 1 .. Len(list) \subseteq Indices
      /\ \A i \in 1 .. Len(list) : list[i] \notin {None, Damaged}
  <2>1. \A i \in 1 .. Len(list) : list[i] \in Piece
    BY DEF TypeOK, SaveTypeOK
  <2> QED
    BY <2>1, IndexTyped, UploadAssumption DEF TypeOK, BucketTypeOK
<1>1. CASE UNCHANGED <<parts, saveVars>>
  BY <1>1 DEF saveVars
<1>2. CASE SaveFile \/ uploadSingleObject \/ NewMultipartUpload \/ PutInnerPart
           \/ SourceEnds \/ PutEmptyPart \/ CompleteMultipartUpload \/ AbortEmptyUpload \/ writeManifest
  BY <1>2 DEF SaveFile, uploadSingleObject, NewMultipartUpload, PutInnerPart,
     SourceEnds, PutEmptyPart, More, CompleteMultipartUpload, AbortEmptyUpload, writeManifest, Over
<1>3. CASE \/ NewMultipartUploadFails \/ PutInnerPartFails
           \/ CompleteMultipartUploadFails \/ writeManifestFails
           \/ AbortMultipartUpload
  BY <1>3, FailuresQuiet DEF Over
<1>4. ASSUME NEW a \in Actors, NEW k \in Keys, RemoveKey(a, k)
      PROVE  /\ list' = list
             /\ stage' \in {"clean"} \cup Over
             /\ \A i \in 1 .. Len(list) : parts[i] # list[i] => parts'[i] # list[i]
  <2>1. /\ list' = list
        /\ stage' = stage \/ stage' = "failed"
        /\ parts' = parts \/ Without(k)
    BY <1>4, RemoveKeyQuiet
  <2>2. \A i \in Indices : parts'[i] \in {parts[i], None}
    BY <2>1 DEF Without
  <2> QED
    BY <1>0, <2>1, <2>2 DEF Over
<1>5. CASE ProcessRestarts
  BY <1>5 DEF ProcessRestarts, bucketVars, Over
<1>6. CASE BucketLoses
  <2>1. UNCHANGED saveVars
    BY <1>6 DEF BucketLoses
  <2>2. \A i \in Indices : parts'[i] \in {parts[i], None, Damaged}
    BY <1>0, <1>6 DEF BucketLoses
  <2> QED
    BY <1>0, <2>1, <2>2 DEF saveVars
<1> QED
  BY NextCases, DeletesQuiet, ReadsQuiet, <1>1, <1>2, <1>3, <1>4, <1>5, <1>6

(* A reader's own steps.                                                    *)
LEMMA ReadSoundStep ==
    ASSUME TypeOK, Layout, Published, NEW r \in Readers, ReadSound(r),
           \/ readManifest(r) \/ GetObject(r) \/ ReadObject(r)
           \/ ReadPart(r) \/ ReadEnds(r)
    PROVE  ReadSound(r)'
<1>0. /\ rd \in [Readers -> Read]
      /\ list \in Seq(Piece) /\ Len(list) \in Nat
      /\ rd[r].got \in Seq(Piece \cup {Damaged})
      /\ rd[r].list \in Seq(Piece)
  BY DEF TypeOK, CallsTypeOK, SaveTypeOK, Read, ReadStages
<1>1. UNCHANGED <<length, plain, parts, manifest, saveVars>>
  BY ReadsQuiet
<1>2. CASE rd'[r].at = "failed"
  BY <1>2 DEF ReadSound
<1>3. CASE readManifest(r)
  <2>1. CASE ReadFails(r, "get")
    BY <1>0, <1>2, <2>1, FailedRead DEF ReadFails
  <2>2. CASE manifest # None /\ Opening(r, "get", "parts", manifest)
    <3>1. /\ manifest = list /\ list # <<>> /\ From(list) = length
          /\ stage \in {"clean"} \cup Over
      BY <2>2 DEF Published
    <3>2. rd'[r] = [at |-> "parts", list |-> list, got |-> <<>>, sound |-> Stored]
      BY <1>0, <2>2, <3>1 DEF Opening
    <3>3. Stored \/ \E i \in 1 .. Len(list) : parts[i] # list[i]
      BY Zenon, <2>2, <3>1 DEF Stored
    <3>4. /\ rd'[r].at = "parts" /\ rd'[r].list = list /\ rd'[r].got = <<>>
          /\ rd'[r].sound = Stored
      BY <3>2
    <3>5. rd'[r].sound \/ \E i \in 1 .. Len(list) : parts[i] # list[i]
      BY Zenon, <3>3, <3>4
    <3>6. rd'[r].sound \/ \E i \in 1 .. Len(list) : i > Len(rd'[r].got) /\ parts[i] # list[i]
      BY <3>4, <3>5
    <3> QED
      BY <1>0, <1>1, <3>1, <3>4, <3>6 DEF ReadSound, saveVars
  <2> QED
    BY <1>3, <2>1, <2>2 DEF readManifest
<1>4. CASE GetObject(r)
  <2>1. CASE ReadFails(r, "plain")
    BY <1>0, <1>2, <2>1, FailedRead DEF ReadFails
  <2>2. CASE plain # None /\ Opening(r, "plain", "body", <<plain>>)
    <3>1. plain = [from |-> 0, to |-> length] /\ manifest = None
      BY <2>2 DEF Published
    <3>2. rd'[r] = [at |-> "body", list |-> <<plain>>, got |-> <<>>, sound |-> Stored]
      BY <1>0, <2>2 DEF Opening
    <3>3. Stored
      BY <2>2, <3>1 DEF Stored
    <3>4. rd'[r].at = "body" /\ rd'[r].list = <<plain>> /\ rd'[r].sound = Stored
      BY <3>2
    <3>5. rd'[r].sound
      BY Zenon, <3>3, <3>4
    <3> QED
      BY <1>1, <3>1, <3>4, <3>5 DEF ReadSound
  <2> QED
    BY <1>4, <2>1, <2>2 DEF GetObject
<1>5. CASE ReadObject(r)
  <2>1. CASE ReadFails(r, "body")
    BY <1>0, <1>2, <2>1, FailedRead DEF ReadFails
  <2>2. CASE /\ rd[r].at = "body"
             /\ rd' = [rd EXCEPT ![r].at = "ok", ![r].got = rd[r].list]
    <3>1. rd[r].list = <<[from |-> 0, to |-> length]>>
      BY <2>2 DEF ReadSound
    <3>2. rd'[r].at = "ok" /\ rd'[r].got = rd[r].list
      BY <1>0, <2>2 DEF Read
    <3>3. Covers(rd[r].list, length)
      BY <3>1 DEF Covers
    <3> QED
      BY <1>1, <3>2, <3>3 DEF ReadSound, Covers
  <2> QED
    BY <1>5, <2>1, <2>2 DEF ReadObject
<1>6. CASE ReadPart(r)
  <2> DEFINE next == Len(rd[r].got) + 1
             longer == Append(rd[r].got, parts[next])
  <2>1. /\ rd[r].at = "parts" /\ next <= Len(rd[r].list)
        /\ rd' = IF Verified(parts[next], rd[r].list[next])
                 THEN [rd EXCEPT ![r].got = Append(@, parts[next])]
                 ELSE [rd EXCEPT ![r] = Failed]
    BY <1>6 DEF ReadPart
  <2>2. /\ rd[r].list = list /\ list # <<>> /\ From(list) = length
        /\ stage \in {"clean"} \cup Over
        /\ \A i \in 1 .. Len(rd[r].got) : rd[r].got[i] = list[i]
        /\ rd[r].sound \/ \E i \in 1 .. Len(list) :
                              i > Len(rd[r].got) /\ parts[i] # list[i]
    BY <2>1 DEF ReadSound
  <2>3. CASE parts[next] # list[next]
    BY <1>0, <1>2, <2>1, <2>2, <2>3, FailedRead DEF Verified
  <2>4. CASE parts[next] = list[next]
    <3>1. /\ rd'[r].at = "parts" /\ rd'[r].list = rd[r].list
          /\ rd'[r].sound = rd[r].sound /\ rd'[r].got = longer
      BY <1>0, <2>1, <2>2, <2>4 DEF Verified, Read
    <3>2. next \in 1 .. Len(list) /\ next \in Indices
      BY <1>0, <2>1, <2>2, IndexTyped DEF TypeOK
    <3>3. parts[next] \in Piece \cup {Damaged}
      BY <1>0, <2>4, <3>2
    <3>4. /\ Len(longer) = next
          /\ \A i \in 1 .. next : longer[i] = list[i]
      <4>1. Len(longer) = next /\ longer[next] = parts[next]
        BY <1>0, <3>3
      <4>2. \A i \in 1 .. Len(rd[r].got) : longer[i] = rd[r].got[i]
        BY <1>0, <3>3
      <4> HIDE DEF longer
      <4> QED
        BY <1>0, <2>2, <2>4, <4>1, <4>2
    <3> HIDE DEF longer
    <3>5. rd[r].sound \/ \E i \in 1 .. Len(list) : i > next /\ parts[i] # list[i]
      BY <1>0, <2>2, <2>4
    <3>6. /\ rd'[r].at = "parts" /\ rd'[r].list = list'
          /\ Len(rd'[r].got) <= Len(list')
          /\ \A i \in 1 .. Len(rd'[r].got) : rd'[r].got[i] = list'[i]
      BY <1>1, <2>2, <3>1, <3>2, <3>4 DEF saveVars
    <3>7. rd'[r].sound \/ \E i \in 1 .. Len(list') :
                              i > Len(rd'[r].got) /\ parts'[i] # list'[i]
      BY <1>1, <3>1, <3>4, <3>5 DEF saveVars
    <3>8. list' # <<>> /\ From(list') = length' /\ stage' \in {"clean"} \cup Over
      BY <1>1, <2>2 DEF saveVars
    <3> QED
      BY <3>6, <3>7, <3>8 DEF ReadSound
  <2> QED
    BY <2>3, <2>4
<1>7. CASE ReadEnds(r)
  <2>1. /\ rd[r].at = "parts" /\ Len(rd[r].got) = Len(rd[r].list)
        /\ rd' = [rd EXCEPT ![r].at = "ok"]
    BY <1>7 DEF ReadEnds, Reading
  <2>2. rd'[r].at = "ok" /\ rd'[r].got = rd[r].got
    BY <1>0, <2>1 DEF Read
  <2>3. /\ rd[r].list = list /\ list # <<>> /\ From(list) = length
        /\ \A i \in 1 .. Len(rd[r].got) : rd[r].got[i] = list[i]
    BY <2>1 DEF ReadSound
  <2>4. Covers(list, length)
    BY <2>3 DEF Layout
  <2>5. Covers(rd[r].got, length)
    <3>1. Len(rd[r].got) = Len(list) /\ Len(list) # 0
      BY <1>0, <2>1, <2>3
    <3>2. \A i \in 1 .. Len(list) : rd[r].got[i] = list[i]
      BY <2>3, <3>1
    <3>3. rd[r].got # <<>> /\ 1 \in 1 .. Len(list) /\ Len(list) \in 1 .. Len(list)
      BY <1>0, <3>1
    <3>4. \A i \in 1 .. Len(list) - 1 : i \in 1 .. Len(list) /\ i + 1 \in 1 .. Len(list)
      BY <1>0
    <3> QED
      BY <2>4, <3>1, <3>2, <3>3, <3>4 DEF Covers
  <2> QED
    BY <1>1, <2>2, <2>5 DEF ReadSound, Covers
<1> QED
  BY <1>3, <1>4, <1>5, <1>6, <1>7

LEMMA ReadsSoundStep ==
    ASSUME TypeOK, Layout, Published, ReadsSound, Next
    PROVE  ReadsSound'
<1> SUFFICES ASSUME NEW r \in Readers
             PROVE  ReadSound(r)'
  BY DEF ReadsSound
<1>0. ReadSound(r) /\ rd \in [Readers -> Read]
  BY DEF ReadsSound, TypeOK, CallsTypeOK, Read, ReadStages
<1>1. CASE rd'[r] = rd[r]
  <2>1. length' = length
    BY LengthStays
  <2>2. CASE rd[r].at = "parts"
    <3>1. stage \in {"clean"} \cup Over
      BY <1>0, <2>2 DEF ReadSound
    <3>2. /\ list' = list
          /\ stage' \in {"clean"} \cup Over
          /\ \A i \in 1 .. Len(list) : parts[i] # list[i] => parts'[i] # list[i]
      BY <3>1, PartsDecay
    <3> QED
      BY <1>0, <1>1, <2>1, <2>2, <3>2 DEF ReadSound
  <2>3. CASE rd[r].at # "parts"
    BY <1>0, <1>1, <2>1, <2>3 DEF ReadSound, Covers
  <2> QED
    BY <2>2, <2>3
<1>2. CASE rd'[r].at \in {"idle", "get", "plain", "failed"}
  BY <1>2 DEF ReadSound
<1>3. CASE UNCHANGED rd
  BY <1>1, <1>3
<1>4. CASE ProcessRestarts
  <2>1. rd'[r] = rd[r] \/ rd'[r] = Failed
    BY <1>4 DEF ProcessRestarts
  <2> QED
    BY <1>1, <1>2, <2>1, FailedRead
<1>5. ASSUME NEW s \in Readers,
             \/ GetFile(s) \/ readManifest(s) \/ GetObject(s) \/ ReadObject(s)
             \/ ReadPart(s) \/ ReadPartFails(s) \/ ReadEnds(s)
      PROVE  ReadSound(r)'
  <2>1. CASE r # s
    <3>1. rd'[r] = rd[r]
      BY <1>0, <1>5, <2>1 DEF GetFile, readManifest, GetObject, ReadObject, ReadPart,
         ReadPartFails, ReadEnds, Reading, ReadFails, Opening
    <3> QED
      BY <1>1, <3>1
  <2>2. CASE r = s /\ (GetFile(r) \/ ReadPartFails(r))
    <3>1. rd'[r].at \in {"get", "plain", "failed"}
      BY <1>0, <2>2, FailedRead DEF GetFile, ReadPartFails, Reading, ReadFails, Read
    <3> QED
      BY <1>2, <3>1
  <2>3. CASE /\ r = s
             /\ \/ readManifest(r) \/ GetObject(r) \/ ReadObject(r)
                \/ ReadPart(r) \/ ReadEnds(r)
    BY <1>0, <2>3, ReadSoundStep
  <2> QED
    BY <1>5, <2>1, <2>2, <2>3
<1>6. CASE SaveFile \/ uploadSingleObject \/ NewMultipartUpload \/ PutInnerPart
           \/ SourceEnds \/ PutEmptyPart \/ CompleteMultipartUpload \/ AbortEmptyUpload
           \/ writeManifest \/ BucketLoses
  BY <1>3, <1>6 DEF SaveFile, uploadSingleObject, NewMultipartUpload, PutInnerPart,
     SourceEnds, PutEmptyPart, CompleteMultipartUpload, AbortEmptyUpload, writeManifest, BucketLoses
<1>7. CASE \/ NewMultipartUploadFails \/ PutInnerPartFails
           \/ CompleteMultipartUploadFails \/ writeManifestFails
           \/ AbortMultipartUpload
  BY <1>3, <1>7, FailuresQuiet
<1> QED
  BY NextCases, RemoveKeyQuiet, DeletesQuiet, <1>3, <1>4, <1>5, <1>6, <1>7

-----------------------------------------------------------------------------
(* The invariant holds of every behaviour.                                  *)
LEMMA Initially ==
    ASSUME Init
    PROVE  IInv
<1>1. TypeOK
  <2>1. SaveTypeOK
    <3>1. /\ length \in 0 .. MaxLength /\ stage = "idle" /\ read = 0 /\ count = 0
          /\ drained = FALSE /\ list = <<>>
      BY DEF Init
    <3>2. list \in Seq(Piece) /\ Len(list) = 0 /\ From(list) = 0
      BY <3>1 DEF From
    <3>3. /\ read \in 0 .. length /\ count \in 0 .. MaxParts
          /\ From(list) <= read /\ Len(list) <= From(list) + 1 /\ Len(list) <= From(list)
      BY <3>1, <3>2, UploadAssumption
    <3>4. drained \in BOOLEAN
      BY Zenon, <3>1
    <3> QED
      BY Zenon, <3>1, <3>2, <3>3, <3>4 DEF SaveTypeOK
  <2>2. BucketTypeOK
    BY DEF Init, BucketTypeOK
  <2>3. CallsTypeOK
    <3>1. todo \in [Actors -> SUBSET Keys]
      BY DEF Init
    <3>2. del \in [Deleters -> [at : DelStages, late : BOOLEAN]]
      BY DEF Init, DelStages
    <3>3. Closed \in Read
      BY DEF Closed, Read, ReadStages
    <3>4. rd \in [Readers -> Read]
      BY <3>3 DEF Init
    <3>5. leaky \in BOOLEAN /\ hurt \in BOOLEAN
      BY DEF Init
    <3> QED
      BY <3>1, <3>2, <3>4, <3>5 DEF CallsTypeOK, DelStages, Read, ReadStages
  <2> QED
    BY <2>1, <2>2, <2>3 DEF TypeOK
<1>2. Layout
  BY DEF Init, Layout, Working
<1>3. Published /\ Kept
  <2>1. /\ stage = "idle" /\ list = <<>> /\ plain = None /\ manifest = None
        /\ todo = [a \in Actors |-> {}]
    BY DEF Init
  <2>2. Published
    BY <2>1 DEF Published
  <2>3. todo["saver"] = {} /\ \A a \in Actors : todo[a] = {}
    BY <2>1 DEF Actors
  <2>4. \A i \in 1 .. Len(list) : parts[i] = list[i]
    BY <2>1
  <2>5. stage = "idle"
    BY <2>1
  <2>6. Kept
    BY <2>3, <2>4, <2>5 DEF Kept
  <2> QED
    BY <2>2, <2>6
<1>4. ReadsSound
  BY DEF Init, ReadsSound, ReadSound, Closed
<1>5. Counted /\ PartsAccounted
  BY DEF Init, Counted, PartsAccounted
<1> QED
  BY <1>1, <1>2, <1>3, <1>4, <1>5 DEF IInv

LEMMA Invariance == Spec => []IInv
<1>1. Init => IInv
  BY Initially
<1>2. IInv /\ [Next]_vars => IInv'
  <2> SUFFICES ASSUME IInv, [Next]_vars
               PROVE  IInv'
    OBVIOUS
  <2>1. CASE Next
    BY <2>1, TypeStep, LayoutStep, PublishedStep, ReadsSoundStep, KeptStep, CountedStep,
       AccountedStep DEF IInv
  <2>2. CASE UNCHANGED vars
    <3>1. TypeOK'
      BY <2>2 DEF vars, bucketVars, saveVars, IInv, TypeOK, SaveTypeOK, BucketTypeOK,
         CallsTypeOK
    <3>2. (Layout /\ Published /\ ReadsSound)'
      BY <2>2 DEF vars, bucketVars, saveVars, IInv, Layout, Published, ReadsSound,
         ReadSound, Covers
    <3>3. (Kept /\ Counted /\ PartsAccounted)'
      BY <2>2 DEF vars, bucketVars, saveVars, IInv, Kept, Counted, PartsAccounted,
         Known, Index
    <3> QED
      BY <3>1, <3>2, <3>3 DEF IInv
  <2> QED
    BY <2>1, <2>2
<1> QED
  BY <1>1, <1>2, PTL DEF Spec

-----------------------------------------------------------------------------
(* The theorems                                                             *)

(* The variables keep their types, for every size of part and stream.       *)
(* (model.go:78-133, 377-507)                                               *)
THEOREM TypeCorrect == Spec => []TypeOK
<1>1. IInv => TypeOK
  BY DEF IInv
<1> QED
  BY <1>1, Invariance, PTL

(* Who read an archive to its end was handed the whole stream, in order,    *)
(* whatever was deleted, lost or damaged meanwhile. (model.go:658-673,      *)
(* 777-867)                                                                 *)
THEOREM ReadsAreWhole == Spec => []ReadsWhole
<1>1. IInv => ReadsWhole
  BY DEF IInv, ReadsSound, ReadSound, ReadsWhole
<1> QED
  BY <1>1, Invariance, PTL

(* What a successful save stored can be read until something of it is       *)
(* removed, wherever the stream ended. (model.go:410-507)                   *)
THEOREM SavesAreReadable == Spec => []SavedReadable
<1>1. IInv => SavedReadable
  <2> SUFFICES ASSUME IInv, stage = "ok", ~ hurt
               PROVE  /\ Stored
                      /\ Covers(IF manifest = None THEN <<plain>> ELSE manifest, length)
    BY DEF SavedReadable
  <2>1. CASE manifest = None
    <3>1. plain # None /\ plain = [from |-> 0, to |-> length]
      BY <2>1 DEF IInv, Kept, Published
    <3>2. Stored
      BY <2>1, <3>1 DEF Stored
    <3>3. Covers(<<plain>>, length)
      BY <3>1 DEF Covers
    <3> QED
      BY <2>1, <3>2, <3>3
  <2>2. CASE manifest # None
    <3>1. manifest = list /\ list # <<>> /\ From(list) = length
      BY <2>2 DEF IInv, Published
    <3>2. Covers(list, length)
      BY <3>1 DEF IInv, Layout
    <3>3. Stored
      BY <2>2, <3>1 DEF IInv, Kept, Stored
    <3> QED
      BY <2>2, <3>1, <3>2, <3>3
  <2> QED
    BY <2>1, <2>2
<1> QED
  BY <1>1, Invariance, PTL

(* Unless a call that cleans up failed or was cut short, every part object  *)
(* and every multipart can be found by somebody who will remove it.         *)
(* (model.go:392-408, 206)                                                  *)
THEOREM PartsAreAccounted == Spec => []PartsAccounted
<1>1. IInv => PartsAccounted
  BY DEF IInv
<1> QED
  BY <1>1, Invariance, PTL

-----------------------------------------------------------------------------
(* The refinement                                                           *)

(* Only a save that puts the plain object or the manifest makes an archive  *)
(* readable.                                                                *)
LEMMA FileShrinks ==
    ASSUME IInv, Next, plain' \in {plain, None}, manifest' \in {manifest, None}
    PROVE  File' \in {File, "absent"}
<1>1. Stored' => Stored
  <2>1. CASE manifest' = None
    BY <2>1 DEF Stored, IInv, Published
  <2>2. CASE manifest' # None
    <3>1. manifest' = manifest /\ manifest = list /\ stage \in {"clean"} \cup Over
      BY <2>2 DEF IInv, Published
    <3>2. \A i \in 1 .. Len(list) : parts[i] # list[i] => parts'[i] # list[i]
      BY <3>1, PartsDecay DEF IInv
    <3> QED
      BY <2>2, <3>1, <3>2 DEF Stored
  <2> QED
    BY <2>1, <2>2
<1> QED
  BY <1>1 DEF File

(* The steps of the store in which nobody reads.                            *)
LEMMA StoreSteps ==
    ASSUME UNCHANGED rd, File' \in {"absent", "whole"},
           \/ File' \in {File, "absent"} /\ Saver' = Saver
           \/ Saver = "idle" /\ Saver' \in {"busy", "failed"} /\ File' = File
           \/ Saver = "busy" /\ Saver' \in {"busy", "failed"}
           \/ Saver = "busy" /\ Saver' = "ok" /\ File' = "whole"
    PROVE  Store!Next \/ UNCHANGED Store!vars
<1>1. [r \in Readers |-> Seen(r)]' = [r \in Readers |-> Seen(r)]
  BY DEF Seen
<1> QED
  BY <1>1 DEF Store!Next, Store!vars, Store!Remove, Store!BeginSave, Store!FailSave,
     Store!FinishSave

LEMMA SavingMaps ==
    ASSUME IInv, Next,
           \/ SaveFile \/ uploadSingleObject
           \/ NewMultipartUpload \/ NewMultipartUploadFails
           \/ PutInnerPart \/ SourceEnds \/ PutEmptyPart \/ PutInnerPartFails
           \/ CompleteMultipartUpload \/ CompleteMultipartUploadFails
           \/ AbortEmptyUpload
           \/ writeManifest \/ writeManifestFails
           \/ AbortMultipartUpload
    PROVE  Store!Next \/ UNCHANGED Store!vars
<1>0. File' \in {"absent", "whole"}
  BY DEF File
<1>1. CASE SaveFile
  <2>1. Saver = "idle" /\ Saver' \in {"busy", "failed"} /\ UNCHANGED <<bucketVars, rd>>
    BY <1>1 DEF SaveFile, Saver, Working
  <2>2. File' = File
    BY <2>1 DEF bucketVars, File, Stored
  <2> QED
    BY <1>0, <2>1, <2>2, StoreSteps
<1>2. CASE uploadSingleObject
  <2>1. Saver = "busy" /\ UNCHANGED rd
    BY <1>2 DEF uploadSingleObject, Saver, Working
  <2>2. CASE stage' = "failed"
    <3>1. Saver' = "failed"
      BY <2>2 DEF Saver, Working
    <3> QED
      BY <1>0, <2>1, <3>1, StoreSteps
  <2>3. CASE stage' = "ok"
    <3>1. plain' = [from |-> 0, to |-> length] /\ stage = "single" /\ manifest' = manifest
      BY <1>2, <2>3 DEF uploadSingleObject
    <3>2. manifest = None
      BY <3>1 DEF IInv, Published, Over
    <3>3. plain' # None
      BY <3>1, IndexTyped, UploadAssumption DEF IInv, TypeOK
    <3>4. File' = "whole"
      BY <3>1, <3>2, <3>3 DEF File, Stored
    <3>5. Saver' = "ok"
      BY <2>3 DEF Saver, Working
    <3> QED
      BY <1>0, <2>1, <3>4, <3>5, StoreSteps
  <2> QED
    BY <1>2, <2>2, <2>3 DEF uploadSingleObject
<1>3. CASE NewMultipartUpload \/ PutInnerPart \/ SourceEnds \/ PutEmptyPart
           \/ CompleteMultipartUpload \/ AbortEmptyUpload
  <2>1. /\ stage \in Working /\ stage' \in Working
        /\ UNCHANGED <<plain, manifest, rd>>
    BY <1>3 DEF NewMultipartUpload, PutInnerPart, SourceEnds, PutEmptyPart, More,
       CompleteMultipartUpload, AbortEmptyUpload, Working, bucketVars
  <2>2. Saver' = Saver
    BY <2>1 DEF Saver
  <2>3. File' \in {File, "absent"}
    BY <2>1, FileShrinks
  <2> QED
    BY <1>0, <2>1, <2>2, <2>3, StoreSteps
<1>4. CASE writeManifest
  <2>1. /\ stage = "manifest" /\ stage' = "ok" /\ manifest' = list
        /\ UNCHANGED <<parts, list, rd>>
    BY <1>4 DEF writeManifest
  <2>2. list # None /\ \A i \in 1 .. Len(list) : parts[i] = list[i]
    BY <2>1, UploadAssumption DEF IInv, Kept, TypeOK, SaveTypeOK
  <2>3. File' = "whole"
    BY <2>1, <2>2 DEF File, Stored
  <2>4. Saver = "busy" /\ Saver' = "ok"
    BY <2>1 DEF Saver, Working
  <2> QED
    BY <1>0, <2>1, <2>3, <2>4, StoreSteps
<1>5. CASE \/ NewMultipartUploadFails \/ PutInnerPartFails
           \/ CompleteMultipartUploadFails \/ writeManifestFails
           \/ AbortMultipartUpload
  <2>1. UNCHANGED rd /\ stage \in {"open", "parts", "manifest", "abort"}
    BY <1>5, FailuresQuiet
  <2>2. stage' \in {"abort", "clean", "failed"}
    BY <1>5, FailuresQuiet, AbandonStage
  <2>3. Saver = "busy" /\ Saver' \in {"busy", "failed"}
    BY <2>1, <2>2 DEF Saver, Working
  <2> QED
    BY <1>0, <2>1, <2>3, StoreSteps
<1> QED
  BY <1>1, <1>2, <1>3, <1>4, <1>5

LEMMA RemovingMaps ==
    ASSUME IInv, Next,
           \/ \E a \in Actors, k \in Keys : RemoveKey(a, k)
           \/ \E d \in Deleters : \/ DeleteFile(d) \/ StatManifest(d)
                                  \/ GetManifest(d) \/ RemoveObject(d)
           \/ BucketLoses
    PROVE  Store!Next \/ UNCHANGED Store!vars
<1>0. File' \in {"absent", "whole"}
  BY DEF File
<1>1. ASSUME UNCHANGED <<stage, rd>>, plain' \in {plain, None}, manifest' \in {manifest, None}
      PROVE  Store!Next \/ UNCHANGED Store!vars
  <2>1. Saver' = Saver
    BY <1>1 DEF Saver
  <2>2. File' \in {File, "absent"}
    BY <1>1, FileShrinks
  <2> QED
    BY <1>0, <1>1, <2>1, <2>2, StoreSteps
<1>2. ASSUME NEW a \in Actors, NEW k \in Keys, RemoveKey(a, k)
      PROVE  Store!Next \/ UNCHANGED Store!vars
  <2>1. UNCHANGED <<plain, rd>> /\ manifest' \in {manifest, None} /\ k \in todo[a]
    BY <1>2, RemoveKeyQuiet DEF Without
  <2>2. CASE stage' = stage
    BY <1>1, <2>1, <2>2
  <2>3. CASE a = "saver" /\ stage' = "failed"
    <3>1. stage = "clean"
      BY <2>1, <2>3 DEF IInv, Kept
    <3>2. Saver = "busy" /\ Saver' = "failed"
      BY <2>3, <3>1 DEF Saver, Working
    <3> QED
      BY <1>0, <2>1, <3>2, StoreSteps
  <2> QED
    BY <1>2, <2>2, <2>3, RemoveKeyQuiet
<1>3. ASSUME NEW d \in Deleters,
             DeleteFile(d) \/ StatManifest(d) \/ GetManifest(d) \/ RemoveObject(d)
      PROVE  Store!Next \/ UNCHANGED Store!vars
  BY <1>1, <1>3, DeletesQuiet DEF saveVars
<1>4. CASE BucketLoses
  BY <1>1, <1>4 DEF BucketLoses, saveVars
<1> QED
  BY <1>2, <1>3, <1>4

(* A read that ends well was opened when the archive was whole.             *)
LEMMA ReadingMaps ==
    ASSUME IInv, NEW r \in Readers,
           \/ GetFile(r) \/ readManifest(r) \/ GetObject(r) \/ ReadObject(r)
           \/ ReadPart(r) \/ ReadPartFails(r) \/ ReadEnds(r)
    PROVE  Store!Next \/ UNCHANGED Store!vars
<1> DEFINE Now == [s \in Readers |-> Seen(s)]
<1>0. /\ rd \in [Readers -> Read] /\ ReadSound(r)
      /\ rd[r].at \in ReadStages
  BY DEF IInv, TypeOK, CallsTypeOK, Read, ReadStages, ReadsSound
<1>1. Saver' = Saver /\ File' = File
  BY ReadsQuiet DEF Saver, File, Stored, saveVars
<1>2. \A s \in Readers \ {r} : rd'[s] = rd[s]
  BY <1>0 DEF GetFile, readManifest, GetObject, ReadObject, ReadPart, ReadPartFails,
     ReadEnds, Reading, ReadFails, Opening
<1>3. Now' = [Now EXCEPT ![r] = Seen(r)']
  <2>1. \A s \in Readers \ {r} : Seen(s)' = Seen(s)
    BY <1>2 DEF Seen
  <2> QED
    BY <2>1
<1>4. CASE Seen(r)' = Seen(r)
  BY <1>1, <1>3, <1>4 DEF Store!vars
<1>5. CASE Seen(r) \in {"idle", "sound", "doomed"} /\ Seen(r)' = "failed"
  <2>1. Store!EndRead(r)
    BY <1>1, <1>3, <1>5 DEF Store!EndRead
  <2> QED
    BY <2>1 DEF Store!Next
<1>6. CASE Seen(r) = "sound" /\ Seen(r)' = "whole"
  <2>1. Store!EndRead(r)
    BY <1>1, <1>3, <1>6 DEF Store!EndRead
  <2> QED
    BY <2>1 DEF Store!Next
<1>7. CASE Seen(r) = "idle" /\ Seen(r)' = IF Stored THEN "sound" ELSE "doomed"
  <2>1. Store!OpenRead(r)
    BY <1>1, <1>3, <1>7 DEF Store!OpenRead, File
  <2> QED
    BY <2>1 DEF Store!Next
<1>8. ASSUME NEW from \in {"idle", "get", "plain", "body", "parts"},
             rd[r].at = from, rd'[r].at = "failed"
      PROVE  Store!Next \/ UNCHANGED Store!vars
  BY <1>5, <1>8 DEF Seen
<1>9. CASE GetFile(r)
  <2>1. rd[r].at = "idle" /\ rd'[r].at \in {"get", "plain", "failed"}
    BY <1>0, <1>9, FailedRead DEF GetFile, Reading, ReadFails, Read
  <2> QED
    BY <1>4, <1>8, <2>1 DEF Seen
<1>10. CASE readManifest(r) \/ GetObject(r)
  <2>1. /\ rd[r].at \in {"get", "plain"}
        /\ \/ rd'[r].at = "failed"
           \/ rd'[r].at \in {"parts", "body"} /\ rd'[r].sound = Stored
    BY <1>0, <1>10, FailedRead DEF readManifest, GetObject, ReadFails, Opening, Read
  <2>2. CASE rd'[r].at = "failed"
    BY <1>8, <2>1, <2>2
  <2>3. CASE rd'[r].at \in {"parts", "body"} /\ rd'[r].sound = Stored
    BY <1>7, <2>1, <2>3 DEF Seen
  <2> QED
    BY <2>1, <2>2, <2>3
<1>11. CASE ReadObject(r)
  <2>1. rd[r].at = "body" /\ rd'[r].at \in {"ok", "failed"}
    BY <1>0, <1>11, FailedRead DEF ReadObject, ReadFails, Read
  <2>2. rd[r].sound
    BY <1>0, <2>1 DEF ReadSound
  <2> QED
    BY <1>6, <1>8, <2>1, <2>2 DEF Seen
<1>12. CASE ReadPart(r)
  <2>1. /\ rd[r].at = "parts"
        /\ \/ rd'[r].at = "failed"
           \/ rd'[r].at = "parts" /\ rd'[r].sound = rd[r].sound
    BY <1>0, <1>12, FailedRead DEF ReadPart, Read
  <2> QED
    BY <1>4, <1>8, <2>1 DEF Seen
<1>13. CASE ReadPartFails(r)
  <2>1. rd[r].at = "parts" /\ rd'[r].at = "failed"
    BY <1>0, <1>13, FailedRead DEF ReadPartFails, ReadFails
  <2> QED
    BY <1>8, <2>1
<1>14. CASE ReadEnds(r)
  <2>1. /\ rd[r].at = "parts" /\ rd'[r].at = "ok"
        /\ Len(rd[r].got) = Len(rd[r].list)
    BY <1>0, <1>14 DEF ReadEnds, Reading, Read
  <2>2. rd[r].sound
    BY <1>0, <2>1 DEF ReadSound, IInv, TypeOK, SaveTypeOK
  <2> QED
    BY <1>6, <2>1, <2>2 DEF Seen
<1> QED
  BY <1>9, <1>10, <1>11, <1>12, <1>13, <1>14

LEMMA RestartMaps ==
    ASSUME IInv, ProcessRestarts
    PROVE  Store!Next
<1> DEFINE Now == [r \in Readers |-> Seen(r)]
           cut == {r \in Readers : rd[r].at \notin {"idle", "ok", "failed"}}
<1>0. rd \in [Readers -> Read]
  BY DEF IInv, TypeOK, CallsTypeOK, Read, ReadStages
<1>1. File' = File
  BY DEF ProcessRestarts, bucketVars, File, Stored
<1>2. Saver' = IF Saver = "busy" THEN "failed" ELSE Saver
  <2>1. stage \in {"idle"} \cup Working \cup Over
    BY DEF IInv, TypeOK, SaveTypeOK
  <2> QED
    BY <2>1 DEF ProcessRestarts, Saver, Working, Over
<1>3. cut \in SUBSET {r \in Readers : Now[r] \notin {"whole", "failed"}}
  BY <1>0 DEF Seen, Read, ReadStages
<1>4. Now' = [r \in Readers |-> IF r \in cut THEN "failed" ELSE Now[r]]
  BY <1>0, FailedRead DEF ProcessRestarts, Seen, Read, ReadStages
<1>5. Store!Restart
  BY <1>1, <1>2, <1>3, <1>4 DEF Store!Restart
<1> QED
  BY <1>5 DEF Store!Next

(* Chunked or plain, an archive behaves as one object that is there whole   *)
(* or not at all. (model.go:78-224, 658-673)                                *)
THEOREM Implementation == Spec => Implements
<1>1. Init => Store!Init
  <2> SUFFICES ASSUME Init PROVE Store!Init
    OBVIOUS
  <2>1. File = "absent" /\ Saver = "idle"
    BY DEF Init, File, Stored, Saver, Working
  <2>2. \A r \in Readers : Seen(r) = "idle"
    BY DEF Init, Closed, Seen
  <2> QED
    BY <2>1, <2>2 DEF Store!Init
<1>2. IInv /\ [Next]_vars => [Store!Next]_(Store!vars)
  <2> SUFFICES ASSUME IInv, [Next]_vars
               PROVE  Store!Next \/ UNCHANGED Store!vars
    OBVIOUS
  <2>1. CASE Next
    BY <2>1, NextCases, SavingMaps, RemovingMaps, ReadingMaps, RestartMaps
  <2>2. CASE UNCHANGED vars
    BY <2>2 DEF vars, bucketVars, saveVars, Store!vars, File, Stored, Saver, Seen
  <2> QED
    BY <2>1, <2>2
<1> QED
  BY <1>1, <1>2, Invariance, PTL DEF Spec, Implements, Store!Spec
=============================================================================
