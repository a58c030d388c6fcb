---------------------------- MODULE ArchiveStore -----------------------------
(****************************************************************************)
(* What a storage promises for one name that is written once: SaveFile,     *)
(* DeleteFile and GetFile of StorageFileSaver (storages/interfaces.go), for *)
(* a storage that publishes an archive when it is complete.  The name holds *)
(* the whole archive or it holds nothing that can be read, and whoever read *)
(* an archive to its end opened it while it was whole.                      *)
(****************************************************************************)
CONSTANT Readers    \* calls of GetFile with the reading that follows

VARIABLES
    file,   \* what the name holds: "absent" or "whole"
    saver,  \* the call of SaveFile
    reads   \* the reads; "sound" was opened on a whole archive, "doomed" was not

vars == <<file, saver, reads>>

TypeOK ==
    /\ file \in {"absent", "whole"}
    /\ saver \in {"idle", "busy", "ok", "failed"}
    /\ reads \in [Readers -> {"idle", "sound", "doomed", "whole", "failed"}]

Init ==
    /\ file = "absent"
    /\ saver = "idle"
    /\ reads = [r \in Readers |-> "idle"]

BeginSave ==
    /\ saver = "idle"
    /\ saver' \in {"busy", "failed"}
    /\ UNCHANGED <<file, reads>>

(* Success is answered with the archive in place.                           *)
FinishSave ==
    /\ saver = "busy"
    /\ saver' = "ok"
    /\ file' = "whole"
    /\ UNCHANGED reads

(* An error may be answered although the archive went through, before or    *)
(* after what went through is cleaned up.                                   *)
FailSave ==
    /\ saver = "busy"
    /\ saver' \in {"busy", "failed"}
    /\ file' \in {"absent", "whole"}
    /\ UNCHANGED reads

(* A deletion, a clean-up, or the bucket's own rules.                       *)
Remove ==
    /\ file' = "absent"
    /\ UNCHANGED <<saver, reads>>

OpenRead(r) ==
    /\ reads[r] = "idle"
    /\ reads' = [reads EXCEPT ![r] = IF file = "whole" THEN "sound" ELSE "doomed"]
    /\ UNCHANGED <<file, saver>>

EndRead(r) ==
    /\ reads' \in {[reads EXCEPT ![r] = "failed"],
                   [reads EXCEPT ![r] = IF @ = "sound" THEN "whole" ELSE "failed"]}
    /\ reads[r] \in {"idle", "sound", "doomed"}
    /\ UNCHANGED <<file, saver>>

(* The process ends: the calls are over, the bucket stays.                  *)
Restart ==
    /\ saver' = IF saver = "busy" THEN "failed" ELSE saver
    /\ \E cut \in SUBSET {r \in Readers : reads[r] \notin {"whole", "failed"}} :
          reads' = [r \in Readers |-> IF r \in cut THEN "failed" ELSE reads[r]]
    /\ UNCHANGED file

Next ==
    \/ BeginSave \/ FinishSave \/ FailSave \/ Remove \/ Restart
    \/ \E r \in Readers : OpenRead(r) \/ EndRead(r)

Spec == Init /\ [][Next]_vars
=============================================================================
