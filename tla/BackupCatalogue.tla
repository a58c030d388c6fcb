--------------------------- MODULE BackupCatalogue ---------------------------
(****************************************************************************)
(* What the service promises for one backup: its entry in the list, the     *)
(* archive it stands for, and the run that makes both (VolumeBackupService: *)
(* CreateBackup, ListBackups, DeleteBackup).  An entry says COMPLETED only  *)
(* for a whole archive, an entry goes only after its archive, and nothing   *)
(* grows once the run is over; marks name the exceptions.                   *)
(****************************************************************************)
CONSTANT None       \* "no entry"

VARIABLES
    entry,    \* what the list shows: a status, or None
    archive,  \* what the storage holds: "absent", "partial" or "whole"
    run,      \* "new", "writing", "written", "failing" or "over"
    marks     \* "asked": its deletion was; "raced": the archive was deleted
              \* under the writing run; "kept": the archive could not be deleted

vars == <<entry, archive, run, marks>>

Init ==
    /\ entry = None
    /\ archive = "absent"
    /\ run = "new"
    /\ marks = {}

Launch ==
    /\ run = "new"
    /\ run' = "writing"
    /\ entry' = "RUNNING"
    /\ UNCHANGED <<archive, marks>>

(* The only step that can make an archive of anything.                      *)
Write ==
    /\ run = "writing"
    /\ run' \in {"writing", "written"}
    /\ archive' \in {"absent", "partial", "whole"}
    /\ UNCHANGED <<entry, marks>>

Succeed ==
    /\ run = "written"
    /\ archive = "whole" \/ "asked" \in marks
    /\ run' = "over"
    /\ entry' = "COMPLETED"
    /\ UNCHANGED <<archive, marks>>

(* The entry may miss its last word; the archive is removed all the same.   *)
Fail ==
    /\ run = "written"
    /\ run' = "failing"
    /\ entry' \in {"FAILED", entry}
    /\ UNCHANGED <<archive, marks>>

Clean ==
    /\ run = "failing"
    /\ run' = "over"
    /\ \/ archive' = "absent" /\ UNCHANGED marks
       \/ marks' = marks \cup {"kept"} /\ UNCHANGED archive
    /\ UNCHANGED entry

(* The run breaks off, whatever it leaves.                                  *)
Abandon ==
    /\ run \in {"writing", "written", "failing"}
    /\ run' = "over"
    /\ UNCHANGED <<entry, archive, marks>>

(* A deletion finds the entry, and may have to pass over the archive.       *)
Ask ==
    /\ entry # None
    /\ \E more \in {{"asked"}, {"asked", "kept"}} : marks' = marks \cup more
    /\ UNCHANGED <<entry, archive, run>>

RemoveArchive ==
    /\ "asked" \in marks
    /\ \/ /\ archive' = "absent"
          /\ marks' = IF run = "writing" THEN marks \cup {"raced"} ELSE marks
       \/ /\ marks' = marks \cup {"kept"}
          /\ UNCHANGED archive
    /\ UNCHANGED <<entry, run>>

(* The entry goes when nothing is left of the archive, now or later.        *)
RemoveEntry ==
    /\ "asked" \in marks
    /\ \/ archive = "absent" /\ run # "writing"
       \/ marks \cap {"raced", "kept"} # {}
    /\ entry' = None
    /\ UNCHANGED <<archive, run, marks>>

Next ==
    \/ Launch \/ Write \/ Succeed \/ Fail \/ Clean \/ Abandon
    \/ Ask \/ RemoveArchive \/ RemoveEntry

Spec == Init /\ [][Next]_vars
=============================================================================
