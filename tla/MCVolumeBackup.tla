--------------------------- MODULE MCVolumeBackup ---------------------------
(***************************************************************************)
(* Instances of VolumeBackup for TLC.  Backups are interchangeable, and so *)
(* are requests: both form symmetry sets in the safety runs.               *)
(***************************************************************************)
EXTENDS VolumeBackup, TLC

Symmetry == Permutations(Backups) \cup Permutations(Requests)
=============================================================================
