----------------------------- MODULE MCRestores ------------------------------
(* Instances of Restores for TLC.                                           *)
EXTENDS Restores, TLC

CONSTANTS a1, a2, p1, f1

\* Contents of a damaged file: every sequence of the chunks of all archives
\* and of one that nobody wrote, up to one more than an archive has.
MCDamages ==
    [head : Encrypted \cup {None},
     chunks : UNION {[1..n -> {Sealed(a, i) : a \in Encrypted, i \in 1..Length} \cup {Foreign}] :
                       n \in 0..Length + 1}]

\* Faults, storages and requests that meet.
MCLoads ==
    {{a1, "local", "split", "nas", "sftp", "ftp", "azure", "rclone", "rcloneDisk",
      "delete", "fault", "restart"},
     {a1, a2, "rclone", "restore", "fault", "restart"},
     {a1, f1, "azure", "restore", "restart"},
     {a1, a2, "local", "upgrade", "restore", "fault", "restart"},
     {a1, a2, "azure", "damage", "restore", "download"},
     {a1, "nas", "split", "rcloneDisk", "restore", "delete", "fault", "restart"},
     {p1, "sftp", "nas", "local", "azure", "rcloneDisk", "restore", "download", "delete", "fault"}}

Symmetry == Permutations(Keys)
=============================================================================
