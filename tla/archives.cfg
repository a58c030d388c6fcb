CONSTANTS
    None = None
    Backups = {b1}
    Requests = {q1, q2}
    Containers = {c1}
    Storages = {atomic, inplace}
    InPlace = {inplace}
    Modes = {"NONE", "PAUSE", "STOP"}
    Retentions = {1}
    MaxNow = 2
    Upsets = {"db", "docker", "storage", "panic", "exit", "operator"}
SPECIFICATION Spec
SYMMETRY Symmetry
INVARIANTS
    CompletedHasFile
    FailedLeavesNoFile
    NoOrphanFile
    RunningHasRun
    SidecarReaped
    RetentionSafe
PROPERTIES
    Catalogued
CHECK_DEADLOCK FALSE
