CONSTANTS
    None = None
    Backups = {b1, b2}
    Requests = {}
    Containers = {c1}
    Storages = {s1}
    InPlace = {}
    Modes = {"PAUSE", "STOP"}
    Retentions = {1}
    MaxNow = 2
    Upsets = {"storage", "panic"}
SPECIFICATION LiveSpec
INVARIANTS
    BroughtBack
PROPERTIES
    ContainerReturns
    RunsEnd
    RunningResolves
CHECK_DEADLOCK FALSE
