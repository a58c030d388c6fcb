CONSTANTS
    None = None
    Backups = {b1, b2}
    Requests = {}
    Containers = {c1}
    Storages = {s1}
    InPlace = {}
    Modes = {"STOP"}
    Retentions = {}
    MaxNow = 0
    Upsets = {}
SPECIFICATION Spec
SYMMETRY Symmetry
INVARIANTS
    ConsistentSnapshot
CHECK_DEADLOCK FALSE
