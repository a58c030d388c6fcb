CONSTANTS
    None = None
    Backups = {b1}
    Requests = {q1}
    Containers = {c1}
    Storages = {s1}
    InPlace = {}
    Modes = {"NONE"}
    Retentions = {}
    MaxNow = 0
    Upsets = {}
SPECIFICATION Spec
PROPERTIES
    DeletedStaysDeleted
CHECK_DEADLOCK FALSE
