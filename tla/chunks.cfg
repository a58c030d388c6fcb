CONSTANTS
    PartSize = 2
    MaxParts = 2
    MaxLength = 5
    Readers = {r1}
    Deleters = {d1, d2}
    Upsets = {"s3", "source", "exit", "bucket"}
    Damaged = Damaged
    None = None
SPECIFICATION FairSpec
INVARIANTS
    ReadsWhole
    SavedReadable
    PartsAccounted
PROPERTIES
    Implements
    SaveEnds
CHECK_DEADLOCK FALSE
