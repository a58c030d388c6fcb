CONSTANTS
    PartSize = 2
    MaxParts = 2
    MaxLength = 5
    Readers = {}
    Deleters = {d1, d2}
    Upsets = {"exit"}
    Damaged = Damaged
    None = None
SPECIFICATION Spec
INVARIANT
    Reclaimed
SYMMETRY Symmetry
CHECK_DEADLOCK FALSE
