CONSTANTS
    None = None
    Foreign = Foreign
    a1 = a1
    a2 = a2
    p1 = p1
    f1 = f1
    Archives = {a1, a2, p1}
    Encrypted = {a1, a2}
    Fields = {f1}
    Restorers = {r1}
    Callers = {a1, a2, p1, f1, r1}
    Length = 2
    Keys = {k1, k2, k3}
    OldKey = OldKey
    Torn = Torn
    NoKey = NoKey
    Damages <- MCDamages
    Loads <- MCLoads
SPECIFICATION Spec
SYMMETRY Symmetry
INVARIANTS
    WordKept
    LeftoversAccounted
    MigrationKeepsKey
    KeyLasts
    GotInOrder
    RestoredWhole
PROPERTY
    Publishes
CHECK_DEADLOCK FALSE
