CONSTANTS
    None = None
    Users = {root, u1, u2}
    Present = {root, u1}
    Admins = {root}
    Creators = {u1}
    Inviters = {u1}
    Spaces = {w1, w2}
    Rows = {m1, m2, m3}
    Storages = {s1}
    Notifiers = {n1}
    Types = {special, other}
    Rclone = special
    Teams = special
    Requests = {q1, q2}
    AskedRoles = {"OWNER", "VIEWER"}
    Loads <- MCLoads
SPECIFICATION Spec
SYMMETRY Symmetry
INVARIANTS
    OneMembership
    OwnerStands
    NothingOldLeft
    Removable
    RcloneByAdmin
PROPERTIES
    BackByOverlap
CHECK_DEADLOCK FALSE
