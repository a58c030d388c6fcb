CONSTANTS
    None = None
    Users = {root, u1, u2}
    Root = root
    Emails = {e1, e2}
    AdminEmail = admin
    Identities = {i1}
    Codes = {k1, k2, k3, k4}
    Requests = {q1, q2}
    MaxCodes = 2
    Hour = 2
    Horizon <- MCHorizon
    Loads <- MCLoads
SPECIFICATION Spec
SYMMETRY Symmetry
INVARIANTS
    RootStands
    StaleTokenRejected
    InvitedHoldsNoToken
    OneAccountPerAddress
    OneAccountPerIdentity
    CodeSpentOnce
    CodesBounded
PROPERTIES
    StatusAsDecided
CHECK_DEADLOCK FALSE
