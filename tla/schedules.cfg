CONSTANTS
    Hour = 2
    Day = 4
    Horizon = 3
    MonthLength <- MCMonthLength
    Names = {app}
    Ids = {s1, s2}
    Editors = {e1, e2}
    Plans <- MCHourly
    Switches = {TRUE, FALSE}
    Faults = {"db", "exit"}
    None = None
SPECIFICATION Spec
SYMMETRY Symmetry
INVARIANTS
    WindowsFresh
    WordKept
