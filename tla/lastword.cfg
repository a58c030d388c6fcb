CONSTANTS
    Hour = 2
    Day = 4
    Horizon = 4
    MonthLength <- MCMonthLength
    Names = {app}
    Ids = {s1, s2}
    Editors = {e1}
    Plans <- MCPlans
    Switches = {TRUE}
    Faults = {}
    None = None
SPECIFICATION Spec
INVARIANT
    LastWordStands
