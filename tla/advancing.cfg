CONSTANTS
    Hour = 2
    Day = 4
    Horizon = 8
    MonthLength <- MCMonthLength
    Names = {app}
    Ids = {s1}
    Editors = {e1}
    Plans <- MCEveryPlan
    Switches = {TRUE}
    Faults = {}
    None = None
SPECIFICATION FairSpec
PROPERTY
    DueIsAdvanced
