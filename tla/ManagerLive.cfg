SPECIFICATION FairSpec
CONSTANTS
    k1 = k1
    k2 = k2
    c1 = c1
    w1 = w1
    Keys = {k1, k2}
    Values = {"Absent", "Confirmed"}
    Chains <- MCChains
    Callers = {}
    Slots = {w1}
    MaxContracts = 2
    ReadTimeout = 1
    MaximumAge = 1
    Drops = FALSE
    MaxEntries = 2
    MaxTime = 1
    Unknown = Unknown
    Nothing = Nothing
    Free = Free
    Unregistered = Unregistered
PROPERTIES
    ChangeIsSeen
CHECK_DEADLOCK FALSE
