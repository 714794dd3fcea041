SPECIFICATION Spec
CONSTANTS
    k1 = k1
    k2 = k2
    c1 = c1
    w1 = w1
    Keys = {k1, k2}
    Values = {"Absent", "Confirmed"}
    Chains <- MCChains
    Callers = {c1}
    Slots = {w1}
    MaxContracts = 1
    ReadTimeout = 1
    MaximumAge = 1
    Drops = TRUE
    MaxEntries = 2
    MaxTime = 3
    Unknown = Unknown
    Nothing = Nothing
    Free = Free
    Unregistered = Unregistered
INVARIANTS
    EventsFollowState
    ShownIsRecent
PROPERTIES
    ImplementsRegister
CHECK_DEADLOCK FALSE
