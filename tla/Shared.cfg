SPECIFICATION Spec
CONSTANTS
    MaxWord = 7
    ClaimMarginSeconds = 1
    ClaimMarginBlocks = 1
    FundingGraceSeconds = 1
    FundingGraceBlocks = 1
    NoLeg = NoLeg
    NoObservation = NoObservation
    NoPoint = NoPoint
    NoJournal = NoJournal
    NoAttempt = NoAttempt
    NoStatus = NoStatus
    Free = Free
    s1 = s1
    s2 = s2
    Swaps = {s1, s2}
    Slots = {w1}
    Operators = {o1}
    Contracts <- MCContracts
    WatchKeys <- MCWatchKeys
    Options <- MCOptions
    Views <- MCViews
    Hints = {"ServerWontFund", "Pending"}
    MaxSwaps = 2
    MaxAttempts = 1
    MaxObjects = 1
    MaxSent = 1
    Faults = {"crash", "cancel"}
    Provable = {}
    Calls = {"reconcile", "untrack"}
INVARIANTS
    TrackedAreWatched
    CompletionReproducible
    NoCircularWait
PROPERTIES
    RetiresOnlyLasting
CHECK_DEADLOCK FALSE
