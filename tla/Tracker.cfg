SPECIFICATION Spec
CONSTANTS
    MaxWord = 7
    ClaimMarginSeconds = 1
    ClaimMarginBlocks = 1
    FundingGraceSeconds = 1
    FundingGraceBlocks = 1
    NoLeg = NoLeg
    NoObservation = NoObservation
    NoPoint = NoPoint
    NoJournal = NoJournal
    NoAttempt = NoAttempt
    NoStatus = NoStatus
    Free = Free
    s1 = s1
    Swaps = {s1}
    Slots = {w1}
    Operators = {o1}
    Contracts <- LightningToEvm
    WatchKeys <- MCWatchKeys
    Options <- AutoClaim
    Views <- ClaimViews
    Hints = {}
    MaxSwaps = 1
    MaxAttempts = 2
    MaxObjects = 2
    MaxSent = 2
    Faults = {"crash", "cancel", "storage", "view"}
    Provable = {"Running", "Uncertain", "Retryable"}
    Calls = {"hint", "untrack", "prove", "attest", "byHand"}
INVARIANTS
    TypeOK
    AtMostOnce
    SentIsRecorded
    JournalTellsTruth
CHECK_DEADLOCK FALSE
