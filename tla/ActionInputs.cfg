SPECIFICATION Spec
CONSTANTS
    MaxWord = 7
    ClaimMarginSeconds = 2
    ClaimMarginBlocks = 1
    FundingGraceSeconds = 3
    FundingGraceBlocks = 2
    NoLeg = NoLeg
    NoObservation = NoObservation
    NoPoint = NoPoint
    ClientRefs <- MCClientRefs
    ServerRefs <- MCServerRefs
    Points <- MCPoints
    Bridges <- MCBridges
    Statuses <- MCStatuses
INVARIANTS
    ServerStatusNeverAuthorizes
    DepositNeverForgotten
    ExpiredDepositRecoverable
    WindowsStayClosed
    
CHECK_DEADLOCK FALSE
