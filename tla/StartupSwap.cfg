SPECIFICATION FollowSpec
CONSTANTS
    Directions = {"bitcoin_to_lightning"}
    Modes = {"chain"}
    MaxReads = 1
    MaxAttempts = 1
    MaxWire = 1
    FollowFaults = {"rpc", "reload"}
INVARIANT StartupSwapIsKept
CHECK_DEADLOCK FALSE
