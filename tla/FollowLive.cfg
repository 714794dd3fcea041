SPECIFICATION FollowFairSpec
CONSTANTS
    Directions = {"bitcoin_to_lightning", "lightning_to_arkade"}
    Modes = {"chain", "hints"}
    MaxReads = 1
    MaxAttempts = 1
    MaxWire = 1
    FollowFaults = {"rpc"}
PROPERTIES
    
    ClaimIsHandled
CHECK_DEADLOCK FALSE
