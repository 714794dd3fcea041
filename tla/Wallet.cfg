SPECIFICATION WalletSpec
CONSTANTS
    MaxTx = 4
    MaxRecords = 2
    OwnHash = OwnHash
    Invoices = {i1, i2}
    Routes = {"native", "permit2", "relay"}
    FundingFaults = {"crash", "rpc", "storage"}
    MaxBurns = 3
    MaxOps = 2
    Sources = {"evm", "solana"}
    CctpFaults = {"crash", "rpc", "storage"}
    Claimants = {"worker", "user"}
    ClaimKinds <- Claimed
    MaxSent = 2
    ClaimFaults = {"crash", "rpc"}
    Deposits = {d1, d2}
    Sides = {"claim", "refund"}
    ArkadeFaults = {"crash", "rpc"}
    Outputs = {1, 5}
    SpendFee = 2
    Retries = 1
    Backends = {"electrum", "esplora"}
    BtcFaults = {"crash", "rpc"}
    Stores = {"sqlite"}
    Callers = {c1, c2}
    Requests <- Asked
    Prior = {0}
    MaxSwaps = 2
    MaxIndex = 2
    MaxRetries = 1
    SkipCount = 1
    Window = 2
    StoreFaults = {"crash"}
    Directions = {"evm_to_bitcoin"}
    Modes = {"chain", "hints"}
    MaxReads = 2
    MaxAttempts = 1
    MaxWire = 0
    FollowFaults = {"feed", "reload"}
    Traded = {"arkade_to_evm", "evm_to_arkade", "bitcoin_to_evm", "evm_to_bitcoin",
              "btc_to_arkade", "lightning_to_evm", "lightning_to_arkade", "evm_to_lightning",
              "arkade_to_lightning", "lightning_to_bitcoin", "bitcoin_to_lightning"}
    MaxDeposits = 2
    MaxDepth = 2
    Watched = {w1, w2}
    Handlers = {h1}
    Slots = {k1, k2, k3}
    MaxIdles = 2
    Scripts = {x1, x2}
    Lines = {n1, n2, n3}
    Hinted = {a1, a2, a3}
    Cap = 2
    Plugs = {p1, p2}
    Input = 1
    MaxAmount = 2
    MaxCalls = 3
    AuthorityFaults = {"rpc"}
    Quoters = {g1, g2}
    MaxFetches = 2
    StaticTtl = 1
    MaxClock = 1
    PinnedAmounts = {1, 40}
    Markets <- Quoted
VIEW Moving
INVARIANTS
    WalletTypeOK
    PaidTwiceOnlyUnrecorded PaidIsReachable 
    FundingIsBound BuiltIsAccepted
    OutcomeIsTrue SpentIsFinal DustShadowsNothing
    KeysFitSwaps  
     FundedIsPayable  QuoteIsHonoured
PROPERTY ClaimsOnlyInWindow
CHECK_DEADLOCK FALSE
