SPECIFICATION ServerSpec
CONSTANTS
    g0 = g0
    a1 = a1
    a2 = a2
    b1 = b1
    b2 = b2
    b3 = b3
    none = none
    coin = coin
    left = left
    right = right
    both = both
    more = more
    alice = alice
    NoBlock = none
    Blocks <- AllBlocks
    Txs = {coin, left, right, both, more}
    Scripts = {alice}
    Parent <- ParentMC
    Height <- HeightMC
    Chain <- ChainMC
    BlockTxs <- BlockTxsMC
    OutScripts <- OutScriptsMC
    Spends <- SpendsMC
    Unspendable = {}
    LightMode = FALSE
    IndexUnspendables = FALSE
    AddressSearch = FALSE
    Start = g0
    Moves = {a1, a2, b1, b2, b3}
    Script = alice
    MinItems = 1
    a3 = a3
    c1 = c1
    s1 = s1
    ip1 = ip1
    NoAddr = NoAddr
    TooLong = TooLong
    None = None
    Main = Main
    NoOne = NoOne
    Clients = {c1}
    Signals = {"usr", "term"}
    MaxCrashes = 1
    MaxRequests = 1
    Returns = TRUE
    ElectrumMayHang = TRUE
    Work <- WorkMC
    FirstBest = a1
    ChunkHeaders = 2
    MayRewind = FALSE
    MaxReorgs = 4
    MaxStarts = 2
INVARIANTS CacheSound OrderlyProcess
PROPERTIES Informed StopsUnlessStuck WaitsEnd ListIsBestChain FollowsBest
CHECK_DEADLOCK FALSE
