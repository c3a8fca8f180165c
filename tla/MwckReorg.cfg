SPECIFICATION Spec
CONSTANTS
    g0 = g0
    p1 = p1
    a2 = a2
    a3 = a3
    b2 = b2
    b3 = b3
    c1 = c1
    c2 = c2
    none = none
    old = old
    both = both
    left = left
    right = right
    other = other
    NoBlock = none
    Blocks <- AllBlocks
    Txs = {old, both, left, right, other}
    Scripts = {}
    Parent <- ParentMC
    Height <- HeightMC
    Chain <- ChainMC
    BlockTxs <- BlockTxsMC
    OutScripts <- NoScripts
    Spends <- NoSpends
    Unspendable = {}
    LightMode = FALSE
    IndexUnspendables = FALSE
    AddressSearch = FALSE
    Start = p1
    Moves = {p1, a2, a3, b2, b3}
    Window = 1
    MempoolTxs = {left, other}
    MayBroadcast = TRUE
    MaxFails = 1
    MayOverlap = FALSE
INVARIANTS ConfirmedSound MempoolSound BlocksTold
