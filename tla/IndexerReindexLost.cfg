SPECIFICATION Spec
CONSTANTS
    g0 = g0
    a1 = a1
    a2 = a2
    a3 = a3
    b1 = b1
    b2 = b2
    none = none
    coin = coin
    mint = mint
    pay = pay
    spend = spend
    alice = alice
    bob = bob
    NoBlock = none
    Blocks <- AllBlocks
    Txs = {coin, mint, pay, spend}
    Scripts = {alice, bob}
    Parent <- ParentMC
    Height <- HeightMC
    Chain <- ChainMC
    BlockTxs <- BlockTxsMC
    OutScripts <- OutScriptsMC
    Spends <- SpendsMC
    Unspendable <- UnspendableMC
    LightMode = TRUE
    IndexUnspendables = FALSE
    AddressSearch = FALSE
    ChunkSize = 1
    JsonrpcImport = TRUE
    MayReturn = TRUE
    MaxRestarts = 1
INVARIANT ChainIndexed
CHECK_DEADLOCK FALSE
