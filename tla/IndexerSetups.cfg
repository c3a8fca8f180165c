SPECIFICATION SetupsSpec
CONSTANTS
    g0 = g0
    a1 = a1
    a2 = a2
    a3 = a3
    b1 = b1
    b2 = b2
    none = none
    coin = coin
    mint = mint
    pay = pay
    spend = spend
    alice = alice
    bob = bob
    NoBlock = none
    Blocks <- AllBlocks
    Txs = {coin, mint, pay, spend}
    Scripts = {alice, bob}
    Parent <- ParentMC
    Height <- HeightMC
    Chain <- ChainMC
    BlockTxs <- BlockTxsMC
    OutScripts <- OutScriptsMC
    Spends <- SpendsMC
    Unspendable <- UnspendableMC
    LightMode = FALSE
    IndexUnspendables = FALSE
    AddressSearch = FALSE
    ChunkSize = 2
    JsonrpcImport = FALSE
    MayReturn = FALSE
    MaxRestarts = 2
INVARIANTS IndexExact SyncedTipDurable NoPanic
PROPERTIES TipMovesAlongBranch CrashingCatchesUp
