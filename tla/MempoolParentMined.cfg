SPECIFICATION LiveSpec
CONSTANTS
    coin = coin
    par = par
    kid = kid
    rbf = rbf
    Txs <- AllTxs
    NoTx = NoTx
    Coins = {coin}
    Prevouts <- PrevoutsMC
    Ancestors <- AncestorsMC
    Fee <- FeeMC
    Configs <- PlainConfigs
    MaxFaults = 0
PROPERTY SettlesIndexed
