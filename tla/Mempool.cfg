SPECIFICATION LiveSpec
CONSTANTS
    coin = coin
    par = par
    kid = kid
    rbf = rbf
    Txs <- AllTxs
    NoTx = NoTx
    Coins = {coin}
    Prevouts <- PrevoutsMC
    Ancestors <- AncestorsMC
    Fee <- FeeMC
    Configs <- BothConfigs
    MaxFaults = 1
INVARIANTS PollingSpendsRecorded HistoryOnce EdgesLive NoPanic
PROPERTIES NewcomersStay Settles
