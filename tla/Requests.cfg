SPECIFICATION RequestsSpec
CONSTANTS
    n1 = n1
    n2 = n2
    q1 = q1
    q2 = q2
    q3 = q3
    op = op
    Npubs = {n1, n2}
    Emails = {1}
    NoRow = NoRow
    NoFile = NoFile
    NoJob = NoJob
    Posters = {q1, q2}
    Operators = {op}
    Nobody = Nobody
    MaxRows = 1
    MaxBytes = 3
    NoIp = NoIp
    g0 = g0
    a1 = a1
    a2 = a2
    b1 = b1
    b2 = b2
    b3 = b3
    none = none
    coin = coin
    left = left
    right = right
    both = both
    more = more
    alice = alice
    bob = bob
    c1 = c1
    c2 = c2
    s1 = s1
    client = client
    proxy = proxy
    NoAddr = NoAddr
    TooLong = TooLong
    None = None
    Blocks = {g0, a1, a2, b1, b2, b3}
    NoBlock = none
    Parent <- ParentMC
    Height <- HeightMC
    Chain <- ChainMC
    Txs = {coin, left, right, both, more}
    BlockTxs <- BlockTxsMC
    Scripts = {alice, bob}
    OutScripts <- OutScriptsMC
    Spends <- SpendsMC
    Unspendable = {}
    LightMode = FALSE
    IndexUnspendables = FALSE
    AddressSearch = FALSE
    Start = a1
    Moves = {a2, b3}
    Script = alice
    Known = {both, more}
    ConfFinal = 2
    UtxosLimit = 5
    TxsPerUtxo = 1
    MinItems = 3
    MaxTxs = 2
    MaxWhole = 6
    Ops = {"block-height", "status", "block", "raw", "txs", "tx", "txstatus", "proof", "outspend", "history", "whole", "utxo"}
    MaxUpdates = 2
    MaxPaged = 5
    MaxKept = 1
    AskHeights = {0, 1, 2}
    AskBlocks = {g0, a2, b3}
    AskTxs = {coin, both, more}
    AskOuts <- AskOutsMC
    Posts = {q1, q2}
    Ips = {"i"}
    Senders = {n1}
    RateWindow = 2
    PerIp = 3
    PerNpub = 2
    MaxClock = 3
    Conns = {c1, c2}
    Hashes = {s1}
    Addrs = {client, proxy}
    DirectIp <- DirectIpMC
    Layers <- LayersMC
    HaproxyDepth = 1
    PerClient = 1
    MaxClients = 2
    MaxSubs = 1
    ChanSize = 1
    Histories = {0, 1}
    NoHistory = 0
    MaxChanges = 0
    MaxLines = 1
    MaxNotes = 0
INVARIANTS WithinCap AllowExact WithinRate KeptAnswersTrue ScriptAnswersExact ConnectionsBalance
CHECK_DEADLOCK FALSE
