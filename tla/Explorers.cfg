SPECIFICATION ExplorersSpec
CONSTANTS
    n1 = n1
    n2 = n2
    t1 = t1
    h1 = h1
    s1 = s1
    as1 = as1
    a1 = a1
    p1 = p1
    five = five
    word = word
    NoPage = NoPage
    NoText = NoText
    Message = Message
    Blank = Blank
    Networks = {n1, n2}
    Liquid = n2
    Txids = {t1}
    Hashes = {h1}
    Scripthashes = {s1}
    AssetIds = {as1}
    Heights = {five}
    Addresses = {a1}
    Prefixes = {word}
    Pages = {p1}
    Trips <- TripsMC
    Nets = {"main", "liquid"}
    LiquidNet = "liquid"
    BlockHashes = {"b1", "b2"}
    BlockHeights = {"h"}
    HashAt <- HashAtMC
    TxIds = {"t1", "t2"}
    Addrs = {"a1", "a2"}
    ScriptHashes = {"s"}
    Assets = {"x"}
    AddrPrefixes = {"p"}
    Starts = {"25", "7"}
    Aligned = {"25"}
    NoId = "none"
    Tours <- ToursMC
    MaxFails = 1
    Nothing = Nothing
    Unused = Unused
    Apps = {n1, n2}
    MaxLaunches = 5
INVARIANTS
    ScreensShowAsked PagesShowAsked LabelsAgree AmountsAgree FiguresAgree WalksAndPaintsFit ShownIsKept
CHECK_DEADLOCK FALSE
