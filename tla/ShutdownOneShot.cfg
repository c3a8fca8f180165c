SPECIFICATION ShutdownSpec
CONSTANTS
    c1 = c1
    c2 = c2
    Clients = {c1}
    Main = Main
    NoOne = NoOne
    Signals = {"usr", "term"}
    MaxCrashes = 1
    MaxRequests = 1
    Returns = FALSE
    ElectrumMayHang = TRUE

PROPERTY OneShotAnswered
CHECK_DEADLOCK FALSE
