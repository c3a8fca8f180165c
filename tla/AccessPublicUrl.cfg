SPECIFICATION AccessSpec
CONSTANTS
    k1 = k1
    k2 = k2
    Keys = {k1, k2}
    Clients = {"signer"}
    Window = 1
    PublicHealth = TRUE
    MaxTime = 3
    MaxRelists = 1
INVARIANT PublicUrlAccepted
CHECK_DEADLOCK FALSE
