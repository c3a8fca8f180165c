SPECIFICATION GateSpec
CONSTANTS
    n1 = n1
    n2 = n2
    q1 = q1
    q2 = q2
    q3 = q3
    op = op
    Npubs = {n1, n2}
    Emails = {1, 2}
    NoRow = NoRow
    NoFile = NoFile
    NoJob = NoJob
    Posters = {q1, q2, q3}
    Operators = {}
    Nobody = Nobody
    MaxRows = 2
    MaxBytes = 3
    Garbage = Garbage
    Keys = {n1, n2}
    Clients = {"web", "desktop", "wallet", "signer"}
    Window = 1
    PublicHealth = TRUE
    MaxTime = 3
    MaxRelists = 1
INVARIANTS QueueExact GateExact
PROPERTIES Answered KeysSettle SocketsClose
CHECK_DEADLOCK FALSE
