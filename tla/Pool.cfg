SPECIFICATION FairSpec
CONSTANTS
    r1 = r1
    r2 = r2
    r3 = r3
    r4 = r4
    Requests = {r1, r2, r3, r4}
    Uri <- SharedUri
    ServerNames = {"a", "b"}
    NoPort = NoPort
    None = None
    Fragile = {r1, r3}
    Silent = {}
INVARIANTS TypeOK RightPeer GuardPinsConnection ClosedIsEvicted LockMovesOn
PROPERTIES SettlesUnlessLost StoresRun
CHECK_DEADLOCK FALSE
