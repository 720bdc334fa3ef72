SPECIFICATION FairSpec
CONSTANTS
    r1 = r1
    r2 = r2
    r3 = r3
    r4 = r4
    Requests = {r1, r2, r3}
    Uri <- MixedUri
    ServerNames = {"a", "b"}
    NoPort = NoPort
    None = None
    Fragile = {}
    Silent = {r1}
PROPERTY OthersSettle
CHECK_DEADLOCK FALSE
