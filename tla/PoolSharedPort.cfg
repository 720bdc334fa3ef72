SPECIFICATION Spec
CONSTANTS
    r1 = r1
    r2 = r2
    r3 = r3
    r4 = r4
    Requests = {r1, r2}
    Uri <- PortUri
    ServerNames = {"a", "b"}
    NoPort = NoPort
    None = None
    Fragile = {}
    Silent = {}
INVARIANT HttpsIsEncrypted
CHECK_DEADLOCK FALSE
