SPECIFICATION FairSpec
CONSTANTS
    a = a
    b = b
    d = d
    e = e
    Requests = {r1, r2}
    r1 = r1
    r2 = r2
    Inputs <- MCInputs
    Invalid = Invalid
    Domains = {d, e}
    Answers <- MCAnswers
    None = None
    Ttl = 1
    MaxTime = 2
INVARIANTS TypeOK CacheIsHonest AllAreTried RelaysAsAsked
PROPERTIES EveryoneIsAnswered
CHECK_DEADLOCK FALSE
