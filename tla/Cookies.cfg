SPECIFICATION FairSpec
CONSTANTS
    r1 = r1
    r2 = r2
    o1 = o1
    o2 = o2
    Names = {"x", "y"}
    Values = {"1", "2", "o"}
    Requests = {r1, r2}
    Url <- MCUrl
    SetCookies <- MCSetCookies
    EndsWith <- MCEndsWith
    StartsWith <- MCStartsWith
    Overrides = {o1, o2}
    Override <- MCOverride
    None = None
    NotOverridden = NotOverridden
    Faults = {"open", "match", "put"}
INVARIANTS TypeOK QuietMeansSaved BegunAfterSees OverrideIsNotSaved
PROPERTIES PutIsFresh NothingForgotten  SavedInTime
CHECK_DEADLOCK FALSE
