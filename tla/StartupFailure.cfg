SPECIFICATION Spec
CONSTANTS
    t1 = t1
    t2 = t2
    Tabs = {t1}
    Domains = {"a", "b"}
    First = "a"
    None = None
    MaxFaults = 1
PROPERTY SuccessIsTrue
CHECK_DEADLOCK FALSE
