CONSTANTS
    Tabs = {t1}
    Ids = {i1, i2}
    Filters = {"ALL", "PENDING"}
    All = "ALL"
    None = None
SPECIFICATION Spec
CHECK_DEADLOCK FALSE
INVARIANT ToldBeforeItHappens
