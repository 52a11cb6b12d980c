CONSTANTS
    Accounts = {a1}
    Logins = {l1, l2}
    Browsers = {b1}
    Requests = {q1}
    Operators = {o1, o2}
    MaxVersion = 2
    None = None
SPECIFICATION FairSpec
CHECK_DEADLOCK FALSE
INVARIANTS TypeOK DisabledSessionsEnded RefusalIsFinal
PROPERTIES EndedSessionsForgotten KeepsSessionRules
