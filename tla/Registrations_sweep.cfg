CONSTANTS
    Keys = {k1, k2}
    RegIds = {r1}
    Guests = {g1}
    Staff = {w1}
    Viewers = {}
    Sweepers = {s1}
    Decisions = {"APPROVED"}
    PromptForms = TRUE
    None = None
SPECIFICATION FairSpec
CHECK_DEADLOCK FALSE
INVARIANTS SweepSparesRegistered
PROPERTIES OrphanEventuallySwept ReviewEventuallyRecorded
