CONSTANTS
    Requests = {q1, q2}
    Slots = {"back", None}
    None = None
SPECIFICATION FairSpec
CHECK_DEADLOCK FALSE
INVARIANTS KeyAlwaysReturned AbandonedNotReused CrossTalkNeedsSharing CleanExitDropsNothing ColdStartPaidOnce
PROPERTIES ScanEnds ShutdownEnds
