CONSTANTS
    Tabs = {t1}
    Ids = {i1, i2}
    Filters = {"ALL", "PENDING"}
    All = "ALL"
    None = None
SPECIFICATION FairSpec
CHECK_DEADLOCK FALSE
INVARIANTS ShowsWhatWasAsked AsksBeforeDeleting PhotosReleased
PROPERTIES EditsOutliveLoads PageSettles
