CONSTANTS
    Photos = {p1, p2}
    Pdfs = {d1}
    Names = {n1}
    Numbers = {i1, i2}
    None = None
SPECIFICATION FairSpec
CHECK_DEADLOCK FALSE
INVARIANTS OrderIrrelevant SubmitsWhatItShows
PROPERTIES TypedKept SignedKept KeepsSlots WaitEnds
