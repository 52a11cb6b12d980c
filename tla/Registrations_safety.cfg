CONSTANTS
    Keys = {k1, k2}
    RegIds = {r1}
    Guests = {g1}
    Staff = {w1, w2}
    Viewers = {v1}
    Sweepers = {s1}
    Decisions = {"PENDING", "APPROVED"}
    PromptForms = FALSE
    None = None
SPECIFICATION Spec
SYMMETRY Symmetry
CHECK_DEADLOCK FALSE
INVARIANTS TypeOK ReviewedImagesGone DisposalRecordExact
PROPERTIES NoImageReadAfterReview KeepsPromise KeepsRecords KeepsSlots
