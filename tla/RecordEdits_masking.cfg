CONSTANTS
    Staff = {w1}
    Days = {1, 2}
    WholeForms = FALSE
    Absent = Absent
    None = None
SPECIFICATION Spec
CHECK_DEADLOCK FALSE
INVARIANTS AadhaarMasked
