CONSTANTS
    Staff = {w1, w2}
    Days = {1, 2}
    WholeForms = TRUE
    Absent = Absent
    None = None
SPECIFICATION Spec
SYMMETRY Symmetry
CHECK_DEADLOCK FALSE
INVARIANTS TypeOK DatesOrdered AadhaarMasked RecordResavable
