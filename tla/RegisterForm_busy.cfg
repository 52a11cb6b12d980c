CONSTANTS
    Photos = {p1, p2}
    Pdfs = {d1}
    Names = {n1}
    Numbers = {i1}
    None = None
SPECIFICATION Spec
SYMMETRY Symmetry
CHECK_DEADLOCK FALSE
INVARIANT BusyWhileUploading
