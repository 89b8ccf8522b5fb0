SPECIFICATION Spec
CONSTANTS
    Acts <- Upload
    Connection = {c1, c2}
    MaxActs = 4
    MaxChunks = 1
SYMMETRY MCSymmetry
INVARIANTS
    OneWriter
\* A client whose user does nothing more is done.
CHECK_DEADLOCK FALSE
