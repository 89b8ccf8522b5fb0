SPECIFICATION Spec
CONSTANTS
    Acts <- All
    Connection = {c1, c2}
    MaxActs = 4
    MaxChunks = 1
SYMMETRY MCSymmetry
INVARIANTS
    TypeOK
    DisconnectedIsIdle
    ChatOnce
    UploadOnce
\* A client whose user does nothing more is done.
CHECK_DEADLOCK FALSE
