SPECIFICATION Spec
CONSTANTS
    Session = {s1, s2}
    Name = {a}
    Stored = {}
    Inputs <- Files
    MaxCopies = 1
    MaxChunks = 1
    MaxInputs = 4
    MaxListed = 9
SYMMETRY MCSymmetry
INVARIANTS
    TypeOK
    ClosedIsGone
    WriterExclusive
    OwnNameProtected
    FilesReleased
    FileListFresh
    DownloadIsWhole
\* A server whose clients are gone does nothing more.
CHECK_DEADLOCK FALSE
