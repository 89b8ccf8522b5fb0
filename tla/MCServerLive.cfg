SPECIFICATION FairSpec
CONSTANTS
    Session = {s1, s2}
    Name = {a}
    Stored = {}
    Inputs <- Kicks
    MaxCopies = 0
    MaxChunks = 1
    MaxInputs = 3
    MaxListed = 9
PROPERTIES
    KickCompletes
    ChatFreed
\* A server whose clients are gone does nothing more.
CHECK_DEADLOCK FALSE
