SPECIFICATION FairSpec
CONSTANTS
    Connection = {c1}
    Acts <- UpAndDown
    MaxActs = 3
    MaxChunks = 2
    Name = {a}
    MaxCopies = 2
    Stored <- AFile
    MaxInputs = 20
    MaxInTransit = 1
INVARIANTS
    AsAssumed
PROPERTIES
    TransfersWhole
    TransferEnds
    ManagerReleased
\* A client whose user does nothing more is done.
CHECK_DEADLOCK FALSE
