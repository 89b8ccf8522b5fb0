SPECIFICATION FairSpec
CONSTANTS
    ImageCount <- MCImageCount
INVARIANTS
    TypeOK
    FrameIsFinished
    SemaphoresUnused
    PresentedIsRendered
PROPERTIES
    FrameEnds
\* A closed window is the end.
CHECK_DEADLOCK FALSE
