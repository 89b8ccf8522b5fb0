SPECIFICATION Spec
CONSTANTS
    Letter <- MCLetter
    Text <- MCText
    Sizes <- MCSizes
    SizeBytes = 2
    Reserved = 5
    MaxFiles = 2
    Default <- MCDefault
INVARIANTS
    PacketsReadBack
    ConfigReadsBack
