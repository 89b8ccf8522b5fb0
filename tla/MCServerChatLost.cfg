SPECIFICATION FairSpec
CONSTANTS
    Session = {s1, s2}
    Name = {a}
    Stored = {}
    Inputs <- Chats
    MaxCopies = 0
    MaxChunks = 0
    MaxInputs = 2
    MaxListed = 9
PROPERTIES
    ChatComesBack
\* A server whose clients are gone does nothing more.
CHECK_DEADLOCK FALSE
