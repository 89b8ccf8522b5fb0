SPECIFICATION FairSpec
CONSTANTS
    chat = chat
    chunk = chunk
    Packet <- MCPacket
    Bits <- MCBits
    Oversized = {}
    Rates = {3, 7}
    Window = 2
    MaxAccepted = 4
    MaxElapsed = 9
INVARIANTS
    WaitIsOwed
PROPERTIES
    RateKept
    PacketManagerSpec
\* A connection whose owner does nothing more, or that failed, is done.
CHECK_DEADLOCK FALSE
