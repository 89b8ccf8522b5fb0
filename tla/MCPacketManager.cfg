SPECIFICATION FairSpec
CONSTANTS
    chat = chat
    file = file
    list = list
    Packet <- MCPacket
    Oversized <- MCOversized
    MaxAccepted = 4
    MaxReceived = 1
INVARIANTS
    TypeOK
    OneSendChain
    InFlightIsFront
    NoSilentStall
    QueuedCountExact
    FailureIsFinal
PROPERTIES
    NoReceiveAfterDisconnect
    ChannelSpec
    EveryPacketSent
\* A connection that has ended does nothing more.
CHECK_DEADLOCK FALSE
