SPECIFICATION Spec
CONSTANTS
    Packet = {chat, chunk}
    UserInfo = user
    Rate = rate
    MaxPushed = 4
    MaxMissing = 1
SYMMETRY MCSymmetry
INVARIANTS
    TypeOK
    SendingIsCarried
    OneChain
    InOrder
\* A connection whose user does nothing more, or that failed, is done.
CHECK_DEADLOCK FALSE
