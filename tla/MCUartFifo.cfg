CONSTANTS
    Byte = {b1, b2}
    Size = 4
    PacketSize = 3
SPECIFICATION FairSpec
INVARIANTS
    TypeOK
    CopyInOrder
PROPERTIES
    WholeRequest
    ImplementsQueue
    EnoughIsServed
