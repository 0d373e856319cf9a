CONSTANTS
    DataBits = 4
    Pace = "handled"
SPECIFICATION FairSpec
INVARIANTS
    TypeOK
    InStep
PROPERTIES
    ImplementsWire
    FrameArrives
