CONSTANTS
    zero = zero
    other = other
    Byte <- MCByte
    Zero = zero
    RingSize = 4
    CharRange = 4
    EpSize = 3
    Scenes <- MCScenes
SPECIFICATION FairSpec
INVARIANTS
    TypeOK
    HandedOverAtOnce
PROPERTIES
    ImplementsDown
    ImplementsUp
