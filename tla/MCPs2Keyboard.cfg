CONSTANTS
    Size = 4
    Keys <- MCTyping
    HastyKeys <- MCHasty
    KeycodeTable <- MCTable
SPECIFICATION FairSpec
INVARIANTS
    TypeOK
    CodeInOrder
    StatesAsHeld
    PressedAsHeld
PROPERTIES
    ImplementsQueue
    ImplementsKeys
