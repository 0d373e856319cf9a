CONSTANTS
    Size = 4
    Keys <- MCPad
    HastyKeys = {}
    KeycodeTable <- MCTable
SPECIFICATION Spec
PROPERTIES
    CharactersAsTyped
