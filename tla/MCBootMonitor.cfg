CONSTANTS
    Pages = 1
    CellsPerPage = 1
    Value <- MCValue
    MaxNvmFaults = 1
    SwitchMayBe = {FALSE, TRUE}
    EntryCells = {0}
    KeyBytes <- MCKeys
    FieldBytes <- MCFields
SPECIFICATION Spec
INVARIANTS
    DeviceTypeOK
    ExitResyncs
PROPERTIES
    ButtonEntersLoader
