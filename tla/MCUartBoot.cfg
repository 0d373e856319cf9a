CONSTANTS
    Pages = 2
    CellsPerPage = 2
    Value <- MCValue
    MaxNvmFaults = 0
    SwitchMayBe = {FALSE}
    EntryCells = {0, 2}
    Images <- MCAll
    ForceErase = {FALSE, TRUE}
    RunAfter = {FALSE, TRUE}
    Modes <- MCModes
    StepCells = 2
    OldFlash <- MCOld
    Scenes <- MCFair
SPECIFICATION FairSpec
INVARIANTS
    BootTypeOK
PROPERTIES
    SessionSucceeds
    Recovers
