CONSTANTS
    Pages = 2
    CellsPerPage = 2
    Value <- MCValue
    MaxNvmFaults = 1
    SwitchMayBe = {FALSE}
    EntryCells = {0, 2}
    Images <- MCAll
    ForceErase = {FALSE, TRUE}
    RunAfter = {FALSE, TRUE}
    Modes <- MCModes
    StepCells = 2
    OldFlash <- MCOld
    Scenes <- MCQuiet
SPECIFICATION Spec
INVARIANTS
    WriteOkMeansNoError
