CONSTANTS
    Pages = 2
    CellsPerPage = 4
    Value <- MCValue
    BlockCells = 2
    ErasedPages = 2
    EntryCells <- MCEntry
    Zero = 0
    Images <- MCImages
    OldFlash <- MCOld
    Scenes <- MCFullAlone
SPECIFICATION Spec
INVARIANTS
    EndsFlushed
