SPECIFICATION InGameSpec
CONSTANTS
    bankmax = 2
    bufmax = 4
    Lsns = {0, 50}
    Sizes = {3}
    MaxCalls = 3
    MaxGame = 1
    MaxFails = 1
    EeAlign = 4
    EeSector = 8
    EeWord = 2
    FsSectors = 3
    BufSectors = 2
    mediaLsnCount = 5
    MaxSectors = 5
    MaxEeReads = 2
    MaxEeFaults = 1
    ZSector = 2
    ZHeader = 1
    ZBlocks = 4
    ZEntries = 4
    ZCount = 3
    ZCache = 3
    MaxZReads = 3
    MaxZFaults = 1
    McCards = {c0, c1}
    McPages = 2
    McChunks = 2
    McBlock = 2
    McData = {e, a}
    McErased = e
    McFilled = ff
    MaxMcOps = 2
    MaxMcFaults = 1
INVARIANTS RingHoldsStream ReadyMeansReadUndisturbed StoppedIsQuiet StreamIsFilledUndisturbed WaitEnds ReadIsRight ZsoReadsRight CardsKeepPages
CHECK_DEADLOCK FALSE
