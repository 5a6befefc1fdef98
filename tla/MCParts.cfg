SPECIFICATION PartsSpec
CONSTANTS
    Values = {d, v}
    Default = d
    Legacy = v
    NoFile = NoFile
    Empty = Empty
    Machines <- MCMachines
    MaxStarts = 2
    MaxChanges = 2
    MaxGlitches = 1
    BtPads = 2
    BtEnabled = {1, 2}
    BtCtls = {c3, c4}
    BtDs4 = {c4}
    BtFake = {c3}
    NoCtl = NoCtl
    BtHandles = {1, 2}
    MaxBtCalls = 1
    MaxBtConnects = 2
    MaxBtFaults = 1
    Startup <- MCStartup
    FirstLetter <- MCFirstLetter
    SortLetter <- MCSortLetter
    LastFilter = 5
    MaxFavorites = 2
    MaxRecent = 2
    NoStartup = "none"
    MaxCarousel = 3
    GlDirs <- MCGlDirs
    GlFiles <- MCGlFiles
    GlHeld <- MCGlHeld
    Bad = "bad"
    NoId = "none"
    NoBin = NoBin
    MaxGlEdits = 3
    MaxGlFaults = 1
    VmcClusters = 12
    VmcBlock = 2
    VmcEntries = 4
    VmcErase = 4
    VmcMega = 6
    VmcMaxIfc = 2
    NoVmc = NoVmc
    MaxVmcUses = 6
    MaxVmcFaults = 2
INVARIANTS PartsTypeOK SlotsFollowLinks SettingsAreKept ListFollowsDevice CardsAreWhole
PROPERTIES CarouselIsRight
CHECK_DEADLOCK FALSE
