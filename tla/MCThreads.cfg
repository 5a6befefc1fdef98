SPECIFICATION ThreadsSpec
CONSTANTS
    BGM_RING_BUFFER_COUNT = 4
    MaxWakeups = 2
    MaxOps = 5
    u1 = u1
    h1 = h1
    NULL = NULL
    Freed = Freed
    UsbGames = {u1}
    HddGames = {h1}
    MaxAsks = 2
    MaxChanges = 1
INVARIANTS OpsAreOrderly RenderIsSafe MusicIsSafe
PROPERTIES DeferringWorks ListedIsShown MusicFlows MenuFollowsDevices
