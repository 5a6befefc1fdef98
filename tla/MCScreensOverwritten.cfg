SPECIFICATION ScreensSpec
CONSTANTS
    GcGames = {g1, g2}
    GcValues = {d, v1}
    GcDefault = d
    NoGame = NoGame
    MaxRequests = 3
    MaxScans = 0
    Apps = {a1, a2}
    MaxItems = 3
    NoFile = NoFile
    MaxUses = 3
    Servers = {s1, s2}
    GoodServer = s1
    ShareGames = {g}
    NoServer = NoServer
    MaxFaults = 2
PROPERTY StoredIsChosen
CHECK_DEADLOCK FALSE
