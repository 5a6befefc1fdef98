SPECIFICATION StSpec
CONSTANTS
    Values = {d, v}
    Default = d
    Legacy = v
    NoFile = NoFile
    Empty = Empty
    Machines <- MCMachines
    MaxStarts = 2
    MaxChanges = 3
    MaxGlitches = 1
INVARIANT SavedIsRestored
CHECK_DEADLOCK FALSE
