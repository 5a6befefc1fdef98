SPECIFICATION FairSpec
CONSTANTS
    r1 = r1
    r2 = r2
    r3 = r3
    Reqs <- MCReqs
    NULL = NULL
    Garbage = Garbage
    Types = {"menu", "action"}
    DedupTypes = {"menu"}
    Data = {"d1", "d2"}
    MaxWakeups = 2
    MaxNested = 1
INVARIANTS IInv ServedIsIntact BlockedIsQuiet
PROPERTIES ImplementsQueue RequestsAreServed
