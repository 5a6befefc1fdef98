SPECIFICATION FairSpec
CONSTANTS
    m1 = m1
    m2 = m2
    None = None
    Media = {m1, m2}
    UlMedia = {m2}
    QuietFrames = 3
    FirstScanDelay = 5
    RetryFrames = 3
    MaxRetryFrames = 15
    MaxEvents = 3
    MaxFailures = 1
    MaxAsks = 1
INVARIANTS ListNeedsDevice
PROPERTIES RemovedIsReleased DetectionSettles RefreshLeadsToScan
