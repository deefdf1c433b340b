\* After a shutdown, completed or stuck, nothing moves any more.
CHECK_DEADLOCK FALSE
SPECIFICATION Spec
CONSTANTS
    Cards = {c1}
    Strangers = {x1}
    NoUid = NoUid
    MaxQueue = 1
    Prompt = TRUE
    Slack = 1
    EarlySignal = TRUE
INVARIANTS
    NoScanForgotten
    FreshIsScanned
    LatestIsLastScan
PROPERTIES
    ScanReachesCache
    StopCompletes
