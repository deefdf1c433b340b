\* A server that is stopped, or cannot bind, ends.
CHECK_DEADLOCK FALSE
SPECIFICATION Spec
CONSTANTS
    Conns = {c1, c2}
    Threads = {t1, t2}
    Posting = {c2}
    NoConn = NoConn
    MaxRequests = 2
INVARIANTS
    TypeOK
    OneOwner
    NoIdleBesideJob
    HandledOnce
    QuietWhenStopped
PROPERTIES
    RefinesServerLife
    StopEndsListen
