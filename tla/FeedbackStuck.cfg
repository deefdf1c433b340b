\* After the destructor nothing moves any more.
CHECK_DEADLOCK FALSE
SPECIFICATION Spec
CONSTANTS
    Signals = {"ACTIVATE"}
    NoSignal = "none"
    MaxQueue = 1
    Disjoint = FALSE
PROPERTIES
    LedGoesOff
