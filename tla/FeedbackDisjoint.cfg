\* After the destructor nothing moves any more.
CHECK_DEADLOCK FALSE
SPECIFICATION Spec
CONSTANTS
    Signals = {"ACTIVATE", "CHECKOUT", "ERROR"}
    NoSignal = "none"
    MaxQueue = 2
    Disjoint = TRUE
INVARIANTS
    BuzzerOnlyInSignal
    ColourOfSignal
    LedIsTended
    DarkWhenGone
PROPERTIES
    LedGoesOff
    SignalIsPlayed
    DestroyCompletes
