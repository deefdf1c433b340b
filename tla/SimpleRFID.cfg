\* A reader whose device does not open stops for good.
CHECK_DEADLOCK FALSE
SPECIFICATION Spec
CONSTANTS
    Cards = {c1, c2}
    Host = Host
    Noise = Noise
INVARIANTS
    UidIsGenuine
    AnswerIsOwn
PROPERTIES
    CardIsRead
