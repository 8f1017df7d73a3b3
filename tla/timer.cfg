CONSTANTS
    Timer = {t1, t2, t3}
    NoTimer = NoTimer
    Half = 8
    Day = 2
    Delays <- Short
    Boot = {1, 13}
    MaxGain = 2
    MaxClock = 20
SPECIFICATION Spec
INVARIANTS
    TypeOK
    TreeInOrder
    NoOversleep
PROPERTIES
    ImplementsQueue
