CONSTANTS
    Timer = {t1, t2}
    NoTimer = NoTimer
    Half = 8
    Day = 2
    Delays <- Longest
    Boot = {1, 13}
    MaxGain = 1
    MaxClock = 20
SPECIFICATION Spec
INVARIANT
    NoOversleep
