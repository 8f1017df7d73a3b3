CONSTANTS
    Timer = {t1}
    NoTimer = NoTimer
    Half = 8
    Day = 2
    Delays <- Short
    Boot = {1, 13}
    MaxGain = 2
    MaxClock = 20
SPECIFICATION Spec
PROPERTY
    DelayHonoured
