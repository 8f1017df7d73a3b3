CONSTANTS
    Thread = {t1, t2}
    first = first
    second = second
    both = both
    Text = {first, second, both}
    Holds <- Lists
    MaxInt = 5
    Absent = Absent
SPECIFICATION Spec
INVARIANT
    EveryCreatedUserStored
CHECK_DEADLOCK FALSE
