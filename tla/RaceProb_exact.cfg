SPECIFICATION Spec
CONSTANTS
    Tasks = {t1, t2, t3}
    INT_MAX = 15
    RAS_MAX_TIMESLICE = 3
    RaceScale = 3
    MaxWrites = 3
    MaxQueue = 3
SYMMETRY Symmetry
INVARIANTS SliceInRange SliceIsExact
