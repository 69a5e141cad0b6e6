SPECIFICATION Spec
CONSTANTS
    t1 = t1
    t2 = t2
    a = a
    b = b
    Threads = {t1, t2}
    Names = {a, b}
    Levels = {2, 4, 6}
    Window = 1
    MaxCalls = 3
    MaxFaults = 2
    MaxTime = 2
SYMMETRY Alike
INVARIANTS SettingsReachAll EveryMissReported SilenceIsEarned
CHECK_DEADLOCK FALSE
