SPECIFICATION Spec
CONSTANTS
    s1 = s1
    live = live
    Publisher = {s1}
    Path = {live}
    PathOf <- OnePath
    NoPusher = NoPusher
    SaveStreamToLocal = FALSE
    EnsureDirFails = FALSE
    ApiStops = FALSE
    MaxRecord = 0
    MaxRestart = 1
INVARIANTS
    ServesAfterRestart
CHECK_DEADLOCK FALSE
