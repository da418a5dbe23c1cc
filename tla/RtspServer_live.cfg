SPECIFICATION FairSpec
CONSTANTS
    s1 = s1
    s2 = s2
    live = live
    Publisher = {s1, s2}
    Path = {live}
    PathOf <- OnePath
    NoPusher = NoPusher
    SaveStreamToLocal = TRUE
    EnsureDirFails = TRUE
    ApiStops = TRUE
    MaxRecord = 1
    MaxRestart = 0
PROPERTIES
    SendersServed
    PathFreed
CHECK_DEADLOCK FALSE
