SPECIFICATION Spec
CONSTANTS
    s1 = s1
    s2 = s2
    live = live
    Publisher = {s1, s2}
    Path = {live}
    PathOf <- OnePath
    NoPusher = NoPusher
    SaveStreamToLocal = TRUE
    EnsureDirFails = FALSE
    ApiStops = TRUE
    MaxRecord = 2
    MaxRestart = 1
SYMMETRY SamePathSymmetry
INVARIANTS
    OneGoroutineWorks
    RecordingOwned
    RecorderKnowsPushers
    RecordingsEndOnStop
PROPERTIES
    OnlyOwnerUnregisters
CHECK_DEADLOCK FALSE
