SPECIFICATION FairSpec
CONSTANTS
    u1 = u1
    u2 = u2
    live = live
    a1 = a1
    a2 = a2
    Pull = {u1, u2}
    Path = {live, empty}
    EmptyPath = empty
    Plan <- Plans
    NoPusher = NoPusher
    ApiCaller = {a1, a2}
INVARIANTS
    StoppableById
    StopsAddUp
PROPERTIES
    EndedSourceFreesPath
CHECK_DEADLOCK FALSE
