\* Two requests, two projects in a cache of one, a changing configuration;
\* background shutdowns and the exit end.
SPECIFICATION FairSpec
CONSTANTS
    Requests = {r1, r2}
    Projects = {p1, p2}
    Prints = {f1, f2}
    None = None
    MaxSize = 1
    MaxServices = 2
INVARIANTS OneCreation CacheServesLive NothingLost
PROPERTIES OverfullOnlyWhenBusy ShutdownsEnd
