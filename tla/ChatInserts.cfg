\* Two runs, of one session or of two, with inserts into one of them that race its
\* passes, stops, the continuation cap and a shutdown.
SPECIFICATION FairSpec
CONSTANTS
    Sessions = {s1, s2}
    Tasks = {t1, t2}
    None = None
    MaxContinuations = 1
    QueueCap = 2
    TTL = 1
    MaxEvents = 1
    MaxInserts <- InsertsIntoOne
    MaxTime = 0
INVARIANTS InsertsInOrder CompletedStrandsNothing
PROPERTIES StopTakesEffect ShutdownReturns
