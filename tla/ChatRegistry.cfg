\* Two runs of one session, or of two sessions, with stop, shutdown and a clock.
SPECIFICATION Spec
CONSTANTS
    Sessions = {s1, s2}
    Tasks = {t1, t2}
    None = None
    MaxContinuations = 1
    QueueCap = 1
    TTL = 1
    MaxEvents = 2
    MaxInserts <- NoInserts
    MaxTime = 2
SYMMETRY SessionsAndTasks
INVARIANTS RegistrySound KeptUntilPurged
PROPERTY ImplementsLog
