\* A run started while shutdown() waits for another, and one more after it.
SPECIFICATION Spec
CONSTANTS
    Sessions = {s1}
    Tasks = {t1, t2, t3}
    None = None
    MaxContinuations = 1
    QueueCap = 1
    TTL = 1
    MaxEvents = 1
    MaxInserts <- NoInserts
    MaxTime = 0
SYMMETRY SessionsAndTasks
INVARIANT OneRunPerSession
