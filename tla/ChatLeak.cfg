\* A run cancelled before its first step.
SPECIFICATION Spec
CONSTANTS
    Sessions = {s1}
    Tasks = {t1, t2}
    None = None
    MaxContinuations = 1
    QueueCap = 1
    TTL = 1
    MaxEvents = 1
    MaxInserts <- NoInserts
    MaxTime = 0
INVARIANT ActiveMeansRunning
