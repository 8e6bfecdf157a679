\* A run that lasts longer than the time its events are kept.
SPECIFICATION Spec
CONSTANTS
    Sessions = {s1}
    Tasks = {t1}
    None = None
    MaxContinuations = 1
    QueueCap = 1
    TTL = 1
    MaxEvents = 1
    MaxInserts <- NoInserts
    MaxTime = 2
INVARIANT ResumableAfterCompletion
