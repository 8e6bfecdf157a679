\* Two clients of a run that streams thinking deltas; buffers of up to eight
\* events coalesced.
SPECIFICATION FairSpec
CONSTANTS
    Clients = {c1, c2}
    Messages = {m1}
    Whole = Whole
    Resumes = {"auto", "next"}
    Window = 1
    MaxEvents = 2
    MaxConnects = 2
    MaxBuffer = 6
INVARIANTS ConnectionsSound EndsComplete CoalesceTilesTheBuffer
PROPERTY StreamEnds
