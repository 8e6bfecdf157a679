\* Two workers, four pages, two levels.  A thread may wait for its own lock.
SPECIFICATION Spec
CONSTANTS
    a = a
    b = b
    c = c
    d = d
    Pages <- ThePages
    Base = a
    Links <- TheLinks
    Files <- TheFiles
    MaxDepth = 2
    Workers = {w1, w2}
    Caller = caller
    None = None
CHECK_DEADLOCK FALSE
INVARIANTS PagesSound WaitEndsComplete CrawlClosed SiteCovered
PROPERTY ReturnsUnlessStuck
