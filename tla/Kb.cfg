\* Three components with two item events each, or one run over documents.
SPECIFICATION FairSpec
CONSTANTS
    Requests = {"kb", "docs"}
    Components = 3
    MaxItems = 2
INVARIANTS StreamSound CancelledKeepsData
PROPERTY StreamEnds
