SPECIFICATION FairSpec
CONSTANTS
    None = None
    MaxChunks = 2
INVARIANTS
    GuardIsKept
PROPERTIES
    FetchEnds
\* A fetch that is over stops.
CHECK_DEADLOCK FALSE
