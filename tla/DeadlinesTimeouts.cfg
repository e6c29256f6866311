\* Each request has a total timeout, a read timeout, both or neither; polls
\* are prompt or late by any time.  Delays on both sides of the timeouts.
SPECIFICATION FairSpec
CONSTANTS
    None = None
    TotalTimeouts = {None, 3}
    ReadTimeouts = {None, 2}
    Delays = {0, 1, 2}
    MaxRetries = 2
    MaxHops = 1
    MaxFrames = 2
    MaxTime = 5
INVARIANTS
    EndsByTotalTimeout
    ReadTimeoutMeansStalled
PROPERTIES
    NothingAfterDeadline
    WaitsEnd
