\* Two threads share a client, with or without timeouts and panics.
SPECIFICATION FairSpec
CONSTANTS
    Callers = {p1, p2}
    Creators = {p1}
    Streamers = {p1}
    MaxCalls = 1
    MaxChunks = 1
INVARIANTS
    RuntimeOutlivesUsers
    PanicsOnlyAfterPanic
    AnswerBeatsTimeout
    CompleteOrAborted
PROPERTIES
    EverythingEnds
