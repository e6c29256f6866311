\* Lengths on both sides of the body's; no peer or body owes an end.
SPECIFICATION FairSpec
CONSTANTS
    None = None
    AddressLists <- MCAddressLists
    BodySet <- MCBodySet
    MaxChunks = 2
INVARIANTS
    FinishedIsWhole
    FailureHasACause
PROPERTIES
    ReportIsHeard
    ExchangeEnds
\* An exchange that is over stops.
CHECK_DEADLOCK FALSE
