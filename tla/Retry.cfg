\* Two requests with a redirect each; two hosts and room for one budget, so
\* the map is reset while a budget that was looked up is still to be used.
SPECIFICATION FairSpec
CONSTANTS
    Requests = {r1, r2}
    Hosts = {h1, h2}
    MaxRetries = 2
    MaxHosts = 1
    Reserve = 1
    DepositAmount = 1
    WithdrawAmount = 2
    RetryTransient = TRUE
    MaxHops = 1
INVARIANTS
    SharedLimit
    AmplificationBound
    BudgetIsOwnHosts
PROPERTIES
    EveryCallEnds
