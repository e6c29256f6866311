\* Three requests are enough for a leader, a waiter and a latecomer; two keys
\* let one key's attempt interfere with another's if it could.
SPECIFICATION MCSpec
CONSTANTS
    Requests = {r1, r2, r3}
    Keys = {k1, k2}
    None = None
    HasIdleTimeout = TRUE
PROPERTIES
    ReuseIsStable
    ImplementsSingleFlight
    EveryRequestSettles
