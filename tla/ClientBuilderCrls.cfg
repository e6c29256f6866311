SPECIFICATION Spec
CONSTANTS
    None = None
    Builds <- MCBuilds
    Tried <- MCTried
    Proxies = {p1, p2}
    Roots = {root}
    Crls = {crl}
    Domains = {domain}
    Addrs = {addr}
    BadRoot = bad
    BadCrl = badcrl
    MaxCalls = 2
SYMMETRY Symmetry
\* A builder that has built is used up: the state is final.
CHECK_DEADLOCK FALSE
INVARIANTS
    CrlsNeedCertsOnly
