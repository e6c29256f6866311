SPECIFICATION Spec
CONSTANTS
    None = None
    Requests = {r1, r2}
    Dests <- MCDests
    Configs <- MCConfigs
    MaxHops = 1
SYMMETRY Symmetry
INVARIANTS
    WireIsAsAsked
    HeadersFitTheRoute
    ConnectIsBounded
