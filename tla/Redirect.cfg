SPECIFICATION Spec
CONSTANTS
    None = None
    Requests = {r1, r2}
    Urls <- MCUrls
    Limit = 1
    SendReferer = TRUE
    MaxHops = 2
SYMMETRY Symmetry
INVARIANTS
    ChainIsAllowed
    ChainIsRemembered
    CookiesAreFresh
