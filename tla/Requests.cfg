SPECIFICATION Spec
CONSTANTS
    None = None
    MaxCalls = 3
    Pairings <- MCPairings
    Defaults <- MCDefaults
INVARIANTS
    FirstErrorWins
    LengthIsOfTheBody
    CloneIsEqual
    BuildersAgree
