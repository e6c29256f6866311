SPECIFICATION Spec
CONSTANTS
    None = None
    Sources <- MCSources
    BufferSize = 5
INVARIANTS
    FormLengthIsExact
    ResultIsTrue
PROPERTIES
    ImplementsDelivery
    EverySendEnds
