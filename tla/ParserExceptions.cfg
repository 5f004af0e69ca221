CONSTANTS
    Exceptions = TRUE
    DynamicAllocation = FALSE
    MaxContainerSize = 3
    DepthLimits = {0, 1, 4}
    LengthLimits = {0, 1}
    Integers = {7}
    Strings = {0, 1, 2}
    Endings <- MCEndings
    MaxLexemes = 7
    LaterLexemes = 3
    MaxCalls = 2
SPECIFICATION Spec
INVARIANTS
    OpenKeysOrdered
    RoundTrip
PROPERTIES
    ImplementsContract
