CONSTANTS
    Exceptions = FALSE
    DynamicAllocation = FALSE
    MaxContainerSize = 2
    DepthLimits = {3}
    LengthLimits = {1}
    Integers = {7}
    Strings = {0, 1}
    Endings = {}
    MaxLexemes = 5
    LaterLexemes = 5
    MaxCalls = 1
SPECIFICATION Spec
INVARIANTS
    NothingThrown
