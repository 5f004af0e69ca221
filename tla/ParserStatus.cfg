CONSTANTS
    Exceptions = FALSE
    DynamicAllocation = FALSE
    MaxContainerSize = 2
    DepthLimits = {0, 3}
    LengthLimits = {1}
    Integers = {7}
    Strings = {0, 1, 2}
    Endings = {}
    MaxLexemes = 5
    LaterLexemes = 5
    MaxCalls = 2
SPECIFICATION Spec
INVARIANTS
    FailureKeepsRoot
    DefensiveChecksSilent
PROPERTIES
    IterationProgress
    ParseEnds
