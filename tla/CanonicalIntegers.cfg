CONSTANTS
    MaxValue = 127
    BufferSize = 4
    maxStringLength = 3
SPECIFICATION Spec
CHECK_DEADLOCK FALSE
INVARIANTS
    AcceptsCanonicalOnly
