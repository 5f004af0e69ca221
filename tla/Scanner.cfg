CONSTANTS
    MaxValue = 127
    BufferSize = 4
    maxStringLength = 3
SPECIFICATION Spec
CHECK_DEADLOCK FALSE
INVARIANTS
    TypeOK
    NoWrap
    ValueIsMeaning
    RefusalsJustified
    WritesBack
    PayloadFits
PROPERTIES
    ScanEnds
