CONSTANTS
    DynamicAllocation = TRUE
    MaxContainerSize = 2
    Keys = {1, 2}
    Integers = {7}
    Strings = {}
    LargestIndex = 2
    Indices <- MCIndices
    Scalars <- MCScalars
    ListInitializers <- MCListInitializers
    DictionaryInitializers <- MCDictionaryInitializers
    MaxSubscripts = 2
    Depths <- MCDepths
    Limits <- MCLimits
SPECIFICATION Spec
INVARIANT StringifyWritesBencode
