CONSTANTS
    Bytes = {0, 255}
    MaxLength = 3
    ReadErrors = TRUE
    Chunks <- MCChunks
    Texts <- MCTexts
    Chunk = 2
    Capacity = 4
    MaxAdded = 5
SPECIFICATION FilesSpec
INVARIANTS
    FileHoldsWritten
PROPERTIES
    ReadsAllOrThrows
    ImplementsSource
    ImplementsDestination
    CallsEnd
