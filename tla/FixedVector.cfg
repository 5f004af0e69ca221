CONSTANTS
    Capacity = 3
    Entries = {e1, e2, e3, e4, e5}
    Blank = blank
    Hollow = hollow
SPECIFICATION Spec
INVARIANTS
    EntriesOwnedOnce
PROPERTIES
    ImplementsSequence
