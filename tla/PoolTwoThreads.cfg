CONSTANTS
    Threads = {t1, t2}
    Cells = {c1, c2, c3}
    Nobody = nobody
    MaxAcquired = 3
SPECIFICATION Spec
INVARIANTS
    FreeCellsListedOnce
    NoFreeCellLost
    NoContainerOutlivesItsOwner
    CountersAccountForCells
    SnapshotShowsAcquires
PROPERTIES
    ImplementsAllocator
    ReleasesEnd
CHECK_DEADLOCK FALSE
