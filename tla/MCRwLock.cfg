SPECIFICATION FairSpec
CONSTANTS
    None = None
    Lwp = {l1, l2, l3}
INVARIANTS
    Exclusion
    HandoffAsserts
    NoOrphanedWaiter
PROPERTIES
    IsReadersWriter
    
    SleepingWritersAreWoken
