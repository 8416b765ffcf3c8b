SPECIFICATION MCSpec
CONSTANTS
    Cpu = {c1, c2, c3}
    Lwp = {l1, l2}
    MaxCalls = 3
INVARIANTS
    CallsAreTakenOnce
    FetchIsSafe
    HighWaitMeansDone
PROPERTIES
    AllCallersReturn
CHECK_DEADLOCK FALSE
