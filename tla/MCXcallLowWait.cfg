SPECIFICATION Spec
CONSTANTS
    Cpu = {c1, c2}
    Lwp = {l1, l2}
    MaxCalls = 2
INVARIANT
    WaitMeansDone
CHECK_DEADLOCK FALSE
