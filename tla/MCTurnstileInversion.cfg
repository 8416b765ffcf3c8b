SPECIFICATION Spec
CONSTANTS
    None = None
    Lwp = {1, 2, 3}
    TS = {t1, t2, t3}
    MaxLock = 2
    Queue = {"W"}
    PRI_COUNT = 5
    Prio <- MCPrio
SYMMETRY AnyTurnstile
INVARIANT
    NoInversion
