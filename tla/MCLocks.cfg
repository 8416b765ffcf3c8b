SPECIFICATION MCSpec
CONSTANTS
    None = None
    Lwp = {1, 2, 3, 4}
    TS = {t1, t2, t3, t4}
    MaxLock = 2
    Queue = {"R", "W"}
    PRI_COUNT = 5
    Prio <- MCPrio
    Cpu = {c1, c2}
    MaxIpl = 3
    MaxMutex = 2
    Ipl <- MCIpl
    MaxHold = 2
    NoLwp = NoLwp
    NoCpu = NoCpu
    Hand = {h1, h2}
    Rcpu = {h1}
    NoHand = NoHand
SYMMETRY Symmetry
INVARIANTS
    TurnstilesConserved
    InheritorIsOwner
    InheritedIsHighest
    HeldIsProtected
    NeverAgainstMyself
    LevelIsRestored
    HoldsAgree
    SpinsForAnother
    NeverForgotten
    ClearedIsIdle
