SPECIFICATION MCSpec
CONSTANTS
    None = None
    Lwp = {l1, l2, l3}
    Producer = {p1, p2}
    nitems = 3
    Width = 2
    MaxItem = 4
    Null = Null
    Cpu = {1, 2, 3}
    IPI_MSG_MAX = 1
    MaxSend = 3
    NoMsg = NoMsg
INVARIANTS
    MutualExclusion
    NoLostWaiter
    AnsweredOnce
PROPERTIES
    SleeperIsWoken
    IsFifo
    ItemsArrive
    WaitReturns
