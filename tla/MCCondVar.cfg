SPECIFICATION FairSpec
CONSTANTS
    Taker = {t1, t2}
    Giver = {g1}
    Prio = {1, 2}
    MaxAvail = 2
    None = None
INVARIANTS
    NoLostWakeup
PROPERTIES
    PlainWaitNeedsWaker
    WakeupsArrive
