SPECIFICATION CalloutSpec
CONSTANTS
    Null = Null
    cpu0 = cpu0
    Cpu = {cpu0, cpu1}
    Callout = {o1}
    Lwp = {l1, l2}
    WHEELBITS = 1
    Timer = {t1}
    Delay = {0, 1, 2, 3, 4, 5, 6, 7}
    MaxLag = 2
    Queue = {q1, q2}
    Work = {w1, w2, w3}
    wqe = wqe
    Nil = Nil
INVARIANT HaltedIsDone
