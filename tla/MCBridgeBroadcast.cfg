SPECIFICATION BroadcastSpec
CONSTANTS
    c1 = c1
    c2 = c2
    m1 = m1
    m2 = m2
    l1 = l1
    l2 = l2
    l3 = l3
    iflist = iflist
    Null = Null
    Psz = {iflist}
    Cpu = {c1, c2}
    Member = {m1, m2}
    Lwp = {l1, l2, l3}
INVARIANT AcquireMeetsLive
