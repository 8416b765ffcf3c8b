------------------------------ MODULE Turnstile ------------------------------
(***************************************************************************)
(* The turnstiles of sys/kern/kern_turnstile.c: how LWPs lend the one they *)
(* own to a lock while they sleep on it, and how they lend their priority  *)
(* to the owner of the lock and on along the blocking chain.               *)
(*                                                                         *)
(* The locks are those the callers of turnstile_block and turnstile_wakeup *)
(* in kern_rwlock.c and kern_mutex.c keep: an owner, or a set of readers.  *)
(* Each lock hashes to a chain of its own, so a chain lock is the lock's.  *)
(* LWPs take the locks in their order, so they do not deadlock.            *)
(***************************************************************************)
EXTENDS FiniteSets, SleepQueue

CONSTANTS
    Lwp,        \* the LWPs
    TS,         \* the turnstiles, one for each LWP
    MaxLock,    \* the locks are 1 .. MaxLock
    Queue,      \* the queues in use: "R" and "W", or "W" alone for mutexes
    PRI_COUNT,  \* the number of priorities
    Prio,       \* the priority of each LWP
    None        \* a null pointer

Lock == 1 .. MaxLock
NoPrio == -1

ASSUME TurnstileAssumption ==
    /\ IsFiniteSet(Lwp) /\ IsFiniteSet(TS)
    /\ Cardinality(TS) = Cardinality(Lwp)
    /\ None \notin Lwp \cup TS \cup Lock
    /\ MaxLock \in Nat
    /\ "W" \in Queue /\ Queue \subseteq {"R", "W"}
    /\ PRI_COUNT \in Nat /\ Prio \in [Lwp -> 0 .. PRI_COUNT - 1]

VARIABLES
    owner,      \* the LWP that owns the lock, as sobj_owner() reports it
    readers,    \* the LWPs that hold it for reading
    tc,         \* the LWP that holds the lock's chain lock, or None
    tsobj,      \* ts->ts_obj while the turnstile is on a chain
    tsfree,     \* ts->ts_free: the turnstiles of the other sleepers
    sleepq,     \* ts->ts_sleepq
    inheritor,  \* ts->ts_inheritor
    tseprio,    \* ts->ts_eprio
    lts,        \* l->l_ts
    wchan,      \* l->l_wchan: the lock it sleeps on
    lenders,    \* l->l_pi_lenders
    inherited,  \* l->l_inheritedprio
    pc,         \* where each LWP is
    at,         \* turnstile_lendpri: the LWP whose lock it holds
    prio        \* turnstile_lendpri: the priority to lend

tsvars == <<tsobj, tsfree, sleepq, lts, wchan>>
privars == <<inheritor, tseprio, lenders, inherited>>
vars == <<owner, readers, tc, tsvars, privars, pc, at, prio>>

Init == /\ owner = [o \in Lock |-> None]
        /\ readers = [o \in Lock |-> {}]
        /\ tc = [o \in Lock |-> None]
        /\ tsobj = [t \in TS |-> None]
        /\ tsfree = [t \in TS |-> <<>>]
        /\ sleepq = [t \in TS |-> [q \in Queue |-> <<>>]]
        /\ inheritor = [t \in TS |-> None]
        /\ tseprio = [t \in TS |-> NoPrio]
        /\ lts \in [Lwp -> TS]
        /\ \A t \in TS : \E l \in Lwp : lts[l] = t
        /\ \A k, l \in Lwp : lts[k] = lts[l] => k = l
        /\ wchan = [l \in Lwp |-> None]
        /\ lenders = [l \in Lwp |-> {}]
        /\ inherited = [l \in Lwp |-> NoPrio]
        /\ pc = [l \in Lwp |-> "run"]
        /\ at = [l \in Lwp |-> None]
        /\ prio = [l \in Lwp |-> NoPrio]

-----------------------------------------------------------------------------
Higher(a, b) == IF a > b THEN a ELSE b

\* lwp_eprio()
Eprio(l) == Higher(Prio[l], inherited[l])

\* turnstile_lookup(): the turnstile on the lock's chain, if there is one.
Active(o) == {t \in TS : tsobj[t] = o}
Waiters(t, q) == Len(sleepq[t][q])
AllWaiters(t) == Members(sleepq[t]["W"]) \cup
                 IF "R" \in Queue THEN Members(sleepq[t]["R"]) ELSE {}
Sleepers(o, q) ==
    IF q \in Queue THEN UNION {Members(sleepq[t][q]) : t \in Active(o)} ELSE {}

-----------------------------------------------------------------------------
(* What the locks do without their turnstile                               *)

Holds(l, o) == owner[o] = l \/ l \in readers[o]

\* Whether l has to wait for the lock.
MustWait(l, o, q) ==
    \/ owner[o] # None
    \/ q = "W" /\ readers[o] # {}
    \/ q = "R" /\ Sleepers(o, "W") # {}

\* l, which holds nothing after lock o in the order, asks for it.
MayAsk(l, o) == pc[l] = "run" /\ \A p \in Lock : Holds(l, p) => p < o

Take(l, o, q) ==
    /\ MayAsk(l, o)
    /\ ~MustWait(l, o, q)
    /\ IF q = "W" THEN owner' = [owner EXCEPT ![o] = l] /\ UNCHANGED readers
       ELSE readers' = [readers EXCEPT ![o] = @ \cup {l}] /\ UNCHANGED owner
    /\ UNCHANGED <<tc, tsvars, privars, pc, at, prio>>

\* The release of a lock nobody sleeps on, or that others still read.
Drop(l, o) ==
    /\ pc[l] = "run" /\ Holds(l, o)
    /\ \/ Active(o) = {} \/ readers[o] \ {l} # {}
    /\ owner' = [owner EXCEPT ![o] = None]
    /\ readers' = [readers EXCEPT ![o] = @ \ {l}]
    /\ UNCHANGED <<tc, tsvars, privars, pc, at, prio>>

\* rw_tryupgrade
Upgrade(l, o) ==
    /\ pc[l] = "run" /\ readers[o] = {l}
    /\ owner' = [owner EXCEPT ![o] = l]
    /\ readers' = [readers EXCEPT ![o] = {}]
    /\ UNCHANGED <<tc, tsvars, privars, pc, at, prio>>

-----------------------------------------------------------------------------
(* turnstile_block                                                         *)

\* The free list of turnstile ts when l begins to use it.
\* (The variant forgets l's own turnstile.)
FreeListSame(l, ts) == tsfree[ts]
FreeList(l, ts) == IF ts = lts[l] THEN <<>> ELSE <<lts[l]>> \o tsfree[ts]

\* Lend the turnstile to the lock, or put it on the free list of the one the
\* lock has; onto the queue; then go and lend the priority.
Block(l, o, q) ==
    /\ MayAsk(l, o) /\ MustWait(l, o, q)
    /\ tc[o] = None
    /\ tc' = [tc EXCEPT ![o] = l]
    /\ LET first == Active(o) = {}
           ts == IF first THEN lts[l] ELSE CHOOSE t \in Active(o) : TRUE
       IN  /\ tsobj' = [tsobj EXCEPT ![ts] = o]
           /\ inheritor' = [inheritor EXCEPT ![ts] = IF first THEN None ELSE @]
           /\ tsfree' = [tsfree EXCEPT ![ts] = FreeList(l, ts)]
           /\ lts' = [lts EXCEPT ![l] = ts]
           /\ sleepq' = [sleepq EXCEPT ![ts][q] = Insert(@, l, [k \in Lwp |-> Eprio(k)])]
    /\ wchan' = [wchan EXCEPT ![l] = o]
    /\ pc' = [pc EXCEPT ![l] = "lend"]
    /\ at' = [at EXCEPT ![l] = l]
    /\ prio' = [prio EXCEPT ![l] = Eprio(l)]
    /\ UNCHANGED <<owner, readers, tseprio, lenders, inherited>>

-----------------------------------------------------------------------------
(* turnstile_lendpri.  LWP "cur" holds the lock of LWP l = at[cur], which  *)
(* is the chain lock of the lock that l sleeps on.                         *)

OwnerOf(l) == IF wchan[l] = None THEN None ELSE owner[wchan[l]]

\* There is an owner to lend to, and it is not cur itself.
Lendable(cur) == OwnerOf(at[cur]) \notin {None, cur}

\* lwp_trylock(o).  The lock of a sleeper is the chain lock; any other LWP
\* has that of its CPU, which the scheduler holds now and then.
CanLock(o) == IF wchan[o] = None THEN TRUE ELSE tc[wchan[o]] = None
MayFail(o) == IF wchan[o] = None THEN TRUE ELSE tc[wchan[o]] # None

\* Nothing more to lend: sleepq_block(), which returns at once if cur was
\* woken in the meantime.
LendDone(cur) ==
    LET l == at[cur] IN
    /\ pc[cur] = "lend"
    /\ Lendable(cur) => CanLock(OwnerOf(l)) /\ prio[cur] <= Eprio(OwnerOf(l))
    /\ tc' = [tc EXCEPT ![wchan[l]] = None]
    /\ pc' = [pc EXCEPT ![cur] = IF wchan[cur] = None THEN "run" ELSE "sleep"]
    /\ at' = [at EXCEPT ![cur] = None]
    /\ prio' = [prio EXCEPT ![cur] = NoPrio]
    /\ UNCHANGED <<owner, readers, tsvars, privars>>

\* lwp_trylock(owner) fails: let go and start again from cur.
LendRestart(cur) ==
    LET l == at[cur] IN
    /\ pc[cur] = "lend"
    /\ Lendable(cur)
    /\ MayFail(OwnerOf(l))
    /\ tc' = [tc EXCEPT ![wchan[l]] = None]
    /\ pc' = [pc EXCEPT ![cur] = "restart"]
    /\ at' = [at EXCEPT ![cur] = cur]
    /\ prio' = [prio EXCEPT ![cur] = NoPrio]
    /\ UNCHANGED <<owner, readers, tsvars, privars>>

\* lwp_lock(cur): the chain lock again, unless cur was woken.
Relock(cur) ==
    /\ pc[cur] = "restart"
    /\ \/ /\ wchan[cur] = None
          /\ pc' = [pc EXCEPT ![cur] = "run"]
          /\ at' = [at EXCEPT ![cur] = None]
          /\ UNCHANGED <<tc, prio>>
       \/ /\ wchan[cur] # None
          /\ tc[wchan[cur]] = None
          /\ tc' = [tc EXCEPT ![wchan[cur]] = cur]
          /\ pc' = [pc EXCEPT ![cur] = "lend"]
          /\ prio' = [prio EXCEPT ![cur] = Eprio(cur)]
          /\ UNCHANGED at
    /\ UNCHANGED <<owner, readers, tsvars, privars>>

\* lwp_lendpri(o, p): a sleeper moves in its queue.  (sleepq_lendpri)
LendPri(o, p) ==
    LET eprio == [k \in Lwp |-> IF k = o THEN Higher(Prio[o], p) ELSE Eprio(k)] IN
    /\ inherited' = [inherited EXCEPT ![o] = p]
    /\ sleepq' = [t \in TS |-> [q \in Queue |->
                    IF o \in Members(sleepq[t][q])
                    THEN Reinsert(sleepq[t][q], o, eprio)
                    ELSE sleepq[t][q]]]

\* Lend the priority to the owner of the lock that l sleeps on, and go on
\* with the owner, or stop if it does not sleep itself.
Lend(cur) ==
    LET l == at[cur]
        o == OwnerOf(l)
        ts == lts[l]
    IN
    /\ pc[cur] = "lend"
    /\ Lendable(cur)
    /\ CanLock(o) /\ prio[cur] > Eprio(o)
    /\ IF inheritor[ts] = None \/ prio[cur] > tseprio[ts]
       THEN LET new == inheritor[ts] = None IN
            /\ inheritor' = [inheritor EXCEPT ![ts] = IF new THEN o ELSE @]
            /\ lenders' = [lenders EXCEPT ![o] = IF new THEN @ \cup {ts} ELSE @]
            /\ tseprio' = [tseprio EXCEPT ![ts] = prio[cur]]
            /\ LendPri(o, prio[cur])
       ELSE UNCHANGED <<privars, sleepq>>
    /\ IF wchan[o] # None
       THEN /\ tc' = [tc EXCEPT ![wchan[l]] = None, ![wchan[o]] = cur]
            /\ at' = [at EXCEPT ![cur] = o]
            /\ UNCHANGED <<pc, prio>>
       ELSE /\ tc' = [tc EXCEPT ![wchan[l]] = None]
            /\ at' = [at EXCEPT ![cur] = None]
            /\ pc' = [pc EXCEPT ![cur] =
                         IF wchan[cur] = None THEN "run" ELSE "sleep"]
            /\ prio' = [prio EXCEPT ![cur] = NoPrio]
    /\ UNCHANGED <<owner, readers, tsobj, tsfree, lts, wchan>>

-----------------------------------------------------------------------------
(* turnstile_wakeup, called with the lock's new state stored               *)

\* turnstile_unlendpri(): what is left is the highest of the other lenders.
\* (The variant forgets the other lenders.)
Highest(S) ==
    IF S = {} THEN NoPrio
    ELSE tseprio[CHOOSE t \in S : \A u \in S : tseprio[t] >= tseprio[u]]
RemainingNone(l, ts) == NoPrio
Remaining(l, ts) == Highest(lenders[l] \ {ts})

\* (The variant of Unlend forgets to clear the inheritor.)
UnlendKeep(l, ts) ==
    IF inheritor[ts] = None THEN UNCHANGED privars
    ELSE /\ lenders' = [lenders EXCEPT ![l] = @ \ {ts}]
         /\ inherited' = [inherited EXCEPT ![l] = Remaining(l, ts)]
         /\ UNCHANGED <<inheritor, tseprio>>
Unlend(l, ts) ==
    IF inheritor[ts] = None THEN UNCHANGED privars
    ELSE /\ inheritor' = [inheritor EXCEPT ![ts] = None]
         /\ tseprio' = [tseprio EXCEPT ![ts] = NoPrio]
         /\ lenders' = [lenders EXCEPT ![l] = @ \ {ts}]
         /\ inherited' = [inherited EXCEPT ![l] = Remaining(l, ts)]

\* The turnstile that LWP k, the i-th to be woken, goes away with: one of the
\* free list, or as the last sleeper the one it has.
Given(k, ts, i) == IF i <= Len(tsfree[ts]) THEN tsfree[ts][i] ELSE lts[k]

\* turnstile_remove() for the first n of queue q.
WakeFirst(l, ts, q, n) ==
    LET woken == SubSeq(sleepq[ts][q], 1, n)
        S == Members(woken)
        last == S = AllWaiters(ts)
        Index(k) == CHOOSE i \in 1 .. n : woken[i] = k
    IN  /\ Unlend(l, ts)
        /\ sleepq' = [sleepq EXCEPT ![ts][q] = SubSeq(@, n + 1, Len(@))]
        /\ lts' = [k \in Lwp |-> IF k \in S THEN Given(k, ts, Index(k))
                                 ELSE lts[k]]
        /\ tsfree' = [tsfree EXCEPT ![ts] = SubSeq(@, n + 1, Len(@))]
        /\ tsobj' = [tsobj EXCEPT ![ts] = IF last THEN None ELSE @]
        /\ wchan' = [k \in Lwp |-> IF k \in S THEN None ELSE wchan[k]]
        /\ pc' = [k \in Lwp |-> IF k \in S /\ pc[k] = "sleep" THEN "run"
                                ELSE pc[k]]

\* l, the owner or the only reader, gives the lock up: to the first writer if
\* readers wait too, to nobody with all writers woken, or to all readers.
\* The last is also what rw_downgrade does, keeping a read hold.
Wakeup(l, o) ==
    /\ pc[l] = "run"
    /\ owner[o] = l \/ readers[o] = {l}
    /\ tc[o] = None
    /\ \E ts \in Active(o) :
       \/ /\ Sleepers(o, "R") # {} /\ Sleepers(o, "W") # {}
          /\ readers[o] = {l}
          /\ owner' = [owner EXCEPT ![o] = Head(sleepq[ts]["W"])]
          /\ readers' = [readers EXCEPT ![o] = {}]
          /\ WakeFirst(l, ts, "W", 1)
       \/ /\ Sleepers(o, "R") = {}
          /\ owner' = [owner EXCEPT ![o] = None]
          /\ readers' = [readers EXCEPT ![o] = {}]
          /\ WakeFirst(l, ts, "W", Waiters(ts, "W"))
       \/ /\ Sleepers(o, "R") # {} /\ owner[o] = l
          /\ owner' = [owner EXCEPT ![o] = None]
          /\ \E kept \in {{}, {l}} :
                readers' = [readers EXCEPT ![o] = Sleepers(o, "R") \cup kept]
          /\ WakeFirst(l, ts, "R", Waiters(ts, "R"))
    /\ UNCHANGED <<tc, at, prio>>

\* rw_downgrade with no reader asleep leaves the turnstile alone.
Downgrade(l, o) ==
    /\ pc[l] = "run" /\ owner[o] = l
    /\ "R" \in Queue /\ Sleepers(o, "R") = {}
    /\ tc[o] = None
    /\ owner' = [owner EXCEPT ![o] = None]
    /\ readers' = [readers EXCEPT ![o] = {l}]
    /\ UNCHANGED <<tc, tsvars, privars, pc, at, prio>>

-----------------------------------------------------------------------------
Next ==
    \E l \in Lwp :
        \/ \E o \in Lock :
              \/ \E q \in Queue : Take(l, o, q) \/ Block(l, o, q)
              \/ Drop(l, o) \/ Upgrade(l, o) \/ Downgrade(l, o)
              \/ Wakeup(l, o)
        \/ LendDone(l) \/ LendRestart(l) \/ Relock(l) \/ Lend(l)

Spec == Init /\ [][Next]_vars

-----------------------------------------------------------------------------
(* Properties                                                              *)

\* No turnstile is lost or used twice: an LWP that does not sleep has one of
\* its own, every lock with sleepers has exactly one, shared by them all, and
\* the free list holds one for each sleeper but the last.  This is what the
\* KASSERTs of turnstile_remove and turnstile_block are about.
TurnstilesConserved ==
    LET awake == {l \in Lwp : wchan[l] = None} IN
    /\ \A l \in awake : /\ tsobj[lts[l]] = None /\ tsfree[lts[l]] = <<>>
                        /\ \A k \in Lwp \ {l} : lts[k] # lts[l]
    /\ \A o \in Lock :
          LET S == {l \in Lwp : wchan[l] = o} IN
          /\ Cardinality(Active(o)) = IF S = {} THEN 0 ELSE 1
          /\ \A t \in Active(o) :
                /\ AllWaiters(t) = S /\ \A l \in S : lts[l] = t
                /\ Len(tsfree[t]) = Cardinality(S) - 1
    /\ (UNION {Members(tsfree[t]) : t \in TS}) \cup {lts[l] : l \in Lwp} = TS

\* KASSERT(ts->ts_inheritor == curlwp || ts->ts_inheritor == NULL) and its
\* twin in turnstile_lendpri: through wake-ups, hand-offs, downgrades and
\* upgrades, whoever was lent a priority by a lock's sleepers is still the
\* one that will wake them.
InheritorIsOwner ==
    \A t \in TS : inheritor[t] # None =>
        /\ tsobj[t] # None
        /\ \/ owner[tsobj[t]] = inheritor[t]
           \/ readers[tsobj[t]] = {inheritor[t]}

\* An LWP runs at the highest priority that was lent to it and not yet taken
\* back, whatever the order of the loans and returns.
InheritedIsHighest ==
    \A l \in Lwp :
        /\ lenders[l] = {t \in TS : inheritor[t] = l}
        /\ inherited[l] = Highest(lenders[l])

\* "lend our priority to him to avoid priority inversions": when nobody is
\* busy lending, no LWP sleeps on a lock whose owner has a lower priority.
NoInversion ==
    (\A l \in Lwp : pc[l] \in {"run", "sleep"}) =>
        \A l \in Lwp : wchan[l] # None /\ OwnerOf(l) # None =>
            Eprio(OwnerOf(l)) >= Eprio(l)
=============================================================================
