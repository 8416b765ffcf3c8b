---------------------------- MODULE MutexProofs -----------------------------
(***************************************************************************)
(* Proofs about adaptive mutexes for any finite set of LWPs: type          *)
(* correctness, MutualExclusion and NoLostWaiter, from one inductive       *)
(* invariant.  It spells out the argument of the long comment in           *)
(* mutex_vector_enter.  Then proofs about the kernel lock, which           *)
(* mutex_oncpu looks at, for any CPUs and any bound on the holds.          *)
(***************************************************************************)
EXTENDS Mutex, KernelLock, TLAPS

-----------------------------------------------------------------------------
(* The inductive invariant.                                                *)

\* The chain lock has one holder, and the turnstile holds the sleepers.
QueueInv ==
    /\ \A l \in Lwp : pc[l] \in {"mark", "running", "waiters", "block",
                                 "xrelease", "xwakeup"} <=> tc = l
    /\ \A l \in Lwp : l \in ts <=> pc[l] = "sleep"

\* The waiters bit is set and will be seen: its owner did not test for it
\* before it was set.
BitIsSafe == mtx.waiters /\ \A l \in Lwp : pc[l] # "store"

\* What the checks of mutex_vector_enter know, one after the other.
\* Once the bit is set, it is either lost or still that of the owner that
\* the compare-and-swap saw (no other LWP can set it); an owner on its way to
\* the unlocked store is running; so with the owner found not running, the
\* bit is lost or safe; and found set, it is safe.
CheckInv(l) ==
    /\ pc[l] = "mark" => owner[l].own \in Lwp
    /\ pc[l] = "lookup" => owner[l].own \in Lwp
    /\ pc[l] = "running" => /\ owner[l].own \in Lwp
                            /\ mtx.waiters => mtx.own = owner[l].own
    /\ pc[l] = "waiters" => (mtx.waiters => BitIsSafe)
    /\ pc[l] = "block" => BitIsSafe
    /\ pc[l] = "store" => oncpu[l]

IInv == /\ TypeOK
        /\ MutualExclusion
        /\ QueueInv
        /\ mtx.waiters => mtx.own # None
        /\ \A l \in Lwp : CheckInv(l)
        /\ NoLostWaiter

-----------------------------------------------------------------------------
(* Each step preserves it.                                                 *)

USE LwpAssumption DEF Labels, At, Goto, Retry, Word, Free

\* mutex_init leaves the mutex in a state of the invariant.
LEMMA InitIInv == Init => IInv
BY DEF Init, IInv, TypeOK, MutualExclusion, Holds, QueueInv, CheckInv,
   BitIsSafe, NoLostWaiter

\* Entering changes nothing that is shared.
LEMMA EnterPreserves ==
    ASSUME IInv, NEW l \in Lwp, Enter(l)
    PROVE  IInv'
<1> USE DEF Enter
<1>1. TypeOK'
  BY DEF IInv, TypeOK
<1>2. MutualExclusion'
  BY DEF IInv, TypeOK, MutualExclusion, Holds
<1>3. QueueInv'
  BY DEF IInv, TypeOK, QueueInv
<1>4. (mtx.waiters => mtx.own # None)'
  BY DEF IInv, TypeOK, CheckInv
<1>5. ASSUME NEW k \in Lwp PROVE CheckInv(k)'
  BY DEF IInv, TypeOK, MutualExclusion, Holds, QueueInv, CheckInv, BitIsSafe
<1>6. NoLostWaiter'
  BY DEF IInv, TypeOK, QueueInv, CheckInv, BitIsSafe, NoLostWaiter
<1> QED BY <1>1, <1>2, <1>3, <1>4, <1>5, <1>6 DEF IInv

\* The reload of the word into the local copy.
LEMMA ReloadPreserves ==
    ASSUME IInv, NEW l \in Lwp, Reload(l)
    PROVE  IInv'
<1> USE DEF Reload
<1>1. TypeOK'
  BY DEF IInv, TypeOK
<1>2. MutualExclusion'
  BY DEF IInv, TypeOK, MutualExclusion, Holds
<1>3. QueueInv'
  BY DEF IInv, TypeOK, QueueInv
<1>4. (mtx.waiters => mtx.own # None)'
  BY DEF IInv, TypeOK, CheckInv
<1>5. ASSUME NEW k \in Lwp PROVE CheckInv(k)'
  BY DEF IInv, TypeOK, MutualExclusion, Holds, QueueInv, CheckInv, BitIsSafe
<1>6. NoLostWaiter'
  BY DEF IInv, TypeOK, QueueInv, CheckInv, BitIsSafe, NoLostWaiter
<1> QED BY <1>1, <1>2, <1>3, <1>4, <1>5, <1>6 DEF IInv

\* The compare-and-swap from zero, successful or not.
LEMMA AcquirePreserves ==
    ASSUME IInv, NEW l \in Lwp, Acquire(l)
    PROVE  IInv'
<1> USE DEF Acquire
<1>1. TypeOK'
  <2>1. mtx' \in Word
    BY Zenon DEF IInv, TypeOK
  <2>2. owner' \in [Lwp -> Word]
    <3>1. owner' = owner \/ owner' = [owner EXCEPT ![l] = Free]
      OBVIOUS
    <3>2. Free \in Word
      OBVIOUS
    <3> HIDE DEF Free, Word
    <3> QED BY <3>1, <3>2 DEF IInv, TypeOK
  <2>3. /\ ts' \subseteq Lwp /\ tc' \in Lwp \cup {None}
        /\ pc' \in [Lwp -> Labels] /\ oncpu' \in [Lwp -> BOOLEAN]
    BY DEF IInv, TypeOK
  <2> QED BY <2>1, <2>2, <2>3 DEF TypeOK
<1>2. MutualExclusion'
  BY DEF IInv, TypeOK, MutualExclusion, Holds
<1>3. QueueInv'
  BY DEF IInv, TypeOK, QueueInv
<1>4. (mtx.waiters => mtx.own # None)'
  BY DEF IInv, TypeOK, CheckInv
<1>5. ASSUME NEW k \in Lwp PROVE CheckInv(k)'
  BY DEF IInv, TypeOK, MutualExclusion, Holds, QueueInv, CheckInv, BitIsSafe
<1>6. NoLostWaiter'
  BY DEF IInv, TypeOK, QueueInv, CheckInv, BitIsSafe, NoLostWaiter
<1> QED BY <1>1, <1>2, <1>3, <1>4, <1>5, <1>6 DEF IInv

\* The first on-CPU check of the owner.
LEMMA WaitPreserves ==
    ASSUME IInv, NEW l \in Lwp, Wait(l)
    PROVE  IInv'
<1> USE DEF Wait
<1>1. TypeOK'
  <2>1. mtx' \in Word
    BY DEF IInv, TypeOK
  <2>2. owner' \in [Lwp -> Word]
    <3>1. owner' = owner \/ owner' = [owner EXCEPT ![l] = Free]
      OBVIOUS
    <3>2. Free \in Word
      OBVIOUS
    <3> HIDE DEF Free, Word
    <3> QED BY <3>1, <3>2 DEF IInv, TypeOK
  <2>3. /\ ts' \subseteq Lwp /\ tc' \in Lwp \cup {None}
        /\ pc' \in [Lwp -> Labels] /\ oncpu' \in [Lwp -> BOOLEAN]
    BY DEF IInv, TypeOK
  <2> QED BY <2>1, <2>2, <2>3 DEF TypeOK
<1>2. MutualExclusion'
  BY DEF IInv, TypeOK, MutualExclusion, Holds
<1>3. QueueInv'
  BY DEF IInv, TypeOK, QueueInv
<1>4. (mtx.waiters => mtx.own # None)'
  BY DEF IInv, TypeOK, CheckInv
<1>5. ASSUME NEW k \in Lwp PROVE CheckInv(k)'
  BY DEF IInv, TypeOK, MutualExclusion, Holds, QueueInv, CheckInv, BitIsSafe
<1>6. NoLostWaiter'
  BY DEF IInv, TypeOK, QueueInv, CheckInv, BitIsSafe, NoLostWaiter
<1> QED BY <1>1, <1>2, <1>3, <1>4, <1>5, <1>6 DEF IInv

\* A turn of the spin loop.
LEMMA SpinPreserves ==
    ASSUME IInv, NEW l \in Lwp, Spin(l)
    PROVE  IInv'
<1> USE DEF Spin
<1>1. TypeOK'
  BY DEF IInv, TypeOK
<1>2. MutualExclusion'
  BY DEF IInv, TypeOK, MutualExclusion, Holds
<1>3. QueueInv'
  BY DEF IInv, TypeOK, QueueInv
<1>4. (mtx.waiters => mtx.own # None)'
  BY DEF IInv, TypeOK, CheckInv
<1>5. ASSUME NEW k \in Lwp PROVE CheckInv(k)'
  BY DEF IInv, TypeOK, MutualExclusion, Holds, QueueInv, CheckInv, BitIsSafe
<1>6. NoLostWaiter'
  BY DEF IInv, TypeOK, QueueInv, CheckInv, BitIsSafe, NoLostWaiter
<1> QED BY <1>1, <1>2, <1>3, <1>4, <1>5, <1>6 DEF IInv

\* turnstile_lookup takes the chain lock.
LEMMA LookupPreserves ==
    ASSUME IInv, NEW l \in Lwp, Lookup(l)
    PROVE  IInv'
<1> USE DEF Lookup
<1>1. TypeOK'
  BY DEF IInv, TypeOK
<1>2. MutualExclusion'
  BY DEF IInv, TypeOK, MutualExclusion, Holds
<1>3. QueueInv'
  BY DEF IInv, TypeOK, QueueInv
<1>4. (mtx.waiters => mtx.own # None)'
  BY DEF IInv, TypeOK, CheckInv
<1>5. ASSUME NEW k \in Lwp PROVE CheckInv(k)'
  BY DEF IInv, TypeOK, MutualExclusion, Holds, QueueInv, CheckInv, BitIsSafe
<1>6. NoLostWaiter'
  BY DEF IInv, TypeOK, QueueInv, CheckInv, BitIsSafe, NoLostWaiter
<1> QED BY <1>1, <1>2, <1>3, <1>4, <1>5, <1>6 DEF IInv

\* MUTEX_SET_WAITERS: from here on no other LWP can set the bit.
LEMMA SetWaitersPreserves ==
    ASSUME IInv, NEW l \in Lwp, SetWaiters(l)
    PROVE  IInv'
<1> USE DEF SetWaiters
<1>1. TypeOK'
  <2>1. mtx' \in Word
    BY Zenon DEF IInv, TypeOK
  <2>2. owner' \in [Lwp -> Word]
    <3>1. owner' = owner \/ owner' = [owner EXCEPT ![l] = Free]
      OBVIOUS
    <3>2. Free \in Word
      OBVIOUS
    <3> HIDE DEF Free, Word
    <3> QED BY <3>1, <3>2 DEF IInv, TypeOK
  <2>3. /\ ts' \subseteq Lwp /\ tc' \in Lwp \cup {None}
        /\ pc' \in [Lwp -> Labels] /\ oncpu' \in [Lwp -> BOOLEAN]
    BY DEF IInv, TypeOK
  <2> QED BY <2>1, <2>2, <2>3 DEF TypeOK
<1>2. MutualExclusion'
  BY DEF IInv, TypeOK, MutualExclusion, Holds
<1>3. QueueInv'
  BY DEF IInv, TypeOK, QueueInv
<1>4. (mtx.waiters => mtx.own # None)'
  BY DEF IInv, TypeOK, CheckInv
<1>5. ASSUME NEW k \in Lwp PROVE CheckInv(k)'
  BY DEF IInv, TypeOK, MutualExclusion, Holds, QueueInv, CheckInv, BitIsSafe
<1>6. NoLostWaiter'
  BY DEF IInv, TypeOK, QueueInv, CheckInv, BitIsSafe, NoLostWaiter
<1> QED BY <1>1, <1>2, <1>3, <1>4, <1>5, <1>6 DEF IInv

\* The second on-CPU check: an owner that does not run will see the bit.
LEMMA CheckRunningPreserves ==
    ASSUME IInv, NEW l \in Lwp, CheckRunning(l)
    PROVE  IInv'
<1> USE DEF CheckRunning, OnCpu
<1>1. TypeOK'
  <2>1. mtx' \in Word
    BY DEF IInv, TypeOK
  <2>2. owner' \in [Lwp -> Word]
    <3>1. owner' = owner \/ owner' = [owner EXCEPT ![l] = Free]
      OBVIOUS
    <3>2. Free \in Word
      OBVIOUS
    <3> HIDE DEF Free, Word
    <3> QED BY <3>1, <3>2 DEF IInv, TypeOK
  <2>3. /\ ts' \subseteq Lwp /\ tc' \in Lwp \cup {None}
        /\ pc' \in [Lwp -> Labels] /\ oncpu' \in [Lwp -> BOOLEAN]
    BY DEF IInv, TypeOK
  <2> QED BY <2>1, <2>2, <2>3 DEF TypeOK
<1>2. MutualExclusion'
  BY DEF IInv, TypeOK, MutualExclusion, Holds
<1>3. QueueInv'
  BY DEF IInv, TypeOK, QueueInv
<1>4. (mtx.waiters => mtx.own # None)'
  BY DEF IInv, TypeOK, CheckInv
<1>5. ASSUME NEW k \in Lwp PROVE CheckInv(k)'
  BY DEF IInv, TypeOK, MutualExclusion, Holds, QueueInv, CheckInv, BitIsSafe
<1>6. NoLostWaiter'
  BY DEF IInv, TypeOK, QueueInv, CheckInv, BitIsSafe, NoLostWaiter
<1> QED BY <1>1, <1>2, <1>3, <1>4, <1>5, <1>6 DEF IInv

\* The check of the bit: if it is set, it is safe to sleep.
LEMMA CheckWaitersPreserves ==
    ASSUME IInv, NEW l \in Lwp, CheckWaiters(l)
    PROVE  IInv'
<1> USE DEF CheckWaiters
<1>1. TypeOK'
  <2>1. mtx' \in Word
    BY DEF IInv, TypeOK
  <2>2. owner' \in [Lwp -> Word]
    <3>1. owner' = owner \/ owner' = [owner EXCEPT ![l] = Free]
      OBVIOUS
    <3>2. Free \in Word
      OBVIOUS
    <3> HIDE DEF Free, Word
    <3> QED BY <3>1, <3>2 DEF IInv, TypeOK
  <2>3. /\ ts' \subseteq Lwp /\ tc' \in Lwp \cup {None}
        /\ pc' \in [Lwp -> Labels] /\ oncpu' \in [Lwp -> BOOLEAN]
    BY DEF IInv, TypeOK
  <2> QED BY <2>1, <2>2, <2>3 DEF TypeOK
<1>2. MutualExclusion'
  BY DEF IInv, TypeOK, MutualExclusion, Holds
<1>3. QueueInv'
  BY DEF IInv, TypeOK, QueueInv
<1>4. (mtx.waiters => mtx.own # None)'
  BY DEF IInv, TypeOK, CheckInv
<1>5. ASSUME NEW k \in Lwp PROVE CheckInv(k)'
  BY DEF IInv, TypeOK, MutualExclusion, Holds, QueueInv, CheckInv, BitIsSafe
<1>6. NoLostWaiter'
  BY DEF IInv, TypeOK, QueueInv, CheckInv, BitIsSafe, NoLostWaiter
<1> QED BY <1>1, <1>2, <1>3, <1>4, <1>5, <1>6 DEF IInv

\* turnstile_block queues an LWP that may safely sleep.
LEMMA BlockPreserves ==
    ASSUME IInv, NEW l \in Lwp, Block(l)
    PROVE  IInv'
<1> USE DEF Block
<1>1. TypeOK'
  BY DEF IInv, TypeOK
<1>2. MutualExclusion'
  BY DEF IInv, TypeOK, MutualExclusion, Holds
<1>3. QueueInv'
  BY DEF IInv, TypeOK, QueueInv
<1>4. (mtx.waiters => mtx.own # None)'
  BY DEF IInv, TypeOK, CheckInv
<1>5. ASSUME NEW k \in Lwp PROVE CheckInv(k)'
  BY DEF IInv, TypeOK, MutualExclusion, Holds, QueueInv, CheckInv, BitIsSafe
<1>6. NoLostWaiter'
  BY DEF IInv, TypeOK, QueueInv, CheckInv, BitIsSafe, NoLostWaiter
<1> QED BY <1>1, <1>2, <1>3, <1>4, <1>5, <1>6 DEF IInv

\* mutex_tryenter.
LEMMA TryEnterPreserves ==
    ASSUME IInv, NEW l \in Lwp, TryEnter(l)
    PROVE  IInv'
<1> USE DEF TryEnter
<1>1. TypeOK'
  BY Zenon DEF IInv, TypeOK
<1>2. MutualExclusion'
  BY DEF IInv, TypeOK, MutualExclusion, Holds
<1>3. QueueInv'
  BY DEF IInv, TypeOK, QueueInv
<1>4. (mtx.waiters => mtx.own # None)'
  BY DEF IInv, TypeOK, CheckInv
<1>5. ASSUME NEW k \in Lwp PROVE CheckInv(k)'
  BY DEF IInv, TypeOK, MutualExclusion, Holds, QueueInv, CheckInv, BitIsSafe
<1>6. NoLostWaiter'
  BY DEF IInv, TypeOK, QueueInv, CheckInv, BitIsSafe, NoLostWaiter
<1> QED BY <1>1, <1>2, <1>3, <1>4, <1>5, <1>6 DEF IInv

\* mutex_exit tests for waiters.
LEMMA ExitPreserves ==
    ASSUME IInv, NEW l \in Lwp, Exit(l)
    PROVE  IInv'
<1> USE DEF Exit
<1>1. TypeOK'
  BY DEF IInv, TypeOK
<1>2. MutualExclusion'
  BY DEF IInv, TypeOK, MutualExclusion, Holds
<1>3. QueueInv'
  BY DEF IInv, TypeOK, QueueInv
<1>4. (mtx.waiters => mtx.own # None)'
  BY DEF IInv, TypeOK, CheckInv
<1>5. ASSUME NEW k \in Lwp PROVE CheckInv(k)'
  BY DEF IInv, TypeOK, MutualExclusion, Holds, QueueInv, CheckInv, BitIsSafe
<1>6. NoLostWaiter'
  BY DEF IInv, TypeOK, QueueInv, CheckInv, BitIsSafe, NoLostWaiter
<1> QED BY <1>1, <1>2, <1>3, <1>4, <1>5, <1>6 DEF IInv

\* The unlocked store of mutex_exit: it may lose a bit, but nobody sleeps yet.
LEMMA StorePreserves ==
    ASSUME IInv, NEW l \in Lwp, Store(l)
    PROVE  IInv'
<1> USE DEF Store
<1>1. TypeOK'
  BY DEF IInv, TypeOK
<1>2. MutualExclusion'
  BY DEF IInv, TypeOK, MutualExclusion, Holds
<1>3. QueueInv'
  BY DEF IInv, TypeOK, QueueInv
<1>4. (mtx.waiters => mtx.own # None)'
  BY DEF IInv, TypeOK, CheckInv
<1>5. ASSUME NEW k \in Lwp PROVE CheckInv(k)'
  BY DEF IInv, TypeOK, MutualExclusion, Holds, QueueInv, CheckInv, BitIsSafe
<1>6. NoLostWaiter'
  BY DEF IInv, TypeOK, QueueInv, CheckInv, BitIsSafe, NoLostWaiter
<1> QED BY <1>1, <1>2, <1>3, <1>4, <1>5, <1>6 DEF IInv

\* mutex_vector_exit takes the chain lock.
LEMMA ExitLookupPreserves ==
    ASSUME IInv, NEW l \in Lwp, ExitLookup(l)
    PROVE  IInv'
<1> USE DEF ExitLookup
<1>1. TypeOK'
  BY DEF IInv, TypeOK
<1>2. MutualExclusion'
  BY DEF IInv, TypeOK, MutualExclusion, Holds
<1>3. QueueInv'
  BY DEF IInv, TypeOK, QueueInv
<1>4. (mtx.waiters => mtx.own # None)'
  BY DEF IInv, TypeOK, CheckInv
<1>5. ASSUME NEW k \in Lwp PROVE CheckInv(k)'
  BY DEF IInv, TypeOK, MutualExclusion, Holds, QueueInv, CheckInv, BitIsSafe
<1>6. NoLostWaiter'
  BY DEF IInv, TypeOK, QueueInv, CheckInv, BitIsSafe, NoLostWaiter
<1> QED BY <1>1, <1>2, <1>3, <1>4, <1>5, <1>6 DEF IInv

\* mutex_vector_exit releases the mutex: the sleepers are woken next.
LEMMA ExitReleasePreserves ==
    ASSUME IInv, NEW l \in Lwp, ExitRelease(l)
    PROVE  IInv'
<1> USE DEF ExitRelease
<1>1. TypeOK'
  BY DEF IInv, TypeOK
<1>2. MutualExclusion'
  <2> SUFFICES ASSUME NEW k \in Lwp PROVE ~Holds(k)' /\ mtx'.own # k
    BY DEF MutualExclusion
  <2>1. mtx.own = l /\ (k # l => ~Holds(k))
    BY DEF IInv, MutualExclusion, Holds
  <2> QED BY <2>1 DEF IInv, TypeOK, Holds
<1>3. QueueInv'
  BY DEF IInv, TypeOK, QueueInv
<1>4. (mtx.waiters => mtx.own # None)'
  BY DEF IInv, TypeOK, CheckInv
<1>5. ASSUME NEW k \in Lwp PROVE CheckInv(k)'
  BY DEF IInv, TypeOK, MutualExclusion, Holds, QueueInv, CheckInv, BitIsSafe
<1>6. NoLostWaiter'
  BY DEF IInv, TypeOK, QueueInv, CheckInv, BitIsSafe, NoLostWaiter
<1> QED BY <1>1, <1>2, <1>3, <1>4, <1>5, <1>6 DEF IInv

\* turnstile_wakeup wakes every sleeper.
LEMMA ExitWakeupPreserves ==
    ASSUME IInv, NEW l \in Lwp, ExitWakeup(l)
    PROVE  IInv'
<1> USE DEF ExitWakeup, Woken
<1>1. TypeOK'
  BY DEF IInv, TypeOK
<1>2. MutualExclusion'
  <2>1. ASSUME NEW k \in Lwp PROVE Holds(k)' <=> Holds(k)
    <3>1. k \in ts => pc[k] = "sleep"
      BY DEF IInv, QueueInv
    <3> QED BY <3>1 DEF IInv, TypeOK, Holds
  <2> QED BY <2>1 DEF IInv, MutualExclusion
<1>3. QueueInv'
  BY DEF IInv, TypeOK, QueueInv
<1>4. (mtx.waiters => mtx.own # None)'
  BY DEF IInv, TypeOK, CheckInv
<1>5. ASSUME NEW k \in Lwp PROVE CheckInv(k)'
  BY DEF IInv, TypeOK, MutualExclusion, Holds, QueueInv, CheckInv, BitIsSafe
<1>6. NoLostWaiter'
  BY DEF IInv, TypeOK, QueueInv, CheckInv, BitIsSafe, NoLostWaiter
<1> QED BY <1>1, <1>2, <1>3, <1>4, <1>5, <1>6 DEF IInv

\* An LWP is switched away, any unlocked store completed.
LEMMA SwitchAwayPreserves ==
    ASSUME IInv, NEW l \in Lwp, SwitchAway(l)
    PROVE  IInv'
<1> USE DEF SwitchAway, Preemptible
<1>1. TypeOK'
  BY DEF IInv, TypeOK
<1>2. MutualExclusion'
  BY DEF IInv, TypeOK, MutualExclusion, Holds
<1>3. QueueInv'
  BY DEF IInv, TypeOK, QueueInv
<1>4. (mtx.waiters => mtx.own # None)'
  BY DEF IInv, TypeOK, CheckInv
<1>5. ASSUME NEW k \in Lwp PROVE CheckInv(k)'
  BY DEF IInv, TypeOK, MutualExclusion, Holds, QueueInv, CheckInv, BitIsSafe
<1>6. NoLostWaiter'
  BY DEF IInv, TypeOK, QueueInv, CheckInv, BitIsSafe, NoLostWaiter
<1> QED BY <1>1, <1>2, <1>3, <1>4, <1>5, <1>6 DEF IInv

\* An LWP gets a CPU.
LEMMA ResumePreserves ==
    ASSUME IInv, NEW l \in Lwp, Resume(l)
    PROVE  IInv'
<1> USE DEF Resume
<1>1. TypeOK'
  BY DEF IInv, TypeOK
<1>2. MutualExclusion'
  BY DEF IInv, TypeOK, MutualExclusion, Holds
<1>3. QueueInv'
  BY DEF IInv, TypeOK, QueueInv
<1>4. (mtx.waiters => mtx.own # None)'
  BY DEF IInv, TypeOK, CheckInv
<1>5. ASSUME NEW k \in Lwp PROVE CheckInv(k)'
  BY DEF IInv, TypeOK, MutualExclusion, Holds, QueueInv, CheckInv, BitIsSafe
<1>6. NoLostWaiter'
  BY DEF IInv, TypeOK, QueueInv, CheckInv, BitIsSafe, NoLostWaiter
<1> QED BY <1>1, <1>2, <1>3, <1>4, <1>5, <1>6 DEF IInv

\* Every step of every function, and of the scheduler, preserves the invariant.
LEMMA NextIInv == IInv /\ [Next]_vars => IInv'
<1> SUFFICES ASSUME IInv, [Next]_vars PROVE IInv'
  OBVIOUS
<1>1. ASSUME NEW l \in Lwp, Step(l) PROVE IInv'
  BY <1>1, ReloadPreserves, AcquirePreserves, WaitPreserves, SpinPreserves,
     LookupPreserves, SetWaitersPreserves, CheckRunningPreserves,
     CheckWaitersPreserves, BlockPreserves, StorePreserves,
     ExitLookupPreserves, ExitReleasePreserves, ExitWakeupPreserves DEF Step
<1>2. CASE UNCHANGED vars
  BY <1>2 DEF vars, IInv, TypeOK, MutualExclusion, Holds, QueueInv, CheckInv,
     BitIsSafe, NoLostWaiter
<1> QED BY <1>1, <1>2, EnterPreserves, TryEnterPreserves, ExitPreserves,
     SwitchAwayPreserves, ResumePreserves DEF Next

\* The inductive invariant holds in every reachable state.
THEOREM Invariance == Spec => []IInv
BY InitIInv, NextIInv, PTL DEF Spec

\* The word, everybody's copy of it and the queue keep their types.
THEOREM TypeCorrect == Spec => []TypeOK
<1>1. IInv => TypeOK
  BY DEF IInv
<1> QED BY <1>1, Invariance, PTL

\* At most one LWP is between mutex_enter and the release of mutex_exit,
\* although the release is a plain store.
THEOREM MutexExcludes == Spec => []MutualExclusion
<1>1. IInv => MutualExclusion
  BY DEF IInv
<1> QED BY <1>1, Invariance, PTL

\* No LWP sleeps on a mutex whose waiters bit was lost.
THEOREM WaitersAreSeen == Spec => []NoLostWaiter
<1>1. IInv => NoLostWaiter
  BY DEF IInv
<1> QED BY <1>1, Invariance, PTL

-----------------------------------------------------------------------------
(* The kernel lock: the inductive invariant                                *)

USE KernelLockAssumption

\* What is held on a CPU, by the contexts and on whose account: the hardware
\* interrupt's holds are those of the LWP it has interrupted.
Counts(cc) ==
    /\ ci_biglock_count[cc] = holds[cc][1] + holds[cc][2] + holds[cc][3]
    /\ l_blcnt[cc][1] = holds[cc][1] + (IF ctx[cc][2] = "off" THEN holds[cc][3] ELSE 0)
    /\ l_blcnt[cc][2] = holds[cc][2] + (IF ctx[cc][2] = "off" THEN 0 ELSE holds[cc][3])

\* Who is not there holds nothing; who spins wants something.
Contexts(cc) ==
    /\ ctx[cc][1] # "off"
    /\ \A x \in Context : /\ ctx[cc][x] = "off" => holds[cc][x] = 0
                          /\ ctx[cc][x] = "spin" => nlocks[cc][x] > 0

\* One CPU holds the lock.
Holder == /\ kernel_lock => \E cc \in Cpu : ci_biglock_count[cc] > 0
          /\ \A cc \in Cpu : ci_biglock_count[cc] > 0 =>
                kernel_lock /\ \A i \in Cpu \ {cc} : ci_biglock_count[i] = 0

\* What a spinning context has saved is what the one below it has stored.
Saved(cc) ==
    /\ Spins(cc, 1) => owant[cc][1] = NoLwp
    /\ Spins(cc, 2) => owant[cc][2] = IF Spins(cc, 1) THEN 1 ELSE NoLwp
    /\ Spins(cc, 3) => owant[cc][3] = IF Spins(cc, 2) THEN 2
                                      ELSE IF Spins(cc, 1) THEN 1 ELSE NoLwp

\* ci_biglock_wanted names the uppermost that spins.
Named(cc) ==
    ci_biglock_wanted[cc] = IF Spins(cc, 3) THEN curlwp(cc, 3)
                            ELSE IF Spins(cc, 2) THEN 2
                            ELSE IF Spins(cc, 1) THEN 1 ELSE NoLwp

\* If the CPU holds the lock, those that spin are below those that hold it.
Below(cc) ==
    \A x, y \in Context : ctx[cc][x] = "spin" /\ holds[cc][y] > 0 => y > x

Local(cc) == Counts(cc) /\ Contexts(cc) /\ Saved(cc) /\ Named(cc) /\ Below(cc)

KernelInv == KernelTypeOK /\ Holder /\ \A cc \in Cpu : Local(cc)

-----------------------------------------------------------------------------
\* The invariant says what the properties say: HoldsAgree, WantedIsSpinning and
\* SpinsForAnother.
LEMMA KernelImplies ==
    ASSUME KernelInv PROVE HoldsAgree /\ WantedIsSpinning /\ SpinsForAnother
<1>. USE DEF KernelInv, Local, Context
<1>1. HoldsAgree
  <2>1. ASSUME NEW cc \in Cpu, NEW x \in Context PROVE holds[cc][x] \in Nat
    BY DEF KernelTypeOK
  <2>. QED
    BY <2>1 DEF HoldsAgree, Holder, Counts
<1>2. WantedIsSpinning
  <2>. SUFFICES ASSUME NEW cc \in Cpu
                PROVE  /\ (\A x \in Context : ~Spins(cc, x)) => ci_biglock_wanted[cc] = NoLwp
                       /\ \A x \in Context :
                             Spins(cc, x) /\ (\A y \in Context : y > x => ~Spins(cc, y)) =>
                                 ci_biglock_wanted[cc] = curlwp(cc, x)
    BY DEF WantedIsSpinning
  <2>1. 1 \in Context /\ 2 \in Context /\ 3 \in Context
    OBVIOUS
  <2>2. curlwp(cc, 1) = 1 /\ curlwp(cc, 2) = 2
    BY DEF curlwp
  <2>3. Named(cc)
    OBVIOUS
  <2>. QED
    BY <2>1, <2>2, <2>3 DEF Named
<1>3. SpinsForAnother
  BY DEF SpinsForAnother, Below
<1>. QED
  BY <1>1, <1>2, <1>3

\* The initial states satisfy the invariant.
LEMMA KernelInitInv ==
    KernelInit => KernelInv
<1>. SUFFICES ASSUME KernelInit PROVE KernelInv
  OBVIOUS
<1>. USE DEF KernelInit, Each, Context
<1>1. KernelTypeOK
  <2>1. 0 \in 0 .. MaxHold /\ 0 \in 0 .. 3 * MaxHold
    OBVIOUS
  <2>. QED
    BY <2>1, Zenon DEF KernelTypeOK
<1>2. Holder
  BY DEF Holder
<1>3. ASSUME NEW cc \in Cpu PROVE Local(cc)
  <2>1. \A x \in Context : /\ ~Spins(cc, x) /\ ctx[cc][x] # "spin"
                           /\ holds[cc][x] = 0
    BY DEF Spins
  <2>2. Counts(cc) /\ Contexts(cc)
    BY <2>1 DEF Counts, Contexts
  <2>3. Saved(cc) /\ Named(cc) /\ Below(cc)
    BY <2>1 DEF Saved, Named, Below
  <2>. QED
    BY <2>2, <2>3 DEF Local
<1>. QED
  BY <1>1, <1>2, <1>3 DEF KernelInv

\* What a step leaves alone on a CPU stays true of it.
LEMMA Elsewhere ==
    ASSUME NEW i \in Cpu, Local(i),
           ci_biglock_count'[i] = ci_biglock_count[i], l_blcnt'[i] = l_blcnt[i],
           ci_biglock_wanted'[i] = ci_biglock_wanted[i], ctx'[i] = ctx[i],
           nlocks'[i] = nlocks[i], owant'[i] = owant[i], holds'[i] = holds[i]
    PROVE  Local(i)'
  BY DEF Local, Counts, Contexts, Saved, Named, Below, Spins, curlwp

\* A step that is local to one CPU and does not touch the lock
LEMMA LockUntouched ==
    ASSUME Holder, UNCHANGED <<kernel_lock, ci_biglock_count>> PROVE Holder'
  BY DEF Holder

\* On a CPU that does not hold the lock no context and no LWP does.
LEMMA NotHeld ==
    ASSUME KernelTypeOK, NEW i \in Cpu, Counts(i),
           ~(ci_biglock_count[i] > 0)
    PROVE  /\ \A y \in Context : holds[i][y] = 0
           /\ l_blcnt[i][1] = 0 /\ l_blcnt[i][2] = 0
<1>1. holds[i][1] \in Nat /\ holds[i][2] \in Nat /\ holds[i][3] \in Nat
  BY DEF KernelTypeOK, Context
<1>2. ~(holds[i][1] + holds[i][2] + holds[i][3] > 0)
  BY DEF Counts
<1>3. holds[i][1] = 0 /\ holds[i][2] = 0 /\ holds[i][3] = 0
  BY <1>1, <1>2
<1>. QED
  BY <1>3 DEF Counts, Context

\* Nobody holds a lock that is free, and the first to take it holds it alone.
LEMMA FirstInv ==
    ASSUME KernelInv, NEW cc \in Cpu, NEW x \in Context,
           NEW n \in 1 .. MaxHold, Runs(cc, x), First(cc, x, n), Hold(cc, x, n),
           \/ ctx[cc][x] = "run" /\ UNCHANGED <<ctx, nlocks>>
           \/ /\ ctx[cc][x] = "spin" /\ ctx' = [ctx EXCEPT ![cc][x] = "reset"]
              /\ nlocks' = [nlocks EXCEPT ![cc][x] = 0]
    PROVE  KernelInv'
<1>. USE DEF Context
<1>0. KernelTypeOK /\ Holder /\ \A i \in Cpu : Local(i)
  BY DEF KernelInv
<1>1. ASSUME NEW i \in Cpu
      PROVE  /\ ci_biglock_count[i] = 0
             /\ \A y \in Context : holds[i][y] = 0
             /\ l_blcnt[i][1] = 0 /\ l_blcnt[i][2] = 0
  <2>1. ~(ci_biglock_count[i] > 0)
    BY <1>0 DEF First, Holder
  <2>2. ci_biglock_count[i] = 0
    BY <1>0, <2>1 DEF KernelTypeOK
  <2>. QED
    BY <1>0, <2>1, <2>2, NotHeld DEF Local
<1>2. /\ ctx' \in [Cpu -> [Context -> {"off", "run", "spin", "reset"}]]
      /\ nlocks' \in [Cpu -> [Context -> 0 .. MaxHold]]
  <2>1. CASE UNCHANGED <<ctx, nlocks>>
    BY <1>0, <2>1 DEF KernelTypeOK
  <2>2. CASE /\ ctx' = [ctx EXCEPT ![cc][x] = "reset"]
             /\ nlocks' = [nlocks EXCEPT ![cc][x] = 0]
    BY <1>0, <2>2 DEF KernelTypeOK
  <2>. QED
    BY <2>1, <2>2
<1>3. KernelTypeOK'
  BY <1>0, <1>1, <1>2 DEF KernelTypeOK, First, Hold, curlwp
<1>4. Holder'
  BY <1>0, <1>1 DEF Holder, First, KernelTypeOK
<1>5. ASSUME NEW i \in Cpu \ {cc} PROVE Local(i)'
  BY <1>0, <1>5, Elsewhere DEF First, Hold, KernelTypeOK
<1>6. Local(cc)'
  <2>1. Counts(cc)' /\ Contexts(cc)'
    BY <1>0, <1>1 DEF Local, Counts, Contexts, First, Hold, curlwp, Runs, KernelTypeOK
  <2>2. Saved(cc)' /\ Named(cc)'
    BY <1>0 DEF Local, Saved, Named, Hold, Spins, curlwp, KernelTypeOK
  <2>3. Below(cc)'
    BY <1>0, <1>1 DEF Local, Below, Hold, Runs, KernelTypeOK
  <2>. QED
    BY <2>1, <2>2, <2>3 DEF Local
<1>. QED
  BY <1>3, <1>4, <1>5, <1>6 DEF KernelInv

\* KERNEL_LOCK preserves the invariant.
LEMMA LockInv ==
    ASSUME KernelInv, NEW cc \in Cpu, NEW x \in Context,
           NEW n \in 1 .. MaxHold, KERNEL_LOCK(cc, x, n)
    PROVE  KernelInv'
<1>. USE DEF Context
<1>0. /\ KernelTypeOK /\ Holder /\ \A i \in Cpu : Local(i)
      /\ Runs(cc, x) /\ ctx[cc][x] = "run" /\ holds[cc][x] + n <= MaxHold
  BY DEF KernelInv, KERNEL_LOCK
<1>1. CASE CpuHolds(cc, x) /\ Again(cc, x, n) /\ Hold(cc, x, n) /\ UNCHANGED <<ctx, nlocks>>
  <2>. USE <1>0, <1>1
  <2>1. KernelTypeOK'
    BY DEF KernelTypeOK, Again, Hold, curlwp, Local, Counts
  <2>2. Holder'
    BY DEF Holder, Again, CpuHolds, KernelTypeOK
  <2>3. ASSUME NEW i \in Cpu \ {cc} PROVE Local(i)'
    BY <2>3, Elsewhere, SMTT(30) DEF Again, Hold, KernelTypeOK
  <2>4. Local(cc)'
    <3>1. Counts(cc)' /\ Contexts(cc)'
      BY DEF Local, Counts, Contexts, Again, Hold, curlwp, Runs, KernelTypeOK
    <3>2. Saved(cc)' /\ Named(cc)'
      BY DEF Local, Saved, Named, Hold, Spins, curlwp
    <3>3. Below(cc)'
      BY DEF Local, Below, Hold, Runs, KernelTypeOK
    <3>. QED
      BY <3>1, <3>2, <3>3, Zenon DEF Local
  <2>. QED
    BY <2>1, <2>2, <2>3, <2>4 DEF KernelInv
<1>2. CASE ~CpuHolds(cc, x) /\ First(cc, x, n) /\ Hold(cc, x, n) /\ UNCHANGED <<ctx, nlocks>>
  BY <1>0, <1>2, FirstInv
<1>3. CASE /\ ~CpuHolds(cc, x) /\ kernel_lock
           /\ owant' = [owant EXCEPT ![cc][x] = ci_biglock_wanted[cc]]
           /\ ci_biglock_wanted' = [ci_biglock_wanted EXCEPT ![cc] = curlwp(cc, x)]
           /\ ctx' = [ctx EXCEPT ![cc][x] = "spin"]
           /\ nlocks' = [nlocks EXCEPT ![cc][x] = n]
           /\ UNCHANGED <<kernel_lock, ci_biglock_count, l_blcnt, holds>>
  <2>. USE <1>0, <1>3
  <2>1. KernelTypeOK'
    BY DEF KernelTypeOK, curlwp
  <2>2. Holder'
    BY LockUntouched
  <2>3. ASSUME NEW i \in Cpu \ {cc} PROVE Local(i)'
    BY <2>3, Elsewhere DEF KernelTypeOK
  <2>4. Local(cc)'
    <3>1. Counts(cc)' /\ Contexts(cc)'
      BY DEF Local, Counts, Contexts, Runs, KernelTypeOK
    <3>2. Saved(cc)' /\ Named(cc)'
      <4>1. /\ Saved(cc) /\ Named(cc) /\ ~Spins(cc, x)
            /\ \A y \in Context : y > x => ~Spins(cc, y)
        BY DEF Local, Spins, Runs
      <4>2. /\ \A y \in Context : y # x => ctx'[cc][y] = ctx[cc][y] /\ owant'[cc][y] = owant[cc][y]
            /\ ctx'[cc][x] = "spin" /\ owant'[cc][x] = ci_biglock_wanted[cc]
            /\ ci_biglock_wanted'[cc] = curlwp(cc, x)
        BY DEF KernelTypeOK
      <4>3. CASE x = 1
        BY <4>1, <4>2, <4>3 DEF Saved, Named, Spins, curlwp
      <4>4. CASE x = 2
        BY <4>1, <4>2, <4>4 DEF Saved, Named, Spins, curlwp
      <4>5. CASE x = 3
        BY <4>1, <4>2, <4>5 DEF Saved, Named, Spins, curlwp
      <4>. QED
        BY <4>3, <4>4, <4>5
    <3>3. Below(cc)'
      <4>1. \A y \in Context : holds[cc][y] = 0
        BY NotHeld DEF Local, CpuHolds
      <4>. QED
        BY <4>1 DEF Below
    <3>. QED
      BY <3>1, <3>2, <3>3 DEF Local
  <2>. QED
    BY <2>1, <2>2, <2>3, <2>4 DEF KernelInv
<1>. QED
  BY <1>1, <1>2, <1>3 DEF KERNEL_LOCK

\* The end of the spinning preserves the invariant.
LEMMA SpinInv ==
    ASSUME KernelInv, NEW cc \in Cpu, NEW x \in Context, SpinForLock(cc, x)
    PROVE  KernelInv'
<1>1. nlocks[cc][x] \in 1 .. MaxHold
  BY DEF KernelInv, KernelTypeOK, Local, Contexts, SpinForLock
<1>. QED
  BY <1>1, FirstInv, Zenon DEF SpinForLock

\* Resetting ci_biglock_wanted preserves the invariant.
LEMMA ResetInv ==
    ASSUME KernelInv, NEW cc \in Cpu, NEW x \in Context, Reset(cc, x)
    PROVE  KernelInv'
<1>. USE DEF Reset, Context
<1>0. KernelTypeOK /\ Holder /\ \A i \in Cpu : Local(i)
  BY DEF KernelInv
<1>1. KernelTypeOK'
  BY <1>0 DEF KernelTypeOK, Wanted
<1>2. Holder'
  BY <1>0, LockUntouched
<1>3. ASSUME NEW i \in Cpu \ {cc} PROVE Local(i)'
  BY <1>0, <1>3, Elsewhere DEF KernelTypeOK
<1>4. Local(cc)'
  <2>1. Counts(cc)' /\ Contexts(cc)' /\ Below(cc)'
    BY <1>0 DEF Local, Counts, Contexts, Below, Runs, KernelTypeOK
  <2>2. Saved(cc)' /\ Named(cc)'
    BY <1>0 DEF Local, Saved, Named, Spins, curlwp, Runs, Wanted, KernelTypeOK
  <2>. QED
    BY <2>1, <2>2 DEF Local
<1>. QED
  BY <1>1, <1>2, <1>3, <1>4 DEF KernelInv

\* KERNEL_UNLOCK preserves the invariant: a context lets go of its own holds.
LEMMA UnlockInv ==
    ASSUME KernelInv, NEW cc \in Cpu, NEW x \in Context,
           KERNEL_UNLOCK(cc, x)
    PROVE  KernelInv'
<1>. USE DEF Context
<1>0. /\ KernelTypeOK /\ Holder /\ \A i \in Cpu : Local(i)
      /\ Runs(cc, x) /\ ctx[cc][x] = "run" /\ holds[cc][x] > 0
      /\ UNCHANGED <<ci_biglock_wanted, ctx, nlocks, owant>>
  BY DEF KernelInv, KERNEL_UNLOCK
<1>. DEFINE l == curlwp(cc, x)
<1>1. PICK n \in IF x = 3 THEN {1} ELSE {1, l_blcnt[cc][l]} :
          /\ IF Final(cc, x, n)
             THEN kernel_lock' = FALSE /\ ci_biglock_count' = [ci_biglock_count EXCEPT ![cc] = 0]
             ELSE /\ UNCHANGED kernel_lock
                  /\ ci_biglock_count' = [ci_biglock_count EXCEPT ![cc] = @ - n]
          /\ l_blcnt' = [l_blcnt EXCEPT ![cc][l] = @ - n]
          /\ holds' = [holds EXCEPT ![cc][x] = @ - n]
  BY Zenon DEF KERNEL_UNLOCK
<1>2. /\ l \in 1 .. 2 /\ n \in 1 .. holds[cc][x]
      /\ l_blcnt[cc][l] >= holds[cc][x] /\ ci_biglock_count[cc] >= holds[cc][x]
  BY <1>0, <1>1 DEF Local, Counts, Contexts, Runs, curlwp, KernelTypeOK
<1>3. ci_biglock_count' = [ci_biglock_count EXCEPT ![cc] = @ - n]
  BY <1>0, <1>1, <1>2 DEF Final, KernelTypeOK
<1>4. KernelTypeOK'
  <2>1. kernel_lock' \in BOOLEAN
    BY <1>0, <1>1, Zenon DEF KernelTypeOK
  <2>2. ci_biglock_count' \in [Cpu -> 0 .. 3 * MaxHold]
    BY <1>0, <1>2, <1>3 DEF KernelTypeOK
  <2>3. l_blcnt' \in [Cpu -> [1 .. 2 -> 0 .. 3 * MaxHold]]
    BY <1>0, <1>1, <1>2 DEF KernelTypeOK
  <2>4. holds' \in [Cpu -> [Context -> 0 .. MaxHold]]
    BY <1>0, <1>1, <1>2 DEF KernelTypeOK
  <2>. QED
    BY <1>0, <2>1, <2>2, <2>3, <2>4 DEF KernelTypeOK
<1>5. Holder'
  <2>0. /\ ci_biglock_count[cc] \in Nat /\ n \in Nat /\ ci_biglock_count[cc] >= n
        /\ ci_biglock_count[cc] > 0 /\ ci_biglock_count'[cc] = ci_biglock_count[cc] - n
    BY <1>0, <1>2, <1>3 DEF KernelTypeOK
  <2>1. \A i \in Cpu \ {cc} : ci_biglock_count[i] = 0 /\ ci_biglock_count'[i] = 0
    BY <1>0, <1>3, <2>0 DEF Holder, KernelTypeOK
  <2>2. CASE Final(cc, x, n)
    <3>1. kernel_lock' = FALSE /\ ci_biglock_count'[cc] = 0
      BY <1>1, <2>0, <2>2 DEF Final
    <3>. QED
      BY <2>1, <3>1 DEF Holder
  <2>3. CASE ~Final(cc, x, n)
    <3>1. ci_biglock_count'[cc] > 0 /\ kernel_lock'
      <4>1. kernel_lock /\ kernel_lock' = kernel_lock
        BY <1>0, <1>1, <2>0, <2>3 DEF Holder
      <4>2. ci_biglock_count[cc] # n
        BY <2>3 DEF Final
      <4>. QED
        BY <2>0, <4>1, <4>2
    <3>. QED
      BY <2>1, <3>1 DEF Holder
  <2>. QED
    BY <2>2, <2>3
<1>6. ASSUME NEW i \in Cpu \ {cc} PROVE Local(i)'
  BY <1>0, <1>1, <1>3, <1>6, Elsewhere, SMTT(30) DEF KernelTypeOK
<1>7. Local(cc)'
  <2>1. Contexts(cc)' /\ Below(cc)'
    BY <1>0, <1>1, <1>2 DEF Local, Contexts, Below, Runs, KernelTypeOK
  <2>3. Counts(cc)'
    <3>1. /\ ci_biglock_count'[cc] = ci_biglock_count[cc] - n
          /\ l_blcnt'[cc] = [l_blcnt[cc] EXCEPT ![l] = @ - n]
          /\ holds'[cc] = [holds[cc] EXCEPT ![x] = @ - n]
      BY <1>0, <1>1, <1>3 DEF KernelTypeOK
    <3>2. /\ Counts(cc) /\ \A y \in Context : holds[cc][y] \in Nat
          /\ holds[cc] \in [Context -> Nat] /\ l_blcnt[cc] \in [1 .. 2 -> Nat]
          /\ n \in Nat /\ l \in 1 .. 2
      BY <1>0, <1>2 DEF Local, KernelTypeOK
    <3>3. CASE x = 1
      <4>1. l = 1 /\ ctx[cc][2] = "off" /\ ctx'[cc][2] = "off"
        BY <1>0, <3>3, SMTT(30) DEF Runs, curlwp
      <4>. QED
        BY <3>1, <3>2, <3>3, <4>1 DEF Counts
    <3>4. CASE x = 2
      BY <1>0, <3>1, <3>2, <3>4, SMTT(30) DEF Counts, Runs, curlwp
    <3>5. CASE x = 3
      BY <1>0, <3>1, <3>2, <3>5, SMTT(30) DEF Counts, Runs, curlwp
    <3>. QED
      BY <3>3, <3>4, <3>5
  <2>2. Saved(cc)' /\ Named(cc)'
    BY <1>0 DEF Local, Saved, Named, Spins, curlwp
  <2>. QED
    BY <2>1, <2>2, <2>3 DEF Local
<1>. QED
  BY <1>4, <1>5, <1>6, <1>7 DEF KernelInv

\* So do the interrupts, as they come and go on top of what the CPU does.
LEMMA InterruptInv ==
    ASSUME KernelInv, NEW cc \in Cpu, NEW x \in Context,
           Interrupt(cc, x) \/ Rti(cc, x)
    PROVE  KernelInv'
<1>. USE DEF Interrupt, Rti, Context
<1>0. KernelTypeOK /\ Holder /\ \A i \in Cpu : Local(i)
  BY DEF KernelInv
<1>1. KernelTypeOK'
  <2>1. CASE Interrupt(cc, x)
    BY <1>0, <2>1 DEF KernelTypeOK
  <2>2. CASE Rti(cc, x)
    BY <1>0, <2>2 DEF KernelTypeOK
  <2>. QED
    BY <2>1, <2>2
<1>2. Holder'
  BY <1>0, LockUntouched
<1>3. ASSUME NEW i \in Cpu \ {cc} PROVE Local(i)'
  BY <1>0, <1>3, Elsewhere DEF KernelTypeOK
<1>4. Local(cc)'
  <2>1. Counts(cc)' /\ Contexts(cc)' /\ Below(cc)'
    BY <1>0 DEF Local, Counts, Contexts, Below, Runs, KernelTypeOK
  <2>2. Saved(cc)' /\ Named(cc)'
    <3>1. /\ Saved(cc) /\ Named(cc) /\ UNCHANGED <<ci_biglock_wanted, owant>>
          /\ \A y \in Context : y >= x => ~Spins(cc, y)
      BY <1>0 DEF Local, Spins, Runs
    <3>2. /\ \A y \in Context : y # x => ctx'[cc][y] = ctx[cc][y]
          /\ ~Spins(cc, x)' /\ x > 1
      BY <1>0 DEF KernelTypeOK, Spins
    <3>3. CASE x = 2
      BY <3>1, <3>2, <3>3 DEF Saved, Named, Spins, curlwp
    <3>4. CASE x = 3
      BY <3>1, <3>2, <3>4 DEF Saved, Named, Spins, curlwp
    <3>. QED
      BY <3>2, <3>3, <3>4
  <2>. QED
    BY <2>1, <2>2 DEF Local
<1>. QED
  BY <1>1, <1>2, <1>3, <1>4 DEF KernelInv

-----------------------------------------------------------------------------
(* The theorems                                                            *)

\* The inductive invariant of the kernel lock holds in every reachable state,
\* for any CPUs and any number of holds.
THEOREM KernelInvariance == KernelSpec => []KernelInv
<1>1. KernelInit => KernelInv
  BY KernelInitInv
<1>2. KernelInv /\ [KernelNext]_klvars => KernelInv'
  <2>. SUFFICES ASSUME KernelInv, [KernelNext]_klvars PROVE KernelInv'
    OBVIOUS
  <2>1. CASE KernelNext
    BY <2>1, LockInv, SpinInv, ResetInv, UnlockInv, InterruptInv, SMTT(30) DEF KernelNext
  <2>2. CASE UNCHANGED klvars
    BY <2>2 DEF klvars, KernelInv, KernelTypeOK, Holder, Local, Counts, Contexts, Saved, Named,
                Below, Spins, curlwp
  <2>. QED
    BY <2>1, <2>2
<1>. QED
  BY <1>1, <1>2, PTL DEF KernelSpec

\* The lock is held by one CPU as long as any of its contexts holds it, and
\* ci_biglock_count and l_blcnt count what the contexts hold.
THEOREM CountsHold == KernelSpec => []HoldsAgree
  BY KernelInvariance, KernelImplies, PTL

\* ci_biglock_wanted, on which mutex_oncpu relies, names the uppermost LWP that
\* spins for the lock, and nobody when none does.
THEOREM WantedHolds == KernelSpec => []WantedIsSpinning
  BY KernelInvariance, KernelImplies, PTL

\* No context spins for what its own CPU holds, unless an interrupt on top of
\* it does, which will let go.
THEOREM NoSelfDeadlock == KernelSpec => []SpinsForAnother
  BY KernelInvariance, KernelImplies, PTL
=============================================================================
