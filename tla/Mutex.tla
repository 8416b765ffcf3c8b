------------------------------- MODULE Mutex --------------------------------
(***************************************************************************)
(* The adaptive mutex of sys/kern/kern_mutex.c on a multiprocessor.        *)
(*                                                                         *)
(* mutex_exit tests for waiters and clears the lock word without any       *)
(* interlocked instruction (mutex_vector_exit under LOCKDEBUG, and the     *)
(* machine-dependent stubs, for amd64 in lock_stubs.S), so a waiters bit   *)
(* set in between is lost.  mutex_vector_enter makes up for it by looking  *)
(* once more, after setting the bit, whether the owner runs on a CPU and   *)
(* whether the bit is still there.  The model has every load, store and    *)
(* compare-and-swap of the word as a step of its own, and which LWPs run.  *)
(***************************************************************************)
EXTENDS FiniteSets

CONSTANTS
    Lwp,    \* the LWPs that use the mutex
    None    \* no LWP (a null pointer)

ASSUME LwpAssumption == IsFiniteSet(Lwp) /\ None \notin Lwp

VARIABLES
    mtx,    \* mtx->mtx_owner: the owner and MUTEX_BIT_WAITERS
    ts,     \* the LWPs asleep in the turnstile of the mutex
    tc,     \* the LWP holding the turnstile chain lock, or None
    pc,     \* where each LWP is
    owner,  \* each LWP's local copy of mtx_owner
    oncpu   \* l->l_cpu->ci_curlwp == l and it does not wait for the big lock

vars == <<mtx, ts, tc, pc, owner, oncpu>>

Word == [own : Lwp \cup {None}, waiters : BOOLEAN]
Free == [own |-> None, waiters |-> FALSE]

Init == /\ mtx = Free
        /\ ts = {}
        /\ tc = None
        /\ pc = [l \in Lwp |-> "idle"]
        /\ owner = [l \in Lwp |-> Free]
        /\ oncpu \in [Lwp -> BOOLEAN]

\* LWP l runs at label p; it goes to label p.
At(l, p) == pc[l] = p /\ oncpu[l]
Goto(l, p) == pc' = [pc EXCEPT ![l] = p]

\* turnstile_exit() and round the loop again: the local copy goes out of use.
Retry(l) == /\ tc' = None
            /\ Goto(l, "reload")
            /\ owner' = [owner EXCEPT ![l] = Free]

\* mutex_oncpu(): the owner in a word runs.
OnCpu(w) == w.own # None /\ oncpu[w.own]

-----------------------------------------------------------------------------
(* mutex_vector_enter, with kernel preemption disabled except in the body  *)
(* of the spin loop                                                        *)

Enter(l) ==
    /\ At(l, "idle")
    /\ Goto(l, "reload")
    /\ UNCHANGED <<mtx, ts, tc, owner, oncpu>>

\* owner = mtx->mtx_owner
Reload(l) ==
    /\ At(l, "reload")
    /\ Goto(l, "loop")
    /\ owner' = [owner EXCEPT ![l] = mtx]
    /\ UNCHANGED <<mtx, ts, tc, oncpu>>

\* MUTEX_ACQUIRE: a compare-and-swap from zero.
Acquire(l) ==
    /\ At(l, "loop")
    /\ owner[l].own = None
    /\ \/ /\ mtx = Free
          /\ Goto(l, "held")
          /\ mtx' = [Free EXCEPT !.own = l]
          /\ owner' = [owner EXCEPT ![l] = Free]
       \/ /\ mtx # Free
          /\ Goto(l, "reload")
          /\ UNCHANGED <<mtx, owner>>
    /\ UNCHANGED <<ts, tc, oncpu>>

\* The mutex is owned: spin while the owner runs, or go for the turnstile.
Wait(l) ==
    /\ At(l, "loop")
    /\ owner[l].own # None
    /\ \/ /\ OnCpu(owner[l])
          /\ Goto(l, "spin")
          /\ owner' = [owner EXCEPT ![l] = Free]
       \/ /\ ~OnCpu(owner[l])
          /\ Goto(l, "lookup")
          /\ UNCHANGED owner
    /\ UNCHANGED <<mtx, ts, tc, oncpu>>

Spin(l) ==
    /\ At(l, "spin")
    /\ Goto(l, "loop")
    /\ owner' = [owner EXCEPT ![l] = mtx]
    /\ UNCHANGED <<mtx, ts, tc, oncpu>>

\* turnstile_lookup() takes the chain lock.
Lookup(l) ==
    /\ At(l, "lookup")
    /\ tc = None
    /\ Goto(l, "mark")
    /\ tc' = l
    /\ UNCHANGED <<mtx, ts, owner, oncpu>>

\* MUTEX_SET_WAITERS, or turnstile_exit() and round again.
SetWaiters(l) ==
    /\ At(l, "mark")
    /\ \/ /\ mtx = owner[l]
          /\ Goto(l, "running")
          /\ mtx' = [mtx EXCEPT !.waiters = TRUE]
          /\ UNCHANGED <<tc, owner>>
       \/ /\ mtx # owner[l]
          /\ Retry(l)
          /\ UNCHANGED mtx
    /\ UNCHANGED <<ts, oncpu>>

\* With the bit set, is the owner running?  Then the bit cannot be trusted.
\* (The variant does not ask.)
CheckRunningNever(l) ==
    /\ At(l, "running")
    /\ Goto(l, "waiters")
    /\ UNCHANGED <<mtx, ts, tc, owner, oncpu>>
CheckRunning(l) ==
    /\ At(l, "running")
    /\ \/ /\ OnCpu(owner[l])
          /\ Retry(l)
       \/ /\ ~OnCpu(owner[l])
          /\ Goto(l, "waiters")
          /\ UNCHANGED <<tc, owner>>
    /\ UNCHANGED <<mtx, ts, oncpu>>

\* If it is not, is the bit still set?
\* (The variant does not ask.)
CheckWaitersNever(l) ==
    /\ At(l, "waiters")
    /\ Goto(l, "block")
    /\ UNCHANGED <<mtx, ts, tc, owner, oncpu>>
CheckWaiters(l) ==
    /\ At(l, "waiters")
    /\ \/ /\ ~mtx.waiters
          /\ Retry(l)
       \/ /\ mtx.waiters
          /\ Goto(l, "block")
          /\ UNCHANGED <<tc, owner>>
    /\ UNCHANGED <<mtx, ts, oncpu>>

\* turnstile_block(): onto the queue, switch away, the chain lock dropped.
Block(l) ==
    /\ At(l, "block")
    /\ Goto(l, "sleep")
    /\ ts' = ts \cup {l}
    /\ tc' = None
    /\ owner' = [owner EXCEPT ![l] = Free]
    /\ oncpu' = [oncpu EXCEPT ![l] = FALSE]
    /\ UNCHANGED mtx

\* mutex_tryenter; a try that fails changes nothing.
\* (The variant stores without looking.)
TryEnterBlindly(l) ==
    /\ At(l, "idle")
    /\ Goto(l, "held")
    /\ mtx' = [mtx EXCEPT !.own = l]
    /\ UNCHANGED <<ts, tc, owner, oncpu>>
TryEnter(l) ==
    /\ At(l, "idle")
    /\ mtx = Free
    /\ Goto(l, "held")
    /\ mtx' = [Free EXCEPT !.own = l]
    /\ UNCHANGED <<ts, tc, owner, oncpu>>

-----------------------------------------------------------------------------
(* mutex_exit and mutex_vector_exit                                        *)

\* Test for waiters ...
Exit(l) ==
    /\ At(l, "held")
    /\ Goto(l, IF mtx.waiters THEN "xlookup" ELSE "store")
    /\ UNCHANGED <<mtx, ts, tc, owner, oncpu>>

\* ... and, a moment later, clear the word, whatever it has become.
Store(l) ==
    /\ At(l, "store")
    /\ Goto(l, "idle")
    /\ mtx' = Free
    /\ UNCHANGED <<ts, tc, owner, oncpu>>

\* Waiters were seen: take the chain lock, release, wake the sleepers.
ExitLookup(l) ==
    /\ At(l, "xlookup")
    /\ tc = None
    /\ Goto(l, "xrelease")
    /\ tc' = l
    /\ UNCHANGED <<mtx, ts, owner, oncpu>>

ExitRelease(l) ==
    /\ At(l, "xrelease")
    /\ Goto(l, "xwakeup")
    /\ mtx' = Free
    /\ UNCHANGED <<ts, tc, owner, oncpu>>

\* TS_WAITERS(ts, TS_WRITER_Q) of the sleepers: all of them.
Woken(S) == S

\* turnstile_wakeup(), or turnstile_exit() when nobody sleeps.
ExitWakeup(l) ==
    /\ At(l, "xwakeup")
    /\ pc' = [k \in Lwp |-> IF k \in Woken(ts) THEN "reload"
                            ELSE IF k = l THEN "idle" ELSE pc[k]]
    /\ ts' = ts \ Woken(ts)
    /\ tc' = None
    /\ UNCHANGED <<mtx, owner, oncpu>>

-----------------------------------------------------------------------------
(* The scheduler: mi_switch(), and _kernel_lock() while it waits           *)

\* Where an LWP may be switched away.  Not while it holds the chain lock or
\* has preemption disabled; and not between the test and the store of
\* mutex_exit, because mi_switch() completes the store first (a store fence)
\* and an interrupted test-and-store is not resumed halfway (splhigh, or a
\* single instruction in the stub).
Preemptible == {"idle", "held", "spin", "xlookup"}

SwitchAway(l) ==
    /\ oncpu[l]
    /\ pc[l] \in Preemptible
    /\ oncpu' = [oncpu EXCEPT ![l] = FALSE]
    /\ UNCHANGED <<mtx, ts, tc, pc, owner>>

Resume(l) ==
    /\ ~oncpu[l]
    /\ pc[l] # "sleep"
    /\ oncpu' = [oncpu EXCEPT ![l] = TRUE]
    /\ UNCHANGED <<mtx, ts, tc, pc, owner>>

-----------------------------------------------------------------------------
\* The steps of an LWP once it is inside one of the functions.
Step(l) ==
    \/ Reload(l) \/ Acquire(l) \/ Wait(l) \/ Spin(l) \/ Lookup(l)
    \/ SetWaiters(l) \/ CheckRunning(l) \/ CheckWaiters(l) \/ Block(l)
    \/ Store(l) \/ ExitLookup(l) \/ ExitRelease(l) \/ ExitWakeup(l)

Next == \E l \in Lwp : \/ Step(l)
                       \/ Enter(l) \/ TryEnter(l) \/ Exit(l)
                       \/ SwitchAway(l) \/ Resume(l)

Spec == Init /\ [][Next]_vars

-----------------------------------------------------------------------------
(* Properties                                                              *)

Labels == {"idle", "reload", "loop", "spin", "lookup", "mark", "running",
           "waiters", "block", "sleep", "held", "store", "xlookup",
           "xrelease", "xwakeup"}

TypeOK == /\ mtx \in Word
          /\ ts \subseteq Lwp
          /\ tc \in Lwp \cup {None}
          /\ pc \in [Lwp -> Labels]
          /\ owner \in [Lwp -> Word]
          /\ oncpu \in [Lwp -> BOOLEAN]

Holds(l) == pc[l] \in {"held", "store", "xlookup", "xrelease"}

\* The word names the LWP that is between mutex_enter and the release in
\* mutex_exit, so there is never more than one: the unlocked store of an
\* exit never wipes out a later owner.
MutualExclusion == \A l \in Lwp : Holds(l) <=> mtx.own = l

\* "If the waiters bit is not set it's unsafe to go asleep, as we might never
\* be awoken": while LWPs sleep, the bit is set and the owner has not yet
\* decided to release without looking, or somebody is about to wake them.
NoLostWaiter ==
    ts # {} => \/ mtx.waiters /\ \A l \in Lwp : pc[l] # "store"
               \/ \E l \in Lwp : pc[l] = "xwakeup"

-----------------------------------------------------------------------------
(* Progress                                                                *)

\* An LWP that can run gets a CPU; however often it is switched away it takes
\* its next step sooner or later, whether that is to get the chain lock it
\* spins on or, for the owner, to exit.
Fairness ==
    \A l \in Lwp : SF_vars(Step(l) \/ Exit(l)) /\ WF_vars(Resume(l))
FairSpec == Spec /\ Fairness

\* An LWP that went to sleep on the mutex is woken.
SleeperIsWoken == \A l \in Lwp : pc[l] = "sleep" ~> pc[l] # "sleep"
=============================================================================
