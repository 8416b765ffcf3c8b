------------------------------ MODULE SpinMutex ------------------------------
(***************************************************************************)
(* Spin mutexes of sys/kern/kern_mutex.c: a simple lock per mutex and, per *)
(* CPU, the interrupt priority level bookkeeping of MUTEX_SPIN_SPLRAISE    *)
(* and MUTEX_SPIN_SPLRESTORE.  All spin mutexes a CPU holds share one      *)
(* saved level, ci_mtx_oldspl, and one count, ci_mtx_count, which runs     *)
(* down from zero.  Interrupts arrive between any two of the steps, and    *)
(* their handlers take spin mutexes too.                                   *)
(*                                                                         *)
(* The contexts of a CPU are numbered by interrupt priority level: 0 is    *)
(* the LWP, i > 0 the handler of interrupts at level i.  What the contexts *)
(* do with mutexes follows the kernel's rules: a handler takes no mutex of *)
(* a lower level than its own, and nested mutexes are taken in the order   *)
(* of their numbers, which goes with their levels.                         *)
(***************************************************************************)
EXTENDS Integers, FiniteSets, Cpus

CONSTANTS
    MaxIpl,     \* the highest interrupt priority level
    MaxMutex,   \* the mutexes are 1 .. MaxMutex
    Ipl,        \* mtx->mtx_ipl of each
    NoCpu       \* no CPU

Level == 0 .. MaxIpl
Mutexes == 1 .. MaxMutex

ASSUME SpinMutexAssumption ==
    /\ NoCpu \notin Cpu
    /\ MaxIpl \in Nat /\ MaxMutex \in Nat
    /\ Ipl \in [Mutexes -> 1 .. MaxIpl]
    /\ \A m, n \in Mutexes : m < n => Ipl[m] <= Ipl[n]

VARIABLES
    lock,       \* mtx->mtx_lock: the CPU that has it locked, or NoCpu
    spl,        \* the current interrupt priority level of each CPU
    count,      \* ci->ci_mtx_count
    oldspl,     \* ci->ci_mtx_oldspl
    active,     \* the contexts of each CPU that have begun and not returned
    spc,        \* where each context of each CPU is
    mtx,        \* the mutex it is entering or exiting
    s,          \* its local variable s
    held,       \* the mutexes it holds
    entry       \* the level it interrupted, restored when it returns

spinvars == <<lock, spl, count, oldspl, active, spc, mtx, s, held, entry>>

SpinInit == /\ lock = [m \in Mutexes |-> NoCpu]
            /\ spl = [c \in Cpu |-> 0]
            /\ count = [c \in Cpu |-> 0]
            /\ oldspl = [c \in Cpu |-> 0]
            /\ active = [c \in Cpu |-> {0}]
            /\ spc = [c \in Cpu |-> [i \in Level |-> "run"]]
            /\ mtx = [c \in Cpu |-> [i \in Level |-> 0]]
            /\ s = [c \in Cpu |-> [i \in Level |-> 0]]
            /\ held = [c \in Cpu |-> [i \in Level |-> {}]]
            /\ entry = [c \in Cpu |-> [i \in Level |-> 0]]

\* The context that runs on CPU c is the last to have begun.
Running(c) == CHOOSE i \in active[c] : \A j \in active[c] : j <= i
At(c, i, p) == i = Running(c) /\ spc[c][i] = p
SpinGoto(c, i, p) == spc' = [spc EXCEPT ![c][i] = p]
Raised(a, b) == IF a > b THEN a ELSE b

-----------------------------------------------------------------------------
(* MUTEX_SPIN_SPLRAISE                                                     *)

\* s = splraiseipl(MUTEX_SPIN_IPL(mtx)).  A context that enters a mutex with
\* mutex_enter ("enter") or mutex_tryenter ("try") starts here.
\* (The variant raises to one level too few.)
RaiseShort(c, i, m, how) ==
    /\ At(c, i, "run")
    /\ Ipl[m] >= i /\ \A h \in held[c][i] : h < m
    /\ s' = [s EXCEPT ![c][i] = spl[c]]
    /\ spl' = [spl EXCEPT ![c] = Raised(@, Ipl[m] - 1)]
    /\ mtx' = [mtx EXCEPT ![c][i] = m]
    /\ SpinGoto(c, i, how)
    /\ UNCHANGED <<lock, count, oldspl, active, held, entry>>
Raise(c, i, m, how) ==
    /\ At(c, i, "run")
    /\ Ipl[m] >= i /\ \A h \in held[c][i] : h < m
    /\ s' = [s EXCEPT ![c][i] = spl[c]]
    /\ spl' = [spl EXCEPT ![c] = Raised(@, Ipl[m])]
    /\ mtx' = [mtx EXCEPT ![c][i] = m]
    /\ SpinGoto(c, i, how)
    /\ UNCHANGED <<lock, count, oldspl, active, held, entry>>

\* The labels of the two callers after ci_mtx_count has been decremented.
Saving == [enter |-> "enter_save", try |-> "try_save"]
Locking == [enter |-> "enter_lock", try |-> "try_lock"]

\* x__cnt = ci_mtx_count--
CountDown(c, i, how) ==
    /\ At(c, i, how)
    /\ count' = [count EXCEPT ![c] = @ - 1]
    /\ IF count[c] = 0 THEN SpinGoto(c, i, Saving[how]) /\ UNCHANGED s
       ELSE /\ SpinGoto(c, i, Locking[how])
            /\ s' = [s EXCEPT ![c][i] = 0]
    /\ UNCHANGED <<lock, spl, oldspl, active, mtx, held, entry>>

\* if (x__cnt == 0) ci_mtx_oldspl = s
Save(c, i, how) ==
    /\ At(c, i, Saving[how])
    /\ oldspl' = [oldspl EXCEPT ![c] = s[c][i]]
    /\ s' = [s EXCEPT ![c][i] = 0]
    /\ SpinGoto(c, i, Locking[how])
    /\ UNCHANGED <<lock, spl, count, active, mtx, held, entry>>

-----------------------------------------------------------------------------
(* The lock itself                                                         *)

\* MUTEX_SPINBIT_LOCK_TRY succeeds; until it does mutex_enter spins.
TryLock(c, i, how) ==
    /\ At(c, i, Locking[how])
    /\ lock[mtx[c][i]] = NoCpu
    /\ lock' = [lock EXCEPT ![mtx[c][i]] = c]
    /\ held' = [held EXCEPT ![c][i] = @ \cup {mtx[c][i]}]
    /\ mtx' = [mtx EXCEPT ![c][i] = 0]
    /\ SpinGoto(c, i, "run")
    /\ UNCHANGED <<spl, count, oldspl, active, s, entry>>

\* mutex_tryenter does not get the lock and restores the level.
TryFails(c, i) ==
    /\ At(c, i, "try_lock")
    /\ lock[mtx[c][i]] # NoCpu
    /\ mtx' = [mtx EXCEPT ![c][i] = 0]
    /\ SpinGoto(c, i, "restore")
    /\ UNCHANGED <<lock, spl, count, oldspl, active, s, held, entry>>

\* mutex_exit: MUTEX_SPINBIT_LOCK_UNLOCK.  Mutexes are exited in any order.
\* (The variant forgets to unlock.)
UnlockKeeping(c, i, m) ==
    /\ At(c, i, "run")
    /\ m \in held[c][i]
    /\ held' = [held EXCEPT ![c][i] = @ \ {m}]
    /\ SpinGoto(c, i, "restore")
    /\ UNCHANGED <<lock, spl, count, oldspl, active, mtx, s, entry>>
Unlock(c, i, m) ==
    /\ At(c, i, "run")
    /\ m \in held[c][i]
    /\ lock' = [lock EXCEPT ![m] = NoCpu]
    /\ held' = [held EXCEPT ![c][i] = @ \ {m}]
    /\ SpinGoto(c, i, "restore")
    /\ UNCHANGED <<spl, count, oldspl, active, mtx, s, entry>>

-----------------------------------------------------------------------------
(* MUTEX_SPIN_SPLRESTORE                                                   *)

\* s = ci_mtx_oldspl, read before the count says whether it is needed.
LoadSpl(c, i) ==
    /\ At(c, i, "restore")
    /\ s' = [s EXCEPT ![c][i] = oldspl[c]]
    /\ SpinGoto(c, i, "count_up")
    /\ UNCHANGED <<lock, spl, count, oldspl, active, mtx, held, entry>>

\* ++ci_mtx_count == 0
CountUp(c, i) ==
    /\ At(c, i, "count_up")
    /\ count' = [count EXCEPT ![c] = @ + 1]
    /\ IF count'[c] = 0 THEN SpinGoto(c, i, "splx") /\ UNCHANGED s
       ELSE /\ SpinGoto(c, i, "run")
            /\ s' = [s EXCEPT ![c][i] = 0]
    /\ UNCHANGED <<lock, spl, oldspl, active, mtx, held, entry>>

\* splx(s)
\* (The variant drops the local copy and leaves the level raised.)
SplxDropped(c, i) ==
    /\ At(c, i, "splx")
    /\ s' = [s EXCEPT ![c][i] = 0]
    /\ SpinGoto(c, i, "run")
    /\ UNCHANGED <<lock, count, spl, oldspl, active, mtx, held, entry>>
Splx(c, i) ==
    /\ At(c, i, "splx")
    /\ spl' = [spl EXCEPT ![c] = s[c][i]]
    /\ s' = [s EXCEPT ![c][i] = 0]
    /\ SpinGoto(c, i, "run")
    /\ UNCHANGED <<lock, count, oldspl, active, mtx, held, entry>>

-----------------------------------------------------------------------------
(* Interrupts                                                              *)

Interrupted(c, i) ==
    /\ i > spl[c]
    /\ active' = [active EXCEPT ![c] = @ \cup {i}]
    /\ entry' = [entry EXCEPT ![c][i] = spl[c]]
    /\ spl' = [spl EXCEPT ![c] = i]
    /\ UNCHANGED <<lock, count, oldspl, spc, mtx, s, held>>

Returns(c, i) ==
    /\ i > 0
    /\ At(c, i, "run") /\ held[c][i] = {}
    /\ active' = [active EXCEPT ![c] = @ \ {i}]
    /\ spl' = [spl EXCEPT ![c] = entry[c][i]]
    /\ entry' = [entry EXCEPT ![c][i] = 0]
    /\ UNCHANGED <<lock, count, oldspl, spc, mtx, s, held>>

-----------------------------------------------------------------------------
SpinNext ==
    \E c \in Cpu, i \in Level :
        \/ \E how \in {"enter", "try"} :
              \/ \E m \in Mutexes : Raise(c, i, m, how)
              \/ CountDown(c, i, how) \/ Save(c, i, how) \/ TryLock(c, i, how)
        \/ TryFails(c, i)
        \/ \E m \in Mutexes : Unlock(c, i, m)
        \/ LoadSpl(c, i) \/ CountUp(c, i) \/ Splx(c, i)
        \/ Interrupted(c, i) \/ Returns(c, i)

SpinSpec == SpinInit /\ [][SpinNext]_spinvars

-----------------------------------------------------------------------------
(* Properties                                                              *)

Labels == {"run", "enter", "enter_save", "enter_lock", "try", "try_save",
           "try_lock", "restore", "count_up", "splx"}


\* A mutex that a context holds is locked by that CPU and by nobody else, and
\* as long as it is held the CPU takes no interrupt at the mutex's level: no
\* nesting of handlers and no order of exits lowers the level too early.
HeldIsProtected ==
    \A c \in Cpu, i \in Level : \A m \in held[c][i] :
        /\ lock[m] = c
        /\ spl[c] >= Ipl[m]
        /\ \A d \in Cpu, j \in Level : m \in held[d][j] => d = c /\ j = i

\* "locking against myself": a CPU never spins on a mutex that it holds, in
\* this or in an interrupted context.
NeverAgainstMyself ==
    \A c \in Cpu, i \in Level :
        spc[c][i] \in {"enter_lock", "try_lock"} => lock[mtx[c][i]] # c

\* When a CPU has exited all its spin mutexes it is back at the level of the
\* context that runs; so an LWP that holds none has every interrupt enabled.
\* (A handler that interrupted the holder of a mutex stays at the level of the
\* highest mutex it has taken itself until it returns.)
LevelIsRestored ==
    \A c \in Cpu : LET i == Running(c) IN
        spc[c][i] = "run" =>
            /\ count[c] = 0 => spl[c] = i
            /\ i = 0 /\ held[c][0] = {} => spl[c] = 0
=============================================================================
