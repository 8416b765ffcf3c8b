------------------------------- MODULE RwLock -------------------------------
(***************************************************************************)
(* The kernel reader/writer lock of sys/kern/kern_rwlock.c, as the slow    *)
(* paths rw_vector_enter, rw_vector_exit, rw_vector_tryenter, rw_downgrade *)
(* and rw_tryupgrade execute it: every load and every compare-and-swap of  *)
(* the lock word is a step of its own, and any number of LWPs interleave.  *)
(*                                                                         *)
(* The lock word is a record.  RW_WRITE_LOCKED and the owner pointer are   *)
(* only ever stored together, so "own # None" stands for both; "cnt" is    *)
(* the read count kept in the same bits when no writer holds the lock.     *)
(* LWPs asleep on the lock are in the two queues of its turnstile, which   *)
(* the turnstile chain lock "tc" protects.  The order within a queue       *)
(* depends on the priorities of the sleepers and is left open.             *)
(***************************************************************************)
EXTENDS Integers, FiniteSets

CONSTANTS
    Lwp,    \* the LWPs that use the lock
    None    \* no LWP (a null pointer)

ASSUME LwpAssumption == IsFiniteSet(Lwp) /\ None \notin Lwp

VARIABLES
    rw,     \* rw->rw_owner
    ts,     \* the turnstile's reader and writer sleep queues
    tc,     \* the LWP holding the turnstile chain lock, or None
    pc,     \* where each LWP is
    op,     \* "R" or "W": the access an LWP asks for, or has
    owner   \* each LWP's local copy of the lock word

vars == <<rw, ts, tc, pc, op, owner>>

Mode == {"R", "W"}
Word == [own : Lwp \cup {None}, cnt : Nat, hw : BOOLEAN, ww : BOOLEAN]

\* A word with the given owner and read count; "wait" sets both waiter bits.
\* (The variant loses the bits.)
MkWordNoBits(own, cnt, wait) ==
    [own |-> own, cnt |-> cnt, hw |-> FALSE, ww |-> FALSE]
MkWord(own, cnt, wait) == [own |-> own, cnt |-> cnt, hw |-> wait, ww |-> wait]
Unlocked == MkWord(None, 0, FALSE)

-----------------------------------------------------------------------------
(* The arithmetic on the lock word.                                        *)

\* (w & RW_THREAD) == 0
NoThread(w) == w.own = None /\ w.cnt = 0

\* (w & need_wait) != 0
NeedWait(m, w) == w.own # None \/ IF m = "R" THEN w.ww ELSE w.cnt # 0

\* w + incr and w - decr
Plus(l, m, w) ==
    IF m = "R" THEN [w EXCEPT !.cnt = @ + 1] ELSE [w EXCEPT !.own = l]
Minus(m, w) ==
    IF m = "R" THEN [w EXCEPT !.cnt = @ - 1] ELSE [w EXCEPT !.own = None]

\* (w + incr) & ~RW_WRITE_WANTED: what rw_vector_enter acquires with.
Acquired(l, m, w) == [Plus(l, m, w) EXCEPT !.ww = FALSE]

\* (w & (RW_THREAD | RW_HAS_WAITERS)) == RW_HAS_WAITERS: the release would
\* free a lock that has waiters.
\* (The variant tests for waiting writers only.)
FreedWithWriters(w) == NoThread(w) /\ w.ww
FreedWithWaiters(w) == NoThread(w) /\ w.hw

\* (w & RW_THREAD) == RW_READ_INCR, for a word that is not write locked.
\* (The variant settles for any reader.)
SomeReader(w) == w.cnt >= 1
SoleReader(w) == w.cnt = 1

\* w | set_wait
\* (The variant never asks for writers to be let in.)
SetWaitOnly(m, w) == [w EXCEPT !.hw = TRUE]
SetWait(m, w) == [w EXCEPT !.hw = TRUE, !.ww = @ \/ m = "W"]

\* The words for which rw_oncpu() can be true: write locked, no waiters.
\* Whether the owner is on a CPU at that moment is not the lock's state.
MaySpin(w) == w.own # None /\ ~w.hw

-----------------------------------------------------------------------------
Init == /\ rw = Unlocked
        /\ ts = [m \in Mode |-> {}]
        /\ tc = None
        /\ pc = [l \in Lwp |-> "idle"]
        /\ op = [l \in Lwp |-> "R"]
        /\ owner = [l \in Lwp |-> Unlocked]

\* LWP l goes to label p; w becomes its copy of the lock word, or the copy
\* goes out of use.
Goto(l, p) == pc' = [pc EXCEPT ![l] = p]
Load(l, w) == owner' = [owner EXCEPT ![l] = w]
Forget(l) == Load(l, Unlocked)
Holding(l) == IF op[l] = "R" THEN "read" ELSE "write"

-----------------------------------------------------------------------------
(* rw_vector_enter                                                         *)

\* The first load of the word.
Enter(l, m) ==
    /\ pc[l] = "idle"
    /\ op' = [op EXCEPT ![l] = m]
    /\ Load(l, rw)
    /\ Goto(l, "loop")
    /\ UNCHANGED <<rw, ts, tc>>

\* No need to wait: try to acquire, dropping RW_WRITE_WANTED.
EnterCas(l) ==
    /\ pc[l] = "loop"
    /\ ~NeedWait(op[l], owner[l])
    /\ \/ /\ rw = owner[l]
          /\ rw' = Acquired(l, op[l], owner[l])
          /\ Goto(l, Holding(l))
          /\ Forget(l)
       \/ /\ rw # owner[l]
          /\ Load(l, rw)
          /\ UNCHANGED <<rw, pc>>
    /\ UNCHANGED <<ts, tc, op>>

\* Have to wait: spin while the owner runs, or go for the turnstile.
EnterWait(l) ==
    /\ pc[l] = "loop"
    /\ NeedWait(op[l], owner[l])
    /\ \/ MaySpin(owner[l]) /\ Goto(l, "spin")
       \/ Goto(l, "lookup")
    /\ Forget(l)
    /\ UNCHANGED <<rw, ts, tc, op>>

Spin(l) ==
    /\ pc[l] = "spin"
    /\ \/ MaySpin(rw) /\ UNCHANGED <<pc, owner>>
       \/ NeedWait(op[l], rw) /\ Goto(l, "lookup") /\ UNCHANGED owner
       \/ ~NeedWait(op[l], rw) /\ Goto(l, "loop") /\ Load(l, rw)
    /\ UNCHANGED <<rw, ts, tc, op>>

\* turnstile_lookup() takes the chain lock.
Lookup(l) ==
    /\ pc[l] = "lookup"
    /\ tc = None
    /\ tc' = l
    /\ Goto(l, "recheck")
    /\ UNCHANGED <<rw, ts, op, owner>>

\* Reload the word; the wait may be over, or the owner running.
Recheck(l) ==
    /\ pc[l] = "recheck"
    /\ Load(l, rw)
    /\ \/ /\ ~NeedWait(op[l], rw) \/ MaySpin(rw)
          /\ tc' = None
          /\ Goto(l, "loop")
       \/ /\ NeedWait(op[l], rw)
          /\ Goto(l, "setwait")
          /\ UNCHANGED tc
    /\ UNCHANGED <<rw, ts, op>>

\* Mark the lock as having waiters.
MarkWaiters(l) ==
    /\ pc[l] = "setwait"
    /\ \/ /\ rw = owner[l]
          /\ rw' = SetWait(op[l], owner[l])
          /\ Goto(l, "block")
          /\ Forget(l)
          /\ UNCHANGED tc
       \/ /\ rw # owner[l]
          /\ Load(l, rw)
          /\ tc' = None
          /\ Goto(l, "loop")
          /\ UNCHANGED rw
    /\ UNCHANGED <<ts, op>>

\* turnstile_block(): onto the queue, drop the chain lock, sleep.
Block(l) ==
    /\ pc[l] = "block"
    /\ ts' = [ts EXCEPT ![op[l]] = @ \cup {l}]
    /\ tc' = None
    /\ Goto(l, "sleep")
    /\ UNCHANGED <<rw, op, owner>>

\* Back from turnstile_block(): a reader has been handed the lock, a writer
\* has it only if the word names it.
Awake(l) ==
    /\ pc[l] = "woken"
    /\ \/ /\ op[l] = "R" \/ rw.own = l
          /\ Goto(l, Holding(l))
          /\ Forget(l)
       \/ /\ op[l] = "W" /\ rw.own # l
          /\ Load(l, rw)
          /\ Goto(l, "loop")
    /\ UNCHANGED <<rw, ts, tc, op>>

-----------------------------------------------------------------------------
(* rw_vector_exit                                                          *)

\* turnstile_wakeup(): take the LWPs of S, all on queue m, off the turnstile
\* and drop the chain lock.  l, who does it, goes to label p.
Wakeup(l, m, S, p) ==
    /\ ts' = [ts EXCEPT ![m] = @ \ S]
    /\ tc' = None
    /\ pc' = [k \in Lwp |-> IF k \in S THEN "woken"
                            ELSE IF k = l THEN p ELSE pc[k]]

\* The first load tells a write hold from a read hold.
Exit(l) ==
    /\ pc[l] \in {"read", "write"}
    /\ op' = [op EXCEPT ![l] = IF rw.own # None THEN "W" ELSE "R"]
    /\ Load(l, rw)
    /\ Goto(l, "release")
    /\ UNCHANGED <<rw, ts, tc>>

\* Subtract the hold, unless that would free a lock with waiters.
Release(l) ==
    /\ pc[l] = "release"
    /\ LET newown == Minus(op[l], owner[l]) IN
       \/ /\ FreedWithWaiters(newown)
          /\ Goto(l, "xlookup")
          /\ Forget(l)
          /\ UNCHANGED rw
       \/ /\ ~FreedWithWaiters(newown)
          /\ rw = owner[l]
          /\ rw' = newown
          /\ Goto(l, "idle")
          /\ Forget(l)
       \/ /\ ~FreedWithWaiters(newown)
          /\ rw # owner[l]
          /\ Load(l, rw)
          /\ UNCHANGED <<rw, pc>>
    /\ UNCHANGED <<ts, tc, op>>

ExitLookup(l) ==
    /\ pc[l] = "xlookup"
    /\ tc = None
    /\ tc' = l
    /\ Load(l, rw)
    /\ Goto(l, "handoff")
    /\ UNCHANGED <<rw, ts, op>>

\* The release of a read lock, or of a write lock no reader waits for: hand
\* the lock to the first writer if readers wait too, else wake all writers.
HandToWriters(l) ==
    /\ ts["R"] = {} \/ op[l] = "R"
    /\ \/ /\ ts["R"] # {}
          /\ \E w \in ts["W"] :
                /\ rw' = [own |-> w, cnt |-> 0, hw |-> TRUE,
                          ww |-> ts["W"] # {w}]
                /\ Wakeup(l, "W", {w}, "idle")
       \/ /\ ts["R"] = {}
          /\ rw' = [Unlocked EXCEPT !.ww = TRUE]
          /\ Wakeup(l, "W", ts["W"], "idle")

\* The release of a write lock that readers wait for: they all get it.
HandToReaders(l) ==
    /\ ts["R"] # {} /\ op[l] = "W"
    /\ rw' = MkWord(None, Cardinality(ts["R"]), ts["W"] # {})
    /\ Wakeup(l, "R", ts["R"], "idle")

\* rw_swap() and turnstile_wakeup() under the chain lock are one step: only
\* LWPs that sleep, and so take no step, can tell the two apart.
\* (The variant prefers readers whoever releases.)
HandoffReadersFirst(l) ==
    /\ pc[l] = "handoff"
    /\ \/ /\ ts["R"] # {}
          /\ rw' = MkWord(None, Cardinality(ts["R"]), ts["W"] # {})
          /\ Wakeup(l, "R", ts["R"], "idle")
       \/ ts["R"] = {} /\ HandToWriters(l)
    /\ Forget(l)
    /\ UNCHANGED op
Handoff(l) ==
    /\ pc[l] = "handoff"
    /\ HandToWriters(l) \/ HandToReaders(l)
    /\ Forget(l)
    /\ UNCHANGED op

-----------------------------------------------------------------------------
(* rw_vector_tryenter                                                      *)

\* A try that finds the lock taken returns 0 and changes nothing.
TryEnter(l, m) ==
    /\ pc[l] = "idle"
    /\ ~NeedWait(m, rw)
    /\ op' = [op EXCEPT ![l] = m]
    /\ Load(l, rw)
    /\ Goto(l, "try")
    /\ UNCHANGED <<rw, ts, tc>>

\* Unlike rw_vector_enter, this keeps RW_WRITE_WANTED as it is.
TryCas(l) ==
    /\ pc[l] = "try"
    /\ \/ /\ rw = owner[l]
          /\ rw' = Plus(l, op[l], owner[l])
          /\ Goto(l, Holding(l))
          /\ Forget(l)
       \/ /\ rw # owner[l]
          /\ IF NeedWait(op[l], rw)
             THEN Goto(l, "idle") /\ Forget(l)
             ELSE UNCHANGED pc /\ Load(l, rw)
          /\ UNCHANGED rw
    /\ UNCHANGED <<ts, tc, op>>

-----------------------------------------------------------------------------
(* rw_downgrade and rw_tryupgrade                                          *)

Downgrade(l) ==
    /\ pc[l] = "write"
    /\ Load(l, rw)
    /\ Goto(l, IF rw.hw THEN "dlookup" ELSE "dcas")
    /\ UNCHANGED <<rw, ts, tc, op>>

\* No waiters were seen: straight down to one read hold.
DowngradeCas(l) ==
    /\ pc[l] = "dcas"
    /\ \/ /\ rw = owner[l]
          /\ rw' = MkWord(None, 1, FALSE)
          /\ op' = [op EXCEPT ![l] = "R"]
          /\ Goto(l, "read")
          /\ Forget(l)
       \/ /\ rw # owner[l]
          /\ Load(l, rw)
          /\ Goto(l, "dlookup")
          /\ UNCHANGED <<rw, op>>
    /\ UNCHANGED <<ts, tc>>

DowngradeLookup(l) ==
    /\ pc[l] = "dlookup"
    /\ tc = None
    /\ tc' = l
    /\ Goto(l, "dswap")
    /\ UNCHANGED <<rw, ts, op, owner>>

\* Keep one read hold and give one to every sleeping reader.
DowngradeSwap(l) ==
    /\ pc[l] = "dswap"
    /\ \/ /\ rw = owner[l]
          /\ rw' = IF ts["R"] = {}
                   THEN MkWord(None, 1, TRUE)
                   ELSE MkWord(None, Cardinality(ts["R"]) + 1, ts["W"] # {})
          /\ op' = [op EXCEPT ![l] = "R"]
          /\ Wakeup(l, "R", ts["R"], "read")
          /\ Forget(l)
       \/ /\ rw # owner[l]
          /\ Load(l, rw)
          /\ tc' = None
          /\ Goto(l, "dlookup")
          /\ UNCHANGED <<rw, ts, op>>

TryUpgrade(l) ==
    /\ pc[l] = "read"
    /\ Load(l, rw)
    /\ Goto(l, "up")
    /\ UNCHANGED <<rw, ts, tc, op>>

\* Only the sole reader becomes the writer; the waiter bits stay.
UpgradeCas(l) ==
    /\ pc[l] = "up"
    /\ \/ /\ ~SoleReader(owner[l])
          /\ Goto(l, "read")
          /\ Forget(l)
          /\ UNCHANGED <<rw, op>>
       \/ /\ SoleReader(owner[l]) /\ rw = owner[l]
          /\ rw' = [owner[l] EXCEPT !.own = l, !.cnt = 0]
          /\ op' = [op EXCEPT ![l] = "W"]
          /\ Goto(l, "write")
          /\ Forget(l)
       \/ /\ SoleReader(owner[l]) /\ rw # owner[l]
          /\ Load(l, rw)
          /\ UNCHANGED <<rw, pc, op>>
    /\ UNCHANGED <<ts, tc>>

-----------------------------------------------------------------------------
\* The steps an LWP takes once it is inside one of the functions.
Step(l) ==
    \/ EnterCas(l) \/ EnterWait(l) \/ Spin(l) \/ Lookup(l) \/ Recheck(l)
    \/ MarkWaiters(l) \/ Block(l) \/ Awake(l)
    \/ Release(l) \/ ExitLookup(l) \/ Handoff(l)
    \/ TryCas(l)
    \/ DowngradeCas(l) \/ DowngradeLookup(l) \/ DowngradeSwap(l)
    \/ UpgradeCas(l)

\* The calls an LWP may make.
Call(l) ==
    \/ \E m \in Mode : Enter(l, m) \/ TryEnter(l, m)
    \/ Exit(l) \/ Downgrade(l) \/ TryUpgrade(l)

Next == \E l \in Lwp : Step(l) \/ Call(l)

Spec == Init /\ [][Next]_vars
-----------------------------------------------------------------------------
(* Properties                                                              *)

Labels == {"idle", "loop", "spin", "lookup", "recheck", "setwait", "block",
           "sleep", "woken", "read", "write", "release", "xlookup", "handoff",
           "try", "dcas", "dlookup", "dswap", "up"}

TypeOK == /\ rw \in Word
          /\ ts \in [Mode -> SUBSET Lwp]
          /\ tc \in Lwp \cup {None}
          /\ pc \in [Lwp -> Labels]
          /\ op \in [Lwp -> Mode]
          /\ owner \in [Lwp -> Word]

\* Who holds the lock.  A sleeper that was handed the lock holds it from the
\* moment of the hand-off, before it runs again.
ReadHolder(l) ==
    \/ pc[l] \in {"read", "up"}
    \/ pc[l] \in {"release", "xlookup", "handoff", "woken"} /\ op[l] = "R"
WriteHolder(l) ==
    \/ pc[l] \in {"write", "dcas", "dlookup", "dswap"}
    \/ pc[l] \in {"release", "xlookup", "handoff"} /\ op[l] = "W"
    \/ pc[l] = "woken" /\ op[l] = "W" /\ rw.own = l
Readers == {l \in Lwp : ReadHolder(l)}

\* A writer that is inside rw_vector_enter, does not sleep, and will either
\* acquire the lock or mark it and sleep.
AwakeWriter(l) ==
    /\ op[l] = "W"
    /\ \/ pc[l] \in {"loop", "spin", "lookup", "recheck", "setwait"}
       \/ pc[l] = "woken" /\ rw.own # l

\* The lock excludes: through every hand-off, downgrade, upgrade and retry
\* the word counts exactly the LWPs that hold the lock for reading, names
\* exactly the one that holds it for writing, and never both.
Exclusion ==
    /\ rw.cnt = Cardinality(Readers)
    /\ \A l \in Lwp : WriteHolder(l) <=> rw.own = l
    /\ rw.own # None => rw.cnt = 0

\* What rw_vector_exit and rw_downgrade assert (RW_DASSERT, in LOCKDEBUG
\* kernels only) once they hold the chain lock: there is a turnstile, the
\* waiter bits agree with its queues, and the word rw_swap() overwrites is
\* still the one that was read.
HandoffAsserts ==
    \A l \in Lwp :
        /\ pc[l] = "handoff" =>
              /\ rw = owner[l] /\ rw.hw
              /\ ts["R"] = {} \/ op[l] = "R" => ts["W"] # {} /\ rw.ww
        /\ pc[l] = "dswap" =>
              /\ ts["R"] \cup ts["W"] # {}
              /\ ts["R"] = {} => ts["W"] # {} /\ rw.hw /\ rw.ww

\* No waiter is left behind: while any LWP sleeps on the lock the word says
\* so, and either somebody holds the lock, and will find them on releasing
\* it, or a woken writer is still on its way to the lock.
NoOrphanedWaiter ==
    ts["R"] \cup ts["W"] # {} =>
        /\ rw.hw
        /\ ~NoThread(rw) \/ \E l \in Lwp : AwakeWriter(l)

\* RW_WRITE_WANTED never sticks: it keeps new readers out of a lock only as
\* long as a writer sleeps on it or is on its way to it.
WriteWantedIsTrue ==
    rw.ww => \E l \in Lwp : \/ AwakeWriter(l)
                            \/ op[l] = "W" /\ pc[l] \in {"block", "sleep"}

\* An LWP that asks for the lock, and the mode each asks for.
Asks(l) == \/ pc[l] \in {"loop", "spin", "lookup", "recheck", "setwait",
                         "block", "sleep", "try"}
           \/ pc[l] = "woken" /\ op[l] = "W" /\ rw.own # l
Want == [l \in Lwp |-> IF Asks(l) THEN op[l] ELSE "-"]

\* Seen from outside, the lock is a readers/writer lock: nobody is granted it
\* who did not ask, a downgrade lets no writer in between, an upgrade no one,
\* and a hand-off passes the lock on without ever granting it twice.
Abstract == INSTANCE ReadersWriter WITH
    want <- Want, readers <- Readers, writer <- rw.own
IsReadersWriter == Abstract!Spec

-----------------------------------------------------------------------------
(* Progress                                                                *)

\* LWPs that are inside the lock's functions keep running, those that hold
\* the lock release it sooner or later, and an LWP spinning on the turnstile
\* chain lock gets it eventually.
Fairness ==
    \A l \in Lwp : /\ WF_vars(Step(l)) /\ WF_vars(Exit(l))
                   /\ SF_vars(Lookup(l)) /\ SF_vars(ExitLookup(l))

FairSpec == Spec /\ Fairness

\* Progress is promised to LWPs that enter, try and exit.  Holders that keep
\* upgrading and downgrading overtake sleeping writers for as long as they
\* like: rw_tryupgrade ignores RW_WRITE_WANTED and rw_downgrade hands the
\* lock to all sleeping readers.
EnterExit(l) ==
    \/ Step(l)
    \/ \E m \in Mode : Enter(l, m) \/ TryEnter(l, m)
    \/ Exit(l)
NoMoreConversions == <>[][\E l \in Lwp : EnterExit(l)]_vars

\* A reader that went to sleep is handed the lock, whatever the others do.
SleepingReaderGetsLock ==
    \A l \in Lwp : pc[l] = "sleep" /\ op[l] = "R" ~> pc[l] = "read"

\* While writers sleep, one of them is sure to be woken: readers cannot keep
\* the lock from all of them, unless holders upgrade and downgrade for ever.
SleepingWritersAreWoken ==
    NoMoreConversions =>
        (ts["W"] # {} ~> \E l \in Lwp : pc[l] = "woken" /\ op[l] = "W")
=============================================================================
