------------------------------- MODULE CondVar ------------------------------
(***************************************************************************)
(* Condition variables, sys/kern/kern_condvar.c, over the sleep queues of  *)
(* sys/kern/kern_sleepq.c: cv_wait and its timed and interruptible forms,  *)
(* cv_signal, cv_broadcast, time-outs, signals and priority changes.       *)
(*                                                                         *)
(* The condition is the one most callers have: something is available or   *)
(* is not.  Takers wait for it as callers do, testing again after each     *)
(* wait and giving up when a wait fails; givers add to it and wake.        *)
(*                                                                         *)
(* The sleep queue lock is held within a step, but for sleepq_reinsert: it *)
(* moves an LWP in two steps, between which cv_signal may look at the      *)
(* queue, for it does so without the lock.                                 *)
(***************************************************************************)
EXTENDS FiniteSets, SleepQueue

CONSTANTS
    Taker, Giver,   \* the LWPs
    Prio,           \* the priorities
    MaxAvail,       \* bound: how much is available at most
    None            \* no LWP

Lwp == Taker \cup Giver

ASSUME CondVarAssumption ==
    /\ IsFiniteSet(Lwp) /\ Taker \cap Giver = {} /\ None \notin Lwp
    /\ Prio \subseteq Nat /\ MaxAvail \in Nat

VARIABLES
    mtx,        \* the LWP that holds the interlock, or None
    avail,      \* the condition: how much is available
    sq,         \* CV_SLEEPQ(cv)
    moving,     \* the LWP sleepq_reinsert is moving, with the queue locked
    prio,       \* lwp_eprio(l)
    pc,         \* where each LWP is
    timed,      \* the LWPs whose wait has a time-out
    catch,      \* the LWPs whose wait is interruptible
    timo,       \* l->l_timeout_ch
    sig,        \* the LWPs with a signal pending (LW_PENDSIG)
    stopped,    \* the LWPs in LSSTOP
    error       \* the LWPs for which sleepq_block returns an error

vars == <<mtx, avail, sq, moving, prio, pc, timed, catch, timo, sig, stopped,
          error>>
waitvars == <<timed, catch, timo, sig, stopped, error>>

Init == /\ mtx = None /\ avail = 0
        /\ sq = << >> /\ moving = None
        /\ prio \in [Lwp -> Prio]
        /\ pc = [l \in Lwp |-> "idle"]
        /\ timed = {} /\ catch = {}
        /\ timo = [l \in Lwp |-> "off"]
        /\ sig = {} /\ stopped = {} /\ error = {}

Goto(l, p) == pc' = [pc EXCEPT ![l] = p]

-----------------------------------------------------------------------------
(* The callers                                                             *)

MutexEnter(l) ==
    /\ pc[l] = "idle"
    /\ mtx = None
    /\ mtx' = l
    /\ Goto(l, IF l \in Taker THEN "test" ELSE "give")
    /\ UNCHANGED <<avail, sq, moving, prio, waitvars>>

MutexExit(l) ==
    /\ pc[l] = "leave"
    /\ mtx' = None
    /\ Goto(l, "idle")
    /\ error' = error \ {l}
    /\ sig' = sig \ {l}
    /\ UNCHANGED <<avail, sq, moving, prio, timed, catch, timo, stopped>>

\* Make something available and signal, or make several and broadcast.
Give(l) ==
    /\ pc[l] = "give"
    /\ \/ /\ avail + 1 <= MaxAvail
          /\ avail' = avail + 1
          /\ Goto(l, "signal")
       \/ /\ avail + 2 <= MaxAvail
          /\ avail' = avail + 2
          /\ Goto(l, "broadcast")
       \/ /\ avail' = avail
          /\ Goto(l, "leave")
    /\ UNCHANGED <<mtx, sq, moving, prio, waitvars>>

Take(l) ==
    /\ pc[l] = "test"
    /\ avail > 0
    /\ avail' = avail - 1
    /\ Goto(l, "leave")
    /\ UNCHANGED <<mtx, sq, moving, prio, waitvars>>

-----------------------------------------------------------------------------
(* cv_signal and cv_broadcast, with the interlock held                     *)

\* The queue is looked at without its lock.
SignalPeek(l) ==
    /\ pc[l] = "signal"
    /\ Goto(l, IF sq = << >> THEN "leave" ELSE "wakeup_one")
    /\ UNCHANGED <<mtx, avail, sq, moving, prio, waitvars>>

BroadcastPeek(l) ==
    /\ pc[l] = "broadcast"
    /\ Goto(l, IF sq = << >> THEN "leave" ELSE "wakeup_all")
    /\ UNCHANGED <<mtx, avail, sq, moving, prio, waitvars>>

\* cv_wakeup_one
WakeupOne(l) ==
    /\ pc[l] = "wakeup_one"
    /\ moving = None
    /\ IF sq = << >> THEN Goto(l, "leave") /\ UNCHANGED sq
       ELSE /\ sq' = Tail(sq)
            /\ pc' = [pc EXCEPT ![l] = "leave", ![Head(sq)] = "woken"]
    /\ UNCHANGED <<mtx, avail, moving, prio, waitvars>>

\* cv_wakeup_all
WakeupAll(l) ==
    /\ pc[l] = "wakeup_all"
    /\ moving = None
    /\ sq' = << >>
    /\ pc' = [k \in Lwp |-> IF k = l THEN "leave"
                            ELSE IF \E i \in DOMAIN sq : sq[i] = k THEN "woken" ELSE pc[k]]
    /\ UNCHANGED <<mtx, avail, moving, prio, waitvars>>

-----------------------------------------------------------------------------
(* cv_wait, cv_wait_sig, cv_timedwait, cv_timedwait_sig                    *)

\* cv_enter, and sleepq_block up to the switch: an interruptible wait ends
\* at once if a signal is pending (t: timo != 0, c: catch_p).
CvEnter(l, t, c) ==
    /\ pc[l] = "test"
    /\ avail = 0
    /\ moving = None
    /\ mtx' = None
    /\ timed' = IF t THEN timed \cup {l} ELSE timed
    /\ catch' = IF c THEN catch \cup {l} ELSE catch
    /\ \/ /\ c /\ l \in sig
          /\ Goto(l, "woken")
          /\ UNCHANGED <<sq, timo>>
       \/ /\ ~(c /\ l \in sig)
          /\ sq' = Insert(sq, l, prio)
          /\ timo' = [timo EXCEPT ![l] = IF t THEN "pending" ELSE @]
          /\ Goto(l, "asleep")
    /\ UNCHANGED <<avail, moving, prio, sig, stopped, error>>

\* callout_halt: the time-out is cancelled, and if its handler is running
\* this waits for the handler.
\* (The variant is callout_stop, which does not wait.)
CalloutStop(l) == TRUE
CalloutHalt(l) == timo[l] # "firing"

\* The rest of sleepq_block.  A signal makes the wait fail, unless it stops
\* the process and issignal() finds nothing else when it goes on.
Awake(l) ==
    /\ pc[l] = "woken"
    /\ l \notin stopped
    /\ l \in timed => CalloutHalt(l)
    /\ timed' = timed \ {l}
    /\ catch' = catch \ {l}
    /\ timo' = [timo EXCEPT ![l] = IF @ = "firing" THEN @ ELSE "off"]
    /\ \/ /\ \/ timo[l] # "off" /\ timo[l] # "pending"
             \/ l \in catch /\ l \in sig
          /\ error' = error \cup {l}
          /\ UNCHANGED sig
       \/ /\ timo[l] \in {"off", "pending"}
          /\ l \in catch => l \notin sig
          /\ UNCHANGED <<error, sig>>
       \/ /\ timo[l] \in {"off", "pending"}
          /\ l \in catch /\ l \in sig
          /\ sig' = sig \ {l}
          /\ UNCHANGED error
    /\ Goto(l, "exit")
    /\ UNCHANGED <<mtx, avail, sq, moving, prio, stopped>>

\* cv_exit: a wait that fails passes on the wake-up that it may have had.
\* (The variant just fails.)
ExitToSilently(l) == IF l \in error THEN "leave" ELSE "test"
ExitTo(l) == IF l \in error THEN "signal" ELSE "test"

CvExit(l) ==
    /\ pc[l] = "exit"
    /\ mtx = None
    /\ mtx' = l
    /\ Goto(l, ExitTo(l))
    /\ UNCHANGED <<avail, sq, moving, prio, waitvars>>

-----------------------------------------------------------------------------
(* What happens to an LWP that waits                                       *)

\* sleepq_remove of an LWP that is not woken by a waker: it runs again,
\* unless it is stopped; then it will when it is continued.
Unsleep(l) ==
    /\ sq' = Without(sq, l)
    /\ Goto(l, "woken")

\* The callout fires, and calls sleepq_timeout.
TimeoutFires(l) ==
    /\ timo[l] = "pending"
    /\ timo' = [timo EXCEPT ![l] = "firing"]
    /\ UNCHANGED <<mtx, avail, sq, moving, prio, pc, timed, catch, sig, stopped,
                   error>>

SleepqTimeout(l) ==
    /\ timo[l] = "firing"
    /\ moving = None
    /\ timo' = [timo EXCEPT ![l] = "fired"]
    /\ IF pc[l] = "asleep" THEN Unsleep(l) ELSE UNCHANGED <<sq, pc>>
    /\ UNCHANGED <<mtx, avail, moving, prio, timed, catch, sig, stopped, error>>

\* A signal: sigpost() wakes an LWP that sleeps or is stopped interruptibly.
Signal(l) ==
    /\ l \in Taker \ sig
    /\ moving = None
    /\ sig' = sig \cup {l}
    /\ IF pc[l] = "asleep" /\ l \in catch THEN Unsleep(l)
                                          ELSE UNCHANGED <<sq, pc>>
    /\ stopped' = IF l \in catch THEN stopped \ {l} ELSE stopped
    /\ UNCHANGED <<mtx, avail, moving, prio, timed, catch, timo, error>>

\* proc_stop_lwps(), and SIGCONT.
Stop(l) ==
    /\ pc[l] = "asleep" /\ l \in catch \ stopped
    /\ moving = None
    /\ stopped' = stopped \cup {l}
    /\ UNCHANGED <<mtx, avail, sq, moving, prio, pc, timed, catch, timo, sig,
                   error>>

Continue(l) ==
    /\ l \in stopped
    /\ moving = None
    /\ stopped' = stopped \ {l}
    /\ UNCHANGED <<mtx, avail, sq, moving, prio, pc, timed, catch, timo, sig,
                   error>>

\* Whether sleepq_reinsert leaves the LWP where it is.
StaysPut(l) == sq = <<l>>

\* sleepq_changepri or sleepq_lendpri, up to the removal in sleepq_reinsert.
ChangePri(l, p) ==
    /\ pc[l] = "asleep"
    /\ moving = None
    /\ prio[l] # p
    /\ prio' = [prio EXCEPT ![l] = p]
    /\ IF StaysPut(l) THEN UNCHANGED <<sq, moving>>
                      ELSE sq' = Without(sq, l) /\ moving' = l
    /\ UNCHANGED <<mtx, avail, pc, waitvars>>

\* The insertion in sleepq_reinsert.
ReInsertion ==
    /\ moving # None
    /\ sq' = Insert(sq, moving, prio)
    /\ moving' = None
    /\ UNCHANGED <<mtx, avail, prio, pc, waitvars>>

-----------------------------------------------------------------------------
LwpStep(l) ==
    \/ MutexExit(l) \/ Give(l) \/ Take(l)
    \/ SignalPeek(l) \/ BroadcastPeek(l) \/ WakeupOne(l) \/ WakeupAll(l)
    \/ \E t, c \in BOOLEAN : CvEnter(l, t, c)
    \/ Awake(l) \/ CvExit(l)

Next == \/ \E l \in Lwp :
              \/ MutexEnter(l) \/ LwpStep(l)
              \/ TimeoutFires(l) \/ SleepqTimeout(l) \/ Signal(l)
              \/ Stop(l) \/ Continue(l)
              \/ \E p \in Prio : ChangePri(l, p)
        \/ ReInsertion

Spec == Init /\ [][Next]_vars

\* An LWP that can run does; none is kept out of the interlock, or of the
\* queue, for ever while they are let go of again and again.  What is stopped
\* is continued one day.
Fairness == /\ \A l \in Lwp : SF_vars(LwpStep(l))
            /\ \A l \in Taker : SF_vars(SleepqTimeout(l)) /\ WF_vars(Continue(l))
            /\ WF_vars(ReInsertion)

-----------------------------------------------------------------------------
(* Properties                                                              *)

\* LWPs that are awake, have been woken or are about to wake somebody.
OnTheirWay == {l \in Lwp : pc[l] \in {"test", "signal", "wakeup_one", "woken",
                                      "exit"}}

\* No wake-up is lost: when something is available and LWPs sleep, as many
\* are on their way to take it, or to wake those who sleep, as can be
\* served.  This is what cv_exit is for ("at least one should take the
\* wakeup if possible"), and why sleepq_reinsert does not let the queue
\* become empty.
NoLostWakeup ==
    LET sleepers == {l \in Lwp : pc[l] = "asleep"} IN
    \/ \E l \in Lwp : pc[l] \in {"broadcast", "wakeup_all"}
    \/ avail <= Cardinality(OnTheirWay)
    \/ Cardinality(sleepers) <= Cardinality(OnTheirWay)

\* cv_wait returns only when woken, whatever happens to the LWP: a time-out
\* never outlives the wait that set it ("Even if the callout appears to have
\* fired, we need to stop it in order to synchronise with other CPUs"), and
\* a signal or a stop does not end it.
PlainWaitNeedsWaker ==
    [][\A l \in Taker :
          pc[l] = "asleep" /\ pc'[l] # "asleep" /\ l \notin timed \cup catch
          => \E k \in Lwp : pc[k] \in {"wakeup_one", "wakeup_all"}]_vars

\* What is available does not stay so for ever while LWPs wait for it.
WakeupsArrive == (avail > 0 /\ sq # << >>) ~> (avail = 0 \/ sq = << >>)
=============================================================================
