------------------------------ MODULE XcallLow ------------------------------
(***************************************************************************)
(* Low priority cross calls of sys/kern/subr_xcall.c: xc_lowpri, xc_wait   *)
(* and the per-CPU xc_thread.  Any number of LWPs ask for a function to be *)
(* run on one CPU or on all; the box xc_low_pri holds one call at a time.  *)
(*                                                                         *)
(* Everything that is done without letting go of xc_lock is one step.  A   *)
(* call is known by its number; who it is for and where it has run are     *)
(* recorded to say what the callers may rely on.                           *)
(***************************************************************************)
EXTENDS Xcall

VARIABLES
    headp,      \* xc->xc_headp
    tailp,      \* xc_tailp
    donep,      \* xc->xc_donep
    func,       \* xc->xc_func and its arguments: the number of the call
    pending,    \* ci->ci_data.cpu_xcall_pending
    thread,     \* where each xc_thread is
    running,    \* the call it has taken from the box
    pc,         \* where each LWP is
    call,       \* its call
    where,      \* the ticket it got for it
    targets,    \* the CPUs each call is for
    ran         \* the CPUs that have run it, to the end

vars == <<headp, tailp, donep, func, pending, thread, running, pc, call, where,
          targets, ran>>

Made == {n \in Calls : targets[n] # {}}

Init == /\ headp = 0 /\ tailp = 0 /\ donep = 0 /\ func = 0
        /\ pending = [c \in Cpu |-> FALSE]
        /\ thread = [c \in Cpu |-> "locked"]
        /\ running = [c \in Cpu |-> 0]
        /\ pc = [l \in Lwp |-> "idle"]
        /\ call = [l \in Lwp |-> 0]
        /\ where = [l \in Lwp |-> 0]
        /\ targets = [n \in Calls |-> {}]
        /\ ran = [n \in Calls |-> {}]

-----------------------------------------------------------------------------
(* xc_broadcast, xc_unicast and xc_wait                                    *)

\* The call of xc_lowpri: ci == NULL is for all CPUs.
Request(l, T) ==
    /\ pc[l] = "idle"
    /\ Cardinality(Made) < MaxCalls
    /\ T = Cpu \/ \E c \in Cpu : T = {c}
    /\ LET n == Cardinality(Made) + 1 IN
       /\ targets' = [targets EXCEPT ![n] = T]
       /\ call' = [call EXCEPT ![l] = n]
    /\ pc' = [pc EXCEPT ![l] = "trigger"]
    /\ UNCHANGED <<headp, tailp, donep, func, pending, thread, running, where,
                   ran>>

\* Wait until the box is free, fill it, and signal the threads.
BoxFree == headp = tailp

\* The ticket to wait for: the count of calls when this one is done.
Ticket(h) == h

Trigger(l) ==
    /\ pc[l] = "trigger"
    /\ \/ /\ ~BoxFree
          /\ pc' = [pc EXCEPT ![l] = "trigger_cv"]
          /\ UNCHANGED <<headp, func, pending, thread, where>>
       \/ /\ BoxFree
          /\ LET T == targets[call[l]] IN
             /\ func' = call[l]
             /\ headp' = headp + Cardinality(T)
             /\ pending' = [c \in Cpu |-> pending[c] \/ c \in T]
             /\ thread' = [c \in Cpu |-> IF c \in T /\ thread[c] = "cv"
                                         THEN "locked" ELSE thread[c]]
          /\ where' = [where EXCEPT ![l] = Ticket(headp')]
          /\ pc' = [pc EXCEPT ![l] = "wait"]
    /\ UNCHANGED <<tailp, donep, running, call, targets, ran>>

\* xc_wait
Wait(l) ==
    /\ pc[l] = "wait"
    /\ donep < where[l]
    /\ pc' = [pc EXCEPT ![l] = "wait_cv"]
    /\ UNCHANGED <<headp, tailp, donep, func, pending, thread, running, call,
                   where, targets, ran>>

Return(l) ==
    /\ pc[l] = "wait"
    /\ donep >= where[l]
    /\ pc' = [pc EXCEPT ![l] = "returned"]
    /\ UNCHANGED <<headp, tailp, donep, func, pending, thread, running, call,
                   where, targets, ran>>

\* The caller goes about its business, and may call again.
Resume(l) ==
    /\ pc[l] = "returned"
    /\ pc' = [pc EXCEPT ![l] = "idle"]
    /\ call' = [call EXCEPT ![l] = 0]
    /\ where' = [where EXCEPT ![l] = 0]
    /\ UNCHANGED <<headp, tailp, donep, func, pending, thread, running,
                   targets, ran>>

-----------------------------------------------------------------------------
(* xc_thread                                                               *)

\* cv_broadcast(&xc->xc_busy)
\* (The variant only signals.)
BusySignal ==
    IF \E l \in Lwp : Woken(pc[l]) # pc[l]
    THEN \E l \in Lwp : /\ Woken(pc[l]) # pc[l]
                        /\ pc' = [pc EXCEPT ![l] = Woken(@)]
    ELSE UNCHANGED pc
BusyBroadcast == pc' = [l \in Lwp |-> Woken(pc[l])]

\* xc_lock is taken, for the first time, back from cv_wait, or after a call
\* has run (then the call is counted first), and held until the thread has
\* either taken the next call from the box or gone to wait for one.
Dispatch(c) ==
    /\ thread[c] \in {"locked", "ran"}
    /\ donep' = IF thread[c] = "ran" THEN donep + 1 ELSE donep
    /\ \/ /\ pending[c]
          /\ pending' = [pending EXCEPT ![c] = FALSE]
          /\ running' = [running EXCEPT ![c] = func]
          /\ tailp' = tailp + 1
          /\ thread' = [thread EXCEPT ![c] = "run"]
          /\ UNCHANGED pc
       \/ /\ ~pending[c]
          /\ IF headp = tailp THEN BusyBroadcast ELSE UNCHANGED pc
          /\ thread' = [thread EXCEPT ![c] = "cv"]
          /\ running' = [running EXCEPT ![c] = 0]
          /\ UNCHANGED <<pending, tailp>>
    /\ UNCHANGED <<headp, func, call, where, targets, ran>>

\* (*func)(arg1, arg2), with the copies made under the lock.
\* (The variant reads the box again.)
RunFromBox(c) ==
    /\ thread[c] = "run"
    /\ ran' = [ran EXCEPT ![func] = @ \cup {c}]
    /\ thread' = [thread EXCEPT ![c] = "ran"]
    /\ UNCHANGED <<headp, tailp, donep, func, pending, running, pc, call, where,
                   targets>>
Run(c) ==
    /\ thread[c] = "run"
    /\ ran' = [ran EXCEPT ![running[c]] = @ \cup {c}]
    /\ thread' = [thread EXCEPT ![c] = "ran"]
    /\ UNCHANGED <<headp, tailp, donep, func, pending, running, pc, call, where,
                   targets>>

-----------------------------------------------------------------------------
LwpStep(l) == Trigger(l) \/ Wait(l) \/ Return(l) \/ Resume(l)
ThreadStep(c) == Dispatch(c) \/ Run(c)

Next == \/ \E l \in Lwp : LwpStep(l) \/ \E T \in SUBSET Cpu : Request(l, T)
        \/ \E c \in Cpu : ThreadStep(c)

Spec == Init /\ [][Next]_vars

-----------------------------------------------------------------------------
(* Properties                                                              *)

\* "No queueing is provided, and the implementation uses global state", yet
\* no call is overwritten before every CPU it is for has taken it, no CPU
\* takes a call that is not for it, and none takes a call twice.
CallsAreTakenOnce ==
    \A c \in Cpu :
        /\ pending[c] =>
              /\ c \in targets[func] \ ran[func]
              /\ thread[c] = "run" => running[c] # func
        /\ thread[c] = "run" => c \in targets[running[c]] \ ran[running[c]]

\* KASSERT(xc_tailp < xc->xc_headp), and the counters mean what they say:
\* tailp counts the calls taken, donep those that have run and were counted.
CountersAgree ==
    LET taken == {c \in Cpu : thread[c] = "run"}
        done == {c \in Cpu : thread[c] = "ran"}
    IN  /\ headp - tailp = Cardinality({c \in Cpu : pending[c]})
        /\ tailp - donep = Cardinality(taken) + Cardinality(done)

\* "Wait for a cross call to complete": when xc_wait returns, the function
\* has run on every CPU the call was for.
WaitMeansDone ==
    \A l \in Lwp : pc[l] = "returned" => ran[call[l]] = targets[call[l]]
=============================================================================
