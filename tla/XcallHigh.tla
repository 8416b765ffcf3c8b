----------------------------- MODULE XcallHigh ------------------------------
(***************************************************************************)
(* High priority cross calls of sys/kern/subr_xcall.c: xc_highpri,         *)
(* xc_wait, xc_ipi_handler and the software interrupt xc__highpri_intr.    *)
(* The function is fetched from the box without the lock, so a call may    *)
(* only be put there when every CPU has finished the one before.           *)
(*                                                                         *)
(* What is done without letting go of xc_lock is one step.  Calls are      *)
(* numbered, and who they are for and where they have run is recorded, as  *)
(* in XcallLow.                                                            *)
(***************************************************************************)
EXTENDS Xcall

VARIABLES
    hi_headp,    \* xc->xc_headp
    hi_donep,    \* xc->xc_donep
    hi_func,     \* xc->xc_func and its arguments: the number of the call
    ipi,         \* the CPUs with a cross-call IPI on its way
    soft,        \* the CPUs on which xc_sih is scheduled
    intr,        \* where xc__highpri_intr is on each CPU
    hi_running,  \* the call it has fetched
    hi_pc,       \* where each LWP is
    hi_call,     \* its call
    hi_where,    \* the ticket it got for it
    hi_targets,  \* the CPUs each call is for
    hi_ran       \* the CPUs that have run it, to the end

highvars == <<hi_headp, hi_donep, hi_func, ipi, soft, intr, hi_running, hi_pc,
              hi_call, hi_where, hi_targets, hi_ran>>
lwpvars == <<hi_pc, hi_call, hi_where, hi_targets>>
cpuvars == <<ipi, soft, intr, hi_running, hi_ran>>

HighMade == {n \in Calls : hi_targets[n] # {}}

HighInit == /\ hi_headp = 0 /\ hi_donep = 0 /\ hi_func = 0
            /\ ipi = {} /\ soft = {}
            /\ intr = [c \in Cpu |-> "off"]
            /\ hi_running = [c \in Cpu |-> 0]
            /\ hi_pc = [l \in Lwp |-> "idle"]
            /\ hi_call = [l \in Lwp |-> 0]
            /\ hi_where = [l \in Lwp |-> 0]
            /\ hi_targets = [n \in Calls |-> {}]
            /\ hi_ran = [n \in Calls |-> {}]

-----------------------------------------------------------------------------
(* xc_broadcast, xc_unicast and xc_wait                                    *)

\* The call of xc_highpri: ci == NULL is for all CPUs.
HighRequest(l, T) ==
    /\ hi_pc[l] = "idle"
    /\ Cardinality(HighMade) < MaxCalls
    /\ T = Cpu \/ \E c \in Cpu : T = {c}
    /\ LET n == Cardinality(HighMade) + 1 IN
       /\ hi_targets' = [hi_targets EXCEPT ![n] = T]
       /\ hi_call' = [hi_call EXCEPT ![l] = n]
    /\ hi_pc' = [hi_pc EXCEPT ![l] = "trigger"]
    /\ UNCHANGED <<hi_headp, hi_donep, hi_func, hi_where, cpuvars>>

\* (The variant lets a call in once all CPUs but one are done.)
HighBoxFreeEarly == hi_headp <= hi_donep + 1
HighBoxFree == hi_headp = hi_donep

\* The ticket, with XC_PRI_BIT taken out again by xc_wait.
\* (The variant has the count before the call instead of after.)
HighTicketBefore(h) == h - 1
HighTicket(h) == h

\* Wait until the call before is done, and fill the box.
HighTrigger(l) ==
    /\ hi_pc[l] = "trigger"
    /\ \/ /\ ~HighBoxFree
          /\ hi_pc' = [hi_pc EXCEPT ![l] = "trigger_cv"]
          /\ UNCHANGED <<hi_headp, hi_func, hi_where>>
       \/ /\ HighBoxFree
          /\ hi_func' = hi_call[l]
          /\ hi_headp' = hi_headp + Cardinality(hi_targets[hi_call[l]])
          /\ hi_where' = [hi_where EXCEPT ![l] = HighTicket(hi_headp')]
          /\ hi_pc' = [hi_pc EXCEPT ![l] = "send"]
    /\ UNCHANGED <<hi_donep, hi_call, hi_targets, cpuvars>>

\* xc_send_ipi, and xc_ipi_handler on the CPU the caller is on, if the call
\* is for it.
Send(l) ==
    /\ hi_pc[l] = "send"
    /\ \E here \in Cpu :
          /\ soft' = soft \cup (hi_targets[hi_call[l]] \cap {here})
          /\ ipi' = ipi \cup (hi_targets[hi_call[l]] \ {here})
    /\ hi_pc' = [hi_pc EXCEPT ![l] = "wait"]
    /\ UNCHANGED <<hi_headp, hi_donep, hi_func, intr, hi_running, hi_call,
                   hi_where, hi_targets, hi_ran>>

\* xc_wait
HighWait(l) ==
    /\ hi_pc[l] = "wait"
    /\ hi_donep < hi_where[l]
    /\ hi_pc' = [hi_pc EXCEPT ![l] = "wait_cv"]
    /\ UNCHANGED <<hi_headp, hi_donep, hi_func, hi_call, hi_where, hi_targets, cpuvars>>

HighReturn(l) ==
    /\ hi_pc[l] = "wait"
    /\ hi_donep >= hi_where[l]
    /\ hi_pc' = [hi_pc EXCEPT ![l] = "returned"]
    /\ UNCHANGED <<hi_headp, hi_donep, hi_func, hi_call, hi_where, hi_targets, cpuvars>>

\* The caller goes about its business, and may call again.
HighResume(l) ==
    /\ hi_pc[l] = "returned"
    /\ hi_pc' = [hi_pc EXCEPT ![l] = "idle"]
    /\ hi_call' = [hi_call EXCEPT ![l] = 0]
    /\ hi_where' = [hi_where EXCEPT ![l] = 0]
    /\ UNCHANGED <<hi_headp, hi_donep, hi_func, hi_targets, cpuvars>>

-----------------------------------------------------------------------------
(* The CPUs                                                                *)

\* xc_ipi_handler: schedule the software interrupt, once.
IpiHandler(c) ==
    /\ c \in ipi
    /\ ipi' = ipi \ {c}
    /\ soft' = soft \cup {c}
    /\ UNCHANGED <<hi_headp, hi_donep, hi_func, intr, hi_running, hi_ran, lwpvars>>

\* xc__highpri_intr starts, and fetches the function without the lock.
Fetch(c) ==
    /\ c \in soft
    /\ intr[c] = "off"
    /\ soft' = soft \ {c}
    /\ hi_running' = [hi_running EXCEPT ![c] = hi_func]
    /\ intr' = [intr EXCEPT ![c] = "run"]
    /\ UNCHANGED <<hi_headp, hi_donep, hi_func, ipi, hi_ran, lwpvars>>

HighRun(c) ==
    /\ intr[c] = "run"
    /\ hi_ran' = [hi_ran EXCEPT ![hi_running[c]] = @ \cup {c}]
    /\ intr' = [intr EXCEPT ![c] = "ran"]
    /\ UNCHANGED <<hi_headp, hi_donep, hi_func, ipi, soft, hi_running, lwpvars>>

\* cv_broadcast(&xc->xc_busy)
HighBroadcast == hi_pc' = [l \in Lwp |-> Woken(hi_pc[l])]

\* Note the request as done; the last one notifies the waiters.
Done(c) ==
    /\ intr[c] = "ran"
    /\ hi_donep' = hi_donep + 1
    /\ IF hi_donep' = hi_headp THEN HighBroadcast ELSE UNCHANGED hi_pc
    /\ intr' = [intr EXCEPT ![c] = "off"]
    /\ hi_running' = [hi_running EXCEPT ![c] = 0]
    /\ UNCHANGED <<hi_headp, hi_func, ipi, soft, hi_call, hi_where, hi_targets, hi_ran>>

-----------------------------------------------------------------------------
HighLwpStep(l) == HighTrigger(l) \/ Send(l) \/ HighWait(l) \/ HighReturn(l) \/ HighResume(l)
CpuStep(c) == IpiHandler(c) \/ Fetch(c) \/ HighRun(c) \/ Done(c)

HighNext == \/ \E l \in Lwp : HighLwpStep(l) \/ \E T \in SUBSET Cpu : HighRequest(l, T)
            \/ \E c \in Cpu : CpuStep(c)

HighSpec == HighInit /\ [][HighNext]_highvars

-----------------------------------------------------------------------------
(* Properties                                                              *)

\* "Lock-less fetch of function and its arguments.  Safe since it cannot
\* change at this point", and KASSERT(xc->xc_donep < xc->xc_headp): from the
\* IPI until the function has been run and counted, the box holds the call
\* the CPU was interrupted for, a CPU is interrupted once for each call, and
\* the call is not counted as done.
FetchIsSafe ==
    \A c \in Cpu :
        /\ c \in ipi \cup soft =>
              hi_donep < hi_headp /\ c \in hi_targets[hi_func] \ hi_ran[hi_func]
        /\ intr[c] # "off" => hi_donep < hi_headp /\ hi_running[c] = hi_func
        /\ intr[c] = "run" => c \in hi_targets[hi_func] \ hi_ran[hi_func]
        /\ Cardinality({s \in {"ipi", "soft", "intr"} :
                \/ s = "ipi" /\ c \in ipi
                \/ s = "soft" /\ c \in soft
                \/ s = "intr" /\ intr[c] # "off"}) <= 1

\* "Wait for a cross call to complete": when xc_wait returns, the function
\* has run on every CPU the call was for.
HighWaitMeansDone ==
    \A l \in Lwp : hi_pc[l] = "returned" => hi_ran[hi_call[l]] = hi_targets[hi_call[l]]
=============================================================================
