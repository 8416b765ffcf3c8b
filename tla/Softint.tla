------------------------------ MODULE Softint -------------------------------
(***************************************************************************)
(* Software interrupts, sys/kern/kern_softint.c, of one level: handlers    *)
(* are scheduled on the CPU itself or, by an IPI of sys/kern/subr_ipi.c,   *)
(* on another one, are run in turn by an LWP of the CPU that may block,    *)
(* and are taken away while they may still be scheduled and running.  What *)
(* a CPU does at splhigh is a step.  The kernel lock, which softint_execute*)
(* takes for handlers that are not MPSAFE, only makes a handler late.      *)
(***************************************************************************)
EXTENDS Integers, Sequences, Cpus

CONSTANTS
    Hand,           \* the slots of sc_hand
    Rcpu,           \* those established with SOFTINT_RCPU
    NoHand          \* no slot

ASSUME SoftintAssumption == Rcpu \subseteq Hand /\ NoHand \notin Hand

VARIABLES
    sh_func,        \* the slots whose sh_func is set, on all CPUs
    sh_flags,       \* PENDING and ACTIVE of each slot on each CPU
    si_q,           \* the slots to run on each CPU
    si_active,      \* whether its software interrupt is triggered or runs
    trig,           \* softint_trigger was called and not answered yet
    si,             \* where softint_execute is: "idle", "func" or "blocked"
    sh,             \* the slot it runs
    ipi_func,       \* the slots whose IPI is registered
    ci_ipipend,     \* the IPIs pending on each CPU
    client,         \* where the client of each slot is
    todo,           \* the CPUs it still waits for or has to look at
    flags,          \* it has seen SOFTINT_ACTIVE
    behind          \* where its slot was queued behind a handler that blocks

hands == <<sh_func, ipi_func>>
cpus == <<sh_flags, si_q, si_active, trig, si, sh>>
clients == <<client, todo, flags, behind>>
softvars == <<hands, cpus, ci_ipipend, clients>>

SoftInit == /\ sh_func = {} /\ ipi_func = {}
            /\ sh_flags = [cc \in Cpu |-> [h \in Hand |-> {}]]
            /\ si_q = [cc \in Cpu |-> <<>>]
            /\ si_active = [cc \in Cpu |-> FALSE]
            /\ trig = [cc \in Cpu |-> FALSE]
            /\ si = [cc \in Cpu |-> "idle"]
            /\ sh = [cc \in Cpu |-> NoHand]
            /\ ci_ipipend = [cc \in Cpu |-> {}]
            /\ client = [h \in Hand |-> "free"]
            /\ todo = [h \in Hand |-> {}]
            /\ flags = [h \in Hand |-> FALSE]
            /\ behind = [h \in Hand |-> {}]

-----------------------------------------------------------------------------
(* softint_schedule, on CPU cc, and softint_schedule_cpu                   *)

\* The slot is queued unless it is pending; who finds si_active clear
\* triggers the software interrupt.
Pending(cc, h) == "PENDING" \in sh_flags[cc][h]
Queued(cc, h) == Pending(cc, h)

softint_schedule(cc, h) ==
    IF Queued(cc, h) THEN UNCHANGED cpus
    ELSE /\ sh_flags' = [sh_flags EXCEPT ![cc][h] = @ \cup {"PENDING"}]
         /\ si_q' = [si_q EXCEPT ![cc] = Append(@, h)]
         /\ si_active' = [si_active EXCEPT ![cc] = TRUE]
         /\ trig' = [trig EXCEPT ![cc] = @ \/ ~si_active[cc]]
         /\ UNCHANGED <<si, sh>>

\* The client or an interrupt handler, on CPU cc or for CPU cc from another.
softint_schedule_cpu(cc, h) ==
    /\ client[h] = "set"
    /\ \/ softint_schedule(cc, h) /\ UNCHANGED ci_ipipend
       \/ /\ h \in Rcpu
          /\ ci_ipipend' = [ci_ipipend EXCEPT ![cc] = @ \cup {h}]
          /\ UNCHANGED cpus
    /\ UNCHANGED <<hands, clients>>

\* ipi_cpu_handler calls softint_schedule for an IPI that is pending.  The
\* call of one that is not registered is the end of the system.
ipi_cpu_handler(cc, h) ==
    /\ h \in ci_ipipend[cc] /\ h \in ipi_func
    /\ ci_ipipend' = [ci_ipipend EXCEPT ![cc] = @ \ {h}]
    /\ softint_schedule(cc, h)
    /\ UNCHANGED <<hands, clients>>

-----------------------------------------------------------------------------
(* softint_execute, entered from softint_dispatch                          *)

\* The next slot is taken from the queue, with what is left of the flags, or
\* there is none.
\* (The variant does not tell that the software interrupt is over.)
ActiveStill(cc) == si_active
ActiveNoMore(cc) == [si_active EXCEPT ![cc] = FALSE]
Dequeue(cc, f) ==
    IF si_q[cc] = <<>>
    THEN /\ si' = [si EXCEPT ![cc] = "idle"]
         /\ sh' = [sh EXCEPT ![cc] = NoHand]
         /\ si_active' = ActiveNoMore(cc)
         /\ sh_flags' = [sh_flags EXCEPT ![cc] = f]
         /\ UNCHANGED si_q
    ELSE LET h == Head(si_q[cc]) IN
         /\ h \in sh_func
         /\ si' = [si EXCEPT ![cc] = "func"]
         /\ sh' = [sh EXCEPT ![cc] = h]
         /\ sh_flags' = [sh_flags EXCEPT ![cc] =
                [f EXCEPT ![h] = (@ \ {"PENDING"}) \cup {"ACTIVE"}]]
         /\ si_q' = [si_q EXCEPT ![cc] = Tail(@)]
         /\ UNCHANGED si_active

Dispatch(cc) ==
    /\ trig[cc] /\ si[cc] = "idle"
    /\ trig' = [trig EXCEPT ![cc] = FALSE]
    /\ Dequeue(cc, sh_flags[cc])
    /\ UNCHANGED <<hands, ci_ipipend, clients>>

Return(cc) ==
    /\ si[cc] = "func"
    /\ Dequeue(cc, [sh_flags[cc] EXCEPT ![sh[cc]] = @ \ {"ACTIVE"}])
    /\ UNCHANGED <<trig, hands, ci_ipipend, clients>>

\* The handler blocks on a mutex, and the LWP it has interrupted goes on.
Blocks(cc) ==
    /\ \/ si[cc] = "func" /\ si' = [si EXCEPT ![cc] = "blocked"]
       \/ si[cc] = "blocked" /\ si' = [si EXCEPT ![cc] = "func"]
    /\ UNCHANGED <<sh_flags, si_q, si_active, trig, sh, hands, ci_ipipend, clients>>
-----------------------------------------------------------------------------
(* softint_establish and softint_disestablish, by the client of the slot   *)

Goto(h, from, to, cs) ==
    /\ client[h] = from
    /\ client' = [client EXCEPT ![h] = to]
    /\ todo' = [todo EXCEPT ![h] = cs]

softint_establish(h) ==
    /\ Goto(h, "free", "set", {})
    /\ sh_func' = sh_func \cup {h}
    /\ sh_flags' = [cc \in Cpu |-> [sh_flags[cc] EXCEPT ![h] = {}]]
    /\ ipi_func' = ipi_func \cup ({h} \cap Rcpu)
    /\ behind' = [behind EXCEPT ![h] = {}]
    /\ UNCHANGED <<si_q, si_active, trig, si, sh, ci_ipipend, flags>>

\* ipi_unregister releases the slot and sends a message to the other CPUs,
\* with ipi_mngmt_lock held.
ipi_unregister(h, here) ==
    /\ h \in Rcpu /\ \A g \in Hand : client[g] # "ipi_wait"
    /\ Goto(h, "set", "ipi_wait", Cpu \ {here})
    /\ ipi_func' = ipi_func \ {h}
    /\ UNCHANGED <<sh_func, cpus, ci_ipipend, flags, behind>>

\* The message has the lowest number, and is answered before other IPIs.
ipi_msg_cpu_handler(cc, h) ==
    /\ cc \in todo[h] /\ Goto(h, "ipi_wait", "ipi_wait", todo[h] \ {cc})
    /\ UNCHANGED <<hands, cpus, ci_ipipend, flags, behind>>

\* xc_broadcast, after ipi_unregister if there is an IPI
xc_broadcast(h) ==
    /\ IF h \in Rcpu THEN todo[h] = {} /\ Goto(h, "ipi_wait", "xc_wait", Cpu)
       ELSE Goto(h, "set", "xc_wait", Cpu)
    /\ UNCHANGED <<hands, cpus, ci_ipipend, flags, behind>>

\* The thread that answers it runs on a CPU when no software interrupt does.
ThreadRuns(cc) == ~trig[cc] /\ si[cc] # "func"
XcThread(cc, h) ==
    /\ ThreadRuns(cc)
    /\ cc \in todo[h] /\ Goto(h, "xc_wait", "xc_wait", todo[h] \ {cc})
    /\ behind' = [behind EXCEPT ![h] =
           @ \cup {i \in {cc} : Pending(cc, h) /\ si[cc] = "blocked"}]
    /\ UNCHANGED <<hands, cpus, ci_ipipend, flags>>

\* Collect the flags of each CPU, after xc_wait and after each kpause.
Collect(h) ==
    /\ todo[h] = {}
    /\ \/ Goto(h, "xc_wait", "collect", Cpu)
       \/ flags[h] /\ Goto(h, "collect", "collect", Cpu)
    /\ flags' = [flags EXCEPT ![h] = FALSE]
    /\ UNCHANGED <<hands, cpus, ci_ipipend, behind>>

\* (The variant looks at SOFTINT_PENDING instead.)
SeenPending(cc, h) == Pending(cc, h)
Seen(cc, h) == "ACTIVE" \in sh_flags[cc][h]
Look(h, cc) ==
    /\ cc \in todo[h] /\ Goto(h, "collect", "collect", todo[h] \ {cc})
    /\ flags' = [flags EXCEPT ![h] = @ \/ Seen(cc, h)]
    /\ UNCHANGED <<hands, cpus, ci_ipipend, behind>>

\* Inactive on all CPUs: clear the handler.
Clear(h) ==
    /\ todo[h] = {} /\ ~flags[h] /\ Goto(h, "collect", "free", {})
    /\ sh_func' = sh_func \ {h}
    /\ UNCHANGED <<ipi_func, cpus, ci_ipipend, flags, behind>>

-----------------------------------------------------------------------------
\* A slot was cleared that is in use, or an IPI released that is pending: the
\* system calls a null pointer, or what the slot is used for next.
LeftBehind == \E cc \in Cpu, h \in Hand :
    \/ h \notin sh_func /\ sh_flags[cc][h] # {}
    \/ h \in ci_ipipend[cc] /\ client[h] = "free"

Disestablish(h) ==
    \/ xc_broadcast(h) \/ Collect(h) \/ Clear(h)
    \/ \E cc \in Cpu : \/ ipi_unregister(h, cc) \/ ipi_msg_cpu_handler(cc, h)
                       \/ XcThread(cc, h) \/ Look(h, cc)

SoftNext == IF LeftBehind THEN UNCHANGED softvars
            ELSE \/ \E cc \in Cpu : \/ Dispatch(cc) \/ Return(cc) \/ Blocks(cc)
                                    \/ \E h \in Hand : \/ softint_schedule_cpu(cc, h)
                                                       \/ ipi_cpu_handler(cc, h)
                 \/ \E h \in Hand : softint_establish(h) \/ Disestablish(h)

SoftSpec == SoftInit /\ [][SoftNext]_softvars

-----------------------------------------------------------------------------
(* Properties                                                              *)

SoftTypeOK == /\ sh_func \subseteq Hand /\ ipi_func \subseteq Rcpu
              /\ sh_flags \in [Cpu -> [Hand -> SUBSET {"PENDING", "ACTIVE"}]]
              /\ si_q \in [Cpu -> Seq(Hand)]
              /\ si_active \in [Cpu -> BOOLEAN] /\ trig \in [Cpu -> BOOLEAN]
              /\ si \in [Cpu -> {"idle", "func", "blocked"}]
              /\ sh \in [Cpu -> Hand \cup {NoHand}]
              /\ ci_ipipend \in [Cpu -> SUBSET Rcpu]
              /\ client \in [Hand -> {"free", "set", "ipi_wait", "xc_wait", "collect"}]
              /\ todo \in [Hand -> SUBSET Cpu] /\ behind \in [Hand -> SUBSET Cpu]
              /\ flags \in [Hand -> BOOLEAN]

\* What softint_execute asserts of the slots it takes and finishes: on each
\* CPU a slot is queued once if it is pending and not if it is not, and the
\* active one is the one that runs, though it may be queued again meanwhile.
FlagsAgree ==
    \A cc \in Cpu, h \in Hand :
        /\ Pending(cc, h) <=> \E n \in DOMAIN si_q[cc] : si_q[cc][n] = h
        /\ \A m, n \in DOMAIN si_q[cc] : si_q[cc][m] = si_q[cc][n] => m = n
        /\ "ACTIVE" \in sh_flags[cc][h] <=> sh[cc] = h

\* A slot that is queued will be run, as the software interrupt has been
\* triggered or is running; and it is triggered once.
NeverForgotten ==
    \A cc \in Cpu : /\ si_q[cc] # <<>> => trig[cc] \/ si[cc] # "idle"
                    /\ si_active[cc] <=> trig[cc] \/ si[cc] # "idle"
                    /\ ~(trig[cc] /\ si[cc] # "idle")

\* When softint_disestablish returns, the handler neither runs nor is it queued
\* on any CPU, unless it was queued behind one that was blocked when the cross
\* call came.
ClearedIsIdle ==
    \A h \in Hand \ sh_func, cc \in Cpu :
        sh[cc] = h \/ Pending(cc, h) => cc \in behind[h]

\* KASSERT(ipi_hdl->func != NULL) in ipi_cpu_handler: an IPI that is pending is
\* registered, and will be called.  ipi_unregister is to see to it: "Ensure
\* that there are no IPIs in flight."
IpiIsRegistered == \A cc \in Cpu : ci_ipipend[cc] \subseteq ipi_func
=============================================================================
