------------------------------ MODULE Callout -------------------------------
(***************************************************************************)
(* Callouts on several CPUs, sys/kern/kern_timeout.c: LWPs schedule, stop, *)
(* halt and destroy callouts while the software interrupts of the CPUs run *)
(* their handlers, which may do the same.  What runs under a cc_lock is a  *)
(* step.  When a callout is due is the subject of CalloutWheel; here one   *)
(* on a queue may be due at any time.                                      *)
(***************************************************************************)
EXTENDS Integers, FiniteSets, Cpus

CONSTANTS
    cpu0,           \* the one of callout_cpu0
    Callout,        \* the memory of the callouts
    Lwp,            \* the LWPs that use them
    Null

ASSUME CalloutAssumption ==
    cpu0 \in Cpu /\ Null \notin Cpu \cup Callout /\ IsFiniteSet(Lwp)

VARIABLES
    c_magic,        \* the callouts that are initialised
    c_flags,        \* BOUND, PENDING, FIRED and INVOKING
    c_cpu,          \* the CPU each one is on
    cc_queue,       \* what is on the queues of each CPU: cc_todo and cc_wheel
    cc_active,      \* the callout whose handler the CPU runs
    cc_nwait,       \* how many LWPs wait for the CPU
    softclock,      \* where its software interrupt is
    fate,           \* whether what it runs has been moved or destroyed since
    mtx,            \* a mutex that handlers take, and who holds it
    pc,             \* each LWP, in callout_halt
    cs,             \* the callout it halts
    chan,           \* the CPU it sleeps on
    relock,         \* it has dropped the interlock mtx
    calm            \* nobody has scheduled the callout since it began

ccvars == <<cc_active, cc_nwait, softclock, fate>>
lwps == <<pc, cs, chan, relock>>
vars == <<c_magic, c_flags, c_cpu, cc_queue, ccvars, mtx, lwps, calm>>

Init == /\ c_magic = {}
        /\ c_flags = [o \in Callout |-> {}]
        /\ c_cpu = [o \in Callout |-> cpu0]
        /\ cc_queue = [cc \in Cpu |-> {}]
        /\ cc_active = [cc \in Cpu |-> Null]
        /\ cc_nwait = [cc \in Cpu |-> 0]
        /\ softclock = [cc \in Cpu |-> "off"]
        /\ fate = [cc \in Cpu |-> "own"]
        /\ mtx = Null
        /\ pc = [l \in Lwp |-> "out"]
        /\ cs = [l \in Lwp |-> Null]
        /\ chan = [l \in Lwp |-> Null]
        /\ relock = [l \in Lwp |-> FALSE]
        /\ calm = [l \in Lwp |-> TRUE]

LwpGoto(l, p) == pc' = [pc EXCEPT ![l] = p]

-----------------------------------------------------------------------------
(* What LWPs and handlers do with a callout, on CPU cc                     *)

\* A callout without CALLOUT_MPSAFE is bound to the boot CPU.
callout_init(o, cc) ==
    /\ o \notin c_magic
    /\ c_magic' = c_magic \cup {o}
    /\ \E mpsafe \in BOOLEAN :
          /\ c_flags' = [c_flags EXCEPT ![o] = IF mpsafe THEN {} ELSE {"BOUND"}]
          /\ c_cpu' = [c_cpu EXCEPT ![o] = IF mpsafe THEN cc ELSE cpu0]
    /\ UNCHANGED <<cc_queue, ccvars, mtx, lwps, calm>>

\* The CPU on whose queue callout_schedule_locked leaves or puts the callout:
\* the one it is on, or that of the caller if mutex_tryenter gets its lock.
\* (The variant moves it although it is bound.)
DestinationUnbound(o, cc) ==
    IF "PENDING" \in c_flags[o] THEN {c_cpu[o]} ELSE {c_cpu[o], cc}
Destination(o, cc) ==
    IF c_flags[o] \cap {"PENDING", "BOUND"} # {} THEN {c_cpu[o]} ELSE {c_cpu[o], cc}

\* callout_schedule_locked, as called by callout_reset and callout_schedule
callout_schedule(o, cc) ==
    /\ o \in c_magic
    /\ \E to \in Destination(o, cc) :
          /\ c_cpu' = [c_cpu EXCEPT ![o] = to]
          /\ cc_queue' = [cc_queue EXCEPT ![to] = @ \cup {o}]
          /\ fate' = [i \in Cpu |-> IF cc_active[i] = o /\ fate[i] = "own" /\ to # i
                                    THEN "moved" ELSE fate[i]]
    /\ c_flags' = [c_flags EXCEPT ![o] = (@ \ {"FIRED", "INVOKING"}) \cup {"PENDING"}]
    /\ calm' = [l \in Lwp |-> calm[l] /\ cs[l] # o]
    /\ UNCHANGED <<c_magic, cc_active, cc_nwait, softclock, mtx, lwps>>

\* CIRCQ_REMOVE, and the flags that callout_stop and callout_halt clear
Cancel(o) ==
    /\ o \in c_magic
    /\ cc_queue' = [cc_queue EXCEPT ![c_cpu[o]] = @ \ {o}]
    /\ c_flags' = [c_flags EXCEPT ![o] = @ \ {"PENDING", "FIRED"}]

callout_stop(o) == Cancel(o) /\ UNCHANGED <<c_magic, c_cpu, ccvars, mtx, lwps, calm>>

callout_ack(o) ==
    /\ o \in c_magic
    /\ c_flags' = [c_flags EXCEPT ![o] = @ \ {"INVOKING"}]
    /\ UNCHANGED <<c_magic, c_cpu, cc_queue, ccvars, mtx, lwps, calm>>

callout_destroy(o) ==
    /\ o \in c_magic
    /\ c_magic' = c_magic \ {o}
    /\ fate' = [i \in Cpu |-> IF cc_active[i] = o THEN "gone" ELSE fate[i]]
    /\ UNCHANGED <<c_flags, c_cpu, cc_queue, cc_active, cc_nwait, softclock, mtx>>

-----------------------------------------------------------------------------
(* callout_halt by l, which passes mtx as the interlock if it holds it     *)

\* cc_nwait++  (The variant counts all sleepers as one.)
WaitersOne(n) == 1
Waiters(n) == n + 1

\* interlock != NULL  (The variant ignores the interlock.)
InterlockedNever(l) == FALSE
Interlocked(l) == mtx = l

\* The loop, with the lock of the callout's CPU held: nothing to wait for,
\* the interlock is to be dropped, or sleep until the handler has ended.
Loop(l, o, held) ==
    LET cc == c_cpu[o] IN
    \/ /\ cc_active[cc] # o
       /\ LwpGoto(l, IF relock[l] THEN "relock" ELSE "halted")
       /\ UNCHANGED <<mtx, relock, chan, cc_nwait>>
    \/ /\ cc_active[cc] = o /\ held
       /\ LwpGoto(l, "again") /\ mtx' = Null
       /\ relock' = [relock EXCEPT ![l] = TRUE]
       /\ UNCHANGED <<chan, cc_nwait>>
    \/ /\ cc_active[cc] = o /\ ~held
       /\ LwpGoto(l, "sleep")
       /\ chan' = [chan EXCEPT ![l] = cc]
       /\ cc_nwait' = [cc_nwait EXCEPT ![cc] = Waiters(@)]
       /\ UNCHANGED <<mtx, relock>>

callout_halt(l, o) ==
    /\ pc[l] = "out"
    /\ Cancel(o)
    /\ cs' = [cs EXCEPT ![l] = o]
    /\ Loop(l, o, Interlocked(l))
    /\ UNCHANGED <<c_magic, c_cpu, cc_active, softclock, fate, calm>>

\* It has dropped the interlock, or was woken, and looks again.
Again(l) ==
    /\ pc[l] = "again"
    /\ Loop(l, cs[l], FALSE)
    /\ UNCHANGED <<c_magic, c_flags, c_cpu, cc_queue, cc_active, softclock, fate, cs, calm>>

Relock(l) ==
    /\ pc[l] = "relock" /\ mtx = Null
    /\ mtx' = l
    /\ relock' = [relock EXCEPT ![l] = FALSE]
    /\ LwpGoto(l, "halted")
    /\ UNCHANGED <<c_magic, c_flags, c_cpu, cc_queue, ccvars, cs, chan, calm>>

\* The caller goes on, having destroyed the callout or not.  It destroys it
\* if nobody uses it any more.
Finish(l) ==
    /\ pc[l] = "halted"
    /\ \/ UNCHANGED <<c_magic, c_flags, c_cpu, cc_queue, ccvars, mtx>>
       \/ /\ calm[l] /\ \A k \in Lwp \ {l} : cs[k] # cs[l]
          /\ callout_destroy(cs[l])
    /\ LwpGoto(l, "out")
    /\ cs' = [cs EXCEPT ![l] = Null]
    /\ calm' = [calm EXCEPT ![l] = TRUE]
    /\ UNCHANGED <<chan, relock>>

\* The callers' mutex, which l may hold when it halts a callout
MutexEnter(l) ==
    /\ pc[l] = "out" /\ mtx = Null
    /\ mtx' = l
    /\ UNCHANGED <<c_magic, c_flags, c_cpu, cc_queue, ccvars, lwps, calm>>

MutexExit(l) ==
    /\ pc[l] = "out" /\ mtx = l
    /\ mtx' = Null
    /\ UNCHANGED <<c_magic, c_flags, c_cpu, cc_queue, ccvars, lwps, calm>>

-----------------------------------------------------------------------------
(* callout_hardclock and callout_softclock                                 *)

Clock(cc, from, to) ==
    /\ softclock[cc] = from
    /\ softclock' = [softclock EXCEPT ![cc] = to]

\* A tick, which may find that something is due.
callout_hardclock(cc) ==
    /\ \/ Clock(cc, "off", "loop") /\ cc_queue[cc] # {}
       \/ UNCHANGED softclock
    /\ UNCHANGED <<c_magic, c_flags, c_cpu, cc_queue, cc_active, cc_nwait, fate, mtx, lwps, calm>>

\* A callout that is due is taken off its queue.
Fetch(cc, o) ==
    /\ Clock(cc, "loop", "func") /\ o \in cc_queue[cc]
    /\ cc_queue' = [cc_queue EXCEPT ![cc] = @ \ {o}]
    /\ c_flags' = [c_flags EXCEPT ![o] = (@ \ {"PENDING"}) \cup {"FIRED", "INVOKING"}]
    /\ cc_active' = [cc_active EXCEPT ![cc] = o]
    /\ UNCHANGED <<c_magic, c_cpu, cc_nwait, fate, mtx, lwps, calm>>

\* The handler may use its own callout, and destroy it.  (callout_halt, which
\* does not wait for the LWP it is called by, is callout_stop here.)
HandlerCalls(cc) ==
    LET o == cc_active[cc] IN
    /\ softclock[cc] \in {"func", "held"} /\ fate[cc] # "gone"
    /\ \/ callout_schedule(o, cc) \/ callout_stop(o) \/ callout_ack(o)
       \/ /\ "PENDING" \notin c_flags[o] /\ fate[cc] = "own"
          /\ \A l \in Lwp : cs[l] # o
          /\ callout_destroy(o) /\ UNCHANGED <<lwps, calm>>

\* It may take the mutex.
HandlerMutex(cc) ==
    /\ \/ Clock(cc, "func", "want") /\ UNCHANGED mtx
       \/ Clock(cc, "want", "held") /\ mtx = Null /\ mtx' = cc
       \/ Clock(cc, "held", "ret") /\ mtx' = Null
    /\ UNCHANGED <<c_magic, c_flags, c_cpu, cc_queue, cc_active, cc_nwait, fate, lwps, calm>>

\* It returns; those who wait for the CPU, cc_nwait of them, are woken.
Asleep(cc) == {l \in Lwp : pc[l] = "sleep" /\ chan[l] = cc}
Wake(cc) ==
    \E woken \in SUBSET Asleep(cc) :
        /\ Cardinality(woken) = cc_nwait[cc]
        /\ pc' = [l \in Lwp |-> IF l \in woken THEN "again" ELSE pc[l]]
        /\ chan' = [l \in Lwp |-> IF l \in woken THEN Null ELSE chan[l]]
Done(cc) ==
    /\ Clock(cc, "func", "loop") \/ Clock(cc, "ret", "loop")
    /\ cc_active' = [cc_active EXCEPT ![cc] = Null]
    /\ cc_nwait' = [cc_nwait EXCEPT ![cc] = 0]
    /\ Wake(cc)
    /\ fate' = [fate EXCEPT ![cc] = "own"]
    /\ UNCHANGED <<c_magic, c_flags, c_cpu, cc_queue, mtx, cs, relock, calm>>

\* Nothing is due any more.
Leave(cc) ==
    /\ Clock(cc, "loop", "off")
    /\ UNCHANGED <<c_magic, c_flags, c_cpu, cc_queue, cc_active, cc_nwait, fate, mtx, lwps, calm>>

-----------------------------------------------------------------------------
Use(l, o, cc) ==
    /\ pc[l] = "out"
    /\ callout_init(o, cc) \/ callout_schedule(o, cc) \/ callout_stop(o) \/ callout_ack(o)

Halt(l) == Again(l) \/ Relock(l) \/ Finish(l)

Softclock(cc) == HandlerMutex(cc) \/ Done(cc) \/ Leave(cc)

Next == \/ \E l \in Lwp, o \in Callout :
              callout_halt(l, o) \/ \E cc \in Cpu : Use(l, o, cc)
        \/ \E l \in Lwp : Halt(l) \/ MutexEnter(l) \/ MutexExit(l)
        \/ \E cc \in Cpu : \/ callout_hardclock(cc) \/ HandlerCalls(cc) \/ Softclock(cc)
                           \/ \E o \in Callout : Fetch(cc, o)

Spec == Init /\ [][Next]_vars

\* Handlers end, LWPs let go of the mutex, and who waits for it gets it.
Fairness == /\ \A cc \in Cpu : SF_vars(Softclock(cc))
            /\ \A l \in Lwp : /\ SF_vars(MutexExit(l))
                              /\ WF_vars(Again(l)) /\ SF_vars(Relock(l))
                              /\ WF_vars(Finish(l))

-----------------------------------------------------------------------------
(* Properties                                                              *)

TypeOK == /\ c_magic \subseteq Callout
          /\ c_flags \in [Callout -> SUBSET {"BOUND", "PENDING", "FIRED", "INVOKING"}]
          /\ c_cpu \in [Callout -> Cpu]
          /\ cc_queue \in [Cpu -> SUBSET Callout]
          /\ cc_active \in [Cpu -> Callout \cup {Null}]
          /\ cc_nwait \in [Cpu -> Nat]
          /\ softclock \in [Cpu -> {"off", "loop", "func", "want", "held", "ret"}]
          /\ fate \in [Cpu -> {"own", "moved", "gone"}]
          /\ mtx \in Lwp \cup Cpu \cup {Null}
          /\ pc \in [Lwp -> {"out", "sleep", "again", "relock", "halted"}]
          /\ cs \in [Lwp -> Callout \cup {Null}]
          /\ chan \in [Lwp -> Cpu \cup {Null}]
          /\ relock \in [Lwp -> BOOLEAN]
          /\ calm \in [Lwp -> BOOLEAN]

\* What callout_softclock asserts of all it finds on the queues of its CPU:
\* initialised, pending, not fired, and on this CPU; and each callout that is
\* pending is found there.
QueueAgrees ==
    \A cc \in Cpu : cc_queue[cc] =
        {o \in Callout : /\ o \in c_magic /\ c_cpu[o] = cc
                         /\ "PENDING" \in c_flags[o] /\ "FIRED" \notin c_flags[o]}

\* callout_softclock wakes as many LWPs as wait for its CPU, and it will,
\* because a handler runs there as long as one waits.
WaitersCounted ==
    \A cc \in Cpu : /\ cc_nwait[cc] = Cardinality(Asleep(cc))
                    /\ Asleep(cc) # {} => cc_active[cc] # Null

\* Some CPU runs the handler of o.
Running(o, fates) == \E cc \in Cpu : cc_active[cc] = o /\ fate[cc] \in fates

\* A callout halted, and scheduled by nobody since, neither runs nor will:
\* if it is bound, or was not moved to another CPU while its handler ran.
HaltedInPlace ==
    \A l \in Lwp : pc[l] = "halted" /\ calm[l] =>
        /\ "PENDING" \notin c_flags[cs[l]]
        /\ ~Running(cs[l], IF "BOUND" \in c_flags[cs[l]] THEN {"own", "moved"} ELSE {"own"})

\* The same for any callout: "Cancel a pending callout.  If in-flight, block
\* until it completes."
HaltedIsDone ==
    \A l \in Lwp : pc[l] = "halted" /\ calm[l] =>
        "PENDING" \notin c_flags[cs[l]] /\ ~Running(cs[l], {"own", "moved"})

\* callout_halt returns unless somebody schedules the callout meanwhile, even
\* though the handler takes the interlock.
HaltReturns ==
    \A l \in Lwp : pc[l] \in {"sleep", "again", "relock"} ~> pc[l] = "halted" \/ ~calm[l]
=============================================================================
