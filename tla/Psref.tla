------------------------------- MODULE Psref --------------------------------
(***************************************************************************)
(* Passive references, sys/kern/subr_psref.c.  A reference is recorded on  *)
(* a list of the CPU it was acquired on; psref_target_destroy asks every   *)
(* CPU, by a low priority cross call, whether its list has one to the      *)
(* target, until none has.                                                 *)
(*                                                                         *)
(* xc_wait is taken to return when the function has run on every CPU.      *)
(* XcallLow shows that to be so when no other low priority call is made    *)
(* meanwhile, so the calls of two destroyers are not made to overlap.      *)
(***************************************************************************)
CONSTANTS
    Cpu,            \* the CPUs
    Target,         \* the struct psref_target objects, of one class
    Ref             \* the struct psref objects

VARIABLES
    pcpu_head,      \* the references on each CPU's list, with their targets
    prt_draining,   \* target->prt_draining
    prt_class,      \* whether target->prt_class is set
    dst,            \* where each target is in psref_target_destroy
    asked,          \* the CPUs that have not answered psreffed_p yet
    ret             \* psreffed_p's P.ret

lists == <<pcpu_head>>
drain == <<prt_draining, prt_class, dst, asked, ret>>
vars == <<lists, drain>>

Init == /\ pcpu_head = [c \in Cpu |-> {}]
        /\ prt_draining = [t \in Target |-> FALSE]
        /\ prt_class = [t \in Target |-> FALSE]
        /\ dst = [t \in Target |-> "idle"]
        /\ asked = [t \in Target |-> {}]
        /\ ret = [t \in Target |-> FALSE]

-----------------------------------------------------------------------------
\* _psref_held
Held(c, t) == \E e \in pcpu_head[c] : e[2] = t

\* Memory becomes a target: nothing refers to it yet.
psref_target_init(t) ==
    /\ prt_class' = [prt_class EXCEPT ![t] = TRUE]
    /\ prt_draining' = [prt_draining EXCEPT ![t] = FALSE]
    /\ dst' = [dst EXCEPT ![t] = "idle"]
    /\ UNCHANGED <<lists, asked, ret>>

\* psref_acquire, and psref_copy, with interrupts blocked
psref_acquire(r, c, t) ==
    /\ pcpu_head' = [pcpu_head EXCEPT ![c] = @ \cup {<<r, t>>}]
    /\ UNCHANGED drain

\* psref_release takes the reference off the list first ...
LIST_REMOVE(r, c, t) ==
    /\ pcpu_head' = [pcpu_head EXCEPT ![c] = @ \ {<<r, t>>}]
    /\ UNCHANGED drain

\* ... and looks at the target after it: cv_broadcast(&class->prc_cv) for
\* all who wait for a target of the class.
Notify(t) ==
    /\ dst' = IF prt_draining[t]
              THEN [u \in Target |-> IF dst[u] = "wait" THEN "poll" ELSE dst[u]]
              ELSE dst
    /\ UNCHANGED <<lists, prt_draining, prt_class, asked, ret>>

-----------------------------------------------------------------------------
(* psref_target_destroy                                                    *)

Drain(t) ==
    /\ dst[t] = "idle"
    /\ prt_draining' = [prt_draining EXCEPT ![t] = TRUE]
    /\ dst' = [dst EXCEPT ![t] = "poll"]
    /\ UNCHANGED <<lists, prt_class, asked, ret>>

\* psreffed_p: the cross call
Poll(t) ==
    /\ dst[t] = "poll"
    /\ \A u \in Target : dst[u] # "polling"
    /\ ret' = [ret EXCEPT ![t] = FALSE]
    /\ asked' = [asked EXCEPT ![t] = Cpu]
    /\ dst' = [dst EXCEPT ![t] = "polling"]
    /\ UNCHANGED <<lists, prt_draining, prt_class>>

\* psreffed_p_xc, on each CPU
\* (The variant lets the last CPU's answer stand.)
AnswerLast(c, t) == Held(c, t)
Answer(c, t) == ret[t] \/ Held(c, t)

psreffed_p_xc(c, t) ==
    /\ c \in asked[t]
    /\ ret' = [ret EXCEPT ![t] = Answer(c, t)]
    /\ asked' = [asked EXCEPT ![t] = @ \ {c}]
    /\ UNCHANGED <<lists, prt_draining, prt_class, dst>>

\* xc_wait has returned.
Polled(t) ==
    /\ dst[t] = "polling" /\ asked[t] = {}
    /\ IF ret[t]
       THEN /\ dst' = [dst EXCEPT ![t] = "wait"]
            /\ UNCHANGED prt_class
       ELSE /\ dst' = [dst EXCEPT ![t] = "done"]
            /\ prt_class' = [prt_class EXCEPT ![t] = FALSE]
    /\ UNCHANGED <<lists, prt_draining, asked, ret>>

\* cv_timedwait has waited for a tick.
\* (In the variant only psref_release wakes the waiter.)
TimeoutNever(t) == FALSE /\ UNCHANGED vars
Timeout(t) ==
    /\ dst[t] = "wait"
    /\ dst' = [dst EXCEPT ![t] = "poll"]
    /\ UNCHANGED <<lists, prt_draining, prt_class, asked, ret>>

TypeOK == /\ pcpu_head \in [Cpu -> SUBSET (Ref \X Target)]
          /\ prt_draining \in [Target -> BOOLEAN]
          /\ prt_class \in [Target -> BOOLEAN]
          /\ dst \in [Target -> {"idle", "poll", "polling", "wait", "done"}]
          /\ asked \in [Target -> SUBSET Cpu]
          /\ ret \in [Target -> BOOLEAN]
=============================================================================
