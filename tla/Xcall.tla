------------------------------- MODULE Xcall --------------------------------
(***************************************************************************)
(* What cross calls of low and of high priority have in common: who makes  *)
(* them, and the condition variable xc_busy of an xc_state_t, on which a   *)
(* caller waits for the box and then for its call.                         *)
(***************************************************************************)
EXTENDS Integers, FiniteSets, Cpus

CONSTANTS
    Lwp,        \* the LWPs that make cross calls
    MaxCalls    \* bound: how many calls are made altogether

ASSUME XcallAssumption ==
    IsFiniteSet(Cpu) /\ Cpu # {} /\ MaxCalls \in Nat

Calls == 1 .. MaxCalls

\* Where a caller goes on after cv_broadcast(&xc->xc_busy)
Woken(p) == IF p = "trigger_cv" THEN "trigger"
            ELSE IF p = "wait_cv" THEN "wait" ELSE p
=============================================================================
