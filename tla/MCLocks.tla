------------------------------ MODULE MCLocks -------------------------------
(***************************************************************************)
(* Small instances of what the locks rest on: turnstiles, for LWPs 1 .. 4  *)
(* with as many priorities; spin mutexes, one of the lowest and one of the *)
(* highest of three interrupt levels; and of what runs on top of them on   *)
(* each CPU: the kernel lock, and software interrupts.  A behaviour is one *)
(* of one of them; the others rest in their initial state.                 *)
(***************************************************************************)
EXTENDS Turnstile, SpinMutex, KernelLock, Softint, TLC

VARIABLE part           \* which of them

MCInit == /\ part \in {"turnstile", "spin", "kernel_lock", "softint"}
          /\ Init /\ SpinInit /\ KernelInit /\ SoftInit

\* Bound: interrupts, of all levels, come to one CPU at a time.
OneInterrupted == Cardinality({c \in Cpu : active[c] # {0}}) <= 1

MCNext ==
    \/ part = "turnstile" /\ Next /\ UNCHANGED <<part, spinvars, klvars, softvars>>
    \/ /\ part = "spin" /\ SpinNext /\ OneInterrupted'
       /\ UNCHANGED <<part, vars, klvars, softvars>>
    \/ part = "kernel_lock" /\ KernelNext /\ UNCHANGED <<part, vars, spinvars, softvars>>
    \/ part = "softint" /\ SoftNext /\ UNCHANGED <<part, vars, spinvars, klvars>>

MCSpec == MCInit /\ [][MCNext]_<<part, vars, spinvars, klvars, softvars>>

MCPrio == [l \in Lwp |-> l]
MCIpl == <<1, 3>>
Symmetry == Permutations(TS) \cup Permutations(Cpu)
=============================================================================
