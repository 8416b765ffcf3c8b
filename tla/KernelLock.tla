----------------------------- MODULE KernelLock -----------------------------
(***************************************************************************)
(* The kernel lock, sys/kern/kern_lock.c.  It is held by a CPU, which      *)
(* counts how often, for an LWP and the interrupts on top of it: a soft    *)
(* interrupt, which has an LWP of its own, and a hardware interrupt, which *)
(* borrows the LWP it has interrupted.  What is done at splvm is a step,   *)
(* and the interrupts come in between, also while the LWP spins.  An LWP   *)
(* gives up its holds before another one runs in its place, so that one LWP*)
(* of each kind stands for all.                                            *)
(***************************************************************************)
EXTENDS Integers, Cpus

CONSTANTS
    MaxHold,            \* bound: how often a context takes the lock
    NoLwp               \* NULL

ASSUME KernelLockAssumption == MaxHold \in Nat /\ NoLwp \notin {1, 2}

Context == 1 .. 3       \* an LWP, a soft interrupt, a hardware interrupt

VARIABLES
    kernel_lock,        \* whether it is locked
    ci_biglock_count,   \* how often each CPU holds it
    ci_biglock_wanted,  \* the LWP that makes the CPU spin for it
    l_blcnt,            \* how often LWPs 1 and 2 of each CPU hold it
    ctx,                \* where each context is
    nlocks,             \* the argument of _kernel_lock while it spins
    owant,              \* its local variable
    holds               \* how often each context has taken the lock

klvars == <<kernel_lock, ci_biglock_count, ci_biglock_wanted, l_blcnt, ctx,
            nlocks, owant, holds>>

Each(v) == [cc \in Cpu |-> [x \in Context |-> v]]

KernelInit == /\ kernel_lock = FALSE
              /\ ci_biglock_count = [cc \in Cpu |-> 0]
              /\ ci_biglock_wanted = [cc \in Cpu |-> NoLwp]
              /\ l_blcnt = [cc \in Cpu |-> [l \in 1 .. 2 |-> 0]]
              /\ ctx = [cc \in Cpu |-> [x \in Context |-> IF x = 1 THEN "run" ELSE "off"]]
              /\ nlocks = Each(0) /\ owant = Each(NoLwp) /\ holds = Each(0)

\* The context that is on top, and curlwp in it
Runs(cc, x) == ctx[cc][x] # "off" /\ \A y \in Context : y > x => ctx[cc][y] = "off"
curlwp(cc, x) == IF x = 2 \/ (x = 3 /\ ctx[cc][2] # "off") THEN 2 ELSE 1

-----------------------------------------------------------------------------
(* KERNEL_LOCK(n) in context x, which is _kernel_lock                      *)

\* ci->ci_biglock_count != 0
\* (The variant asks whether the LWP holds the lock.)
LwpHolds(cc, x) == l_blcnt[cc][curlwp(cc, x)] # 0
CpuHolds(cc, x) == ci_biglock_count[cc] # 0

Hold(cc, x, n) ==
    /\ holds' = [holds EXCEPT ![cc][x] = @ + n]
    /\ UNCHANGED <<ci_biglock_wanted, owant>>

Again(cc, x, n) ==
    /\ ci_biglock_count' = [ci_biglock_count EXCEPT ![cc] = @ + n]
    /\ l_blcnt' = [l_blcnt EXCEPT ![cc][curlwp(cc, x)] = @ + n]
    /\ UNCHANGED kernel_lock

\* __cpu_simple_lock_try succeeds.
First(cc, x, n) ==
    /\ ~kernel_lock /\ kernel_lock' = TRUE
    /\ ci_biglock_count' = [ci_biglock_count EXCEPT ![cc] = n]
    /\ l_blcnt' = [l_blcnt EXCEPT ![cc][curlwp(cc, x)] = n]

KERNEL_LOCK(cc, x, n) ==
    /\ Runs(cc, x) /\ ctx[cc][x] = "run" /\ holds[cc][x] + n <= MaxHold
    /\ \/ CpuHolds(cc, x) /\ Again(cc, x, n) /\ Hold(cc, x, n) /\ UNCHANGED <<ctx, nlocks>>
       \/ ~CpuHolds(cc, x) /\ First(cc, x, n) /\ Hold(cc, x, n) /\ UNCHANGED <<ctx, nlocks>>
       \/ /\ ~CpuHolds(cc, x) /\ kernel_lock
          /\ owant' = [owant EXCEPT ![cc][x] = ci_biglock_wanted[cc]]
          /\ ci_biglock_wanted' = [ci_biglock_wanted EXCEPT ![cc] = curlwp(cc, x)]
          /\ ctx' = [ctx EXCEPT ![cc][x] = "spin"]
          /\ nlocks' = [nlocks EXCEPT ![cc][x] = n]
          /\ UNCHANGED <<kernel_lock, ci_biglock_count, l_blcnt, holds>>

\* The lock is free while the context spins.
SpinForLock(cc, x) ==
    /\ Runs(cc, x) /\ ctx[cc][x] = "spin"
    /\ First(cc, x, nlocks[cc][x]) /\ Hold(cc, x, nlocks[cc][x])
    /\ ctx' = [ctx EXCEPT ![cc][x] = "reset"]
    /\ nlocks' = [nlocks EXCEPT ![cc][x] = 0]

Wanted(cc, x) == owant[cc][x]
Reset(cc, x) ==
    /\ Runs(cc, x) /\ ctx[cc][x] = "reset"
    /\ ci_biglock_wanted' = [ci_biglock_wanted EXCEPT ![cc] = Wanted(cc, x)]
    /\ owant' = [owant EXCEPT ![cc][x] = NoLwp]
    /\ ctx' = [ctx EXCEPT ![cc][x] = "run"]
    /\ UNCHANGED <<kernel_lock, ci_biglock_count, l_blcnt, nlocks, holds>>

-----------------------------------------------------------------------------
(* KERNEL_UNLOCK: one hold, or, when an LWP gives up the CPU, all its own  *)

\* (The variant lets go with the last hold of the LWP.)
LastOfLwp(cc, x, n) == l_blcnt[cc][curlwp(cc, x)] = n
Final(cc, x, n) == ci_biglock_count[cc] = n

KERNEL_UNLOCK(cc, x) ==
    /\ Runs(cc, x) /\ ctx[cc][x] = "run" /\ holds[cc][x] > 0
    /\ LET l == curlwp(cc, x) IN
       \E n \in IF x = 3 THEN {1} ELSE {1, l_blcnt[cc][l]} :
          /\ IF Final(cc, x, n)
             THEN kernel_lock' = FALSE /\ ci_biglock_count' = [ci_biglock_count EXCEPT ![cc] = 0]
             ELSE /\ UNCHANGED kernel_lock
                  /\ ci_biglock_count' = [ci_biglock_count EXCEPT ![cc] = @ - n]
          /\ l_blcnt' = [l_blcnt EXCEPT ![cc][l] = @ - n]
          /\ holds' = [holds EXCEPT ![cc][x] = @ - n]
    /\ UNCHANGED <<ci_biglock_wanted, ctx, nlocks, owant>>

-----------------------------------------------------------------------------
\* An interrupt comes, over all of a lower level, and ends.
Interrupt(cc, x) ==
    /\ x > 1 /\ \A y \in Context : y >= x => ctx[cc][y] = "off"
    /\ ctx' = [ctx EXCEPT ![cc][x] = "run"]
    /\ UNCHANGED <<kernel_lock, ci_biglock_count, ci_biglock_wanted, l_blcnt,
                   nlocks, owant, holds>>

Rti(cc, x) ==
    /\ x > 1 /\ Runs(cc, x) /\ ctx[cc][x] = "run" /\ holds[cc][x] = 0
    /\ ctx' = [ctx EXCEPT ![cc][x] = "off"]
    /\ UNCHANGED <<kernel_lock, ci_biglock_count, ci_biglock_wanted, l_blcnt,
                   nlocks, owant, holds>>

KernelNext == \E cc \in Cpu, x \in Context :
                  \/ \E n \in 1 .. MaxHold : KERNEL_LOCK(cc, x, n)
                  \/ SpinForLock(cc, x) \/ Reset(cc, x) \/ KERNEL_UNLOCK(cc, x)
                  \/ Interrupt(cc, x) \/ Rti(cc, x)

KernelSpec == KernelInit /\ [][KernelNext]_klvars
-----------------------------------------------------------------------------
(* Properties                                                              *)

KernelTypeOK == /\ kernel_lock \in BOOLEAN
                /\ ci_biglock_count \in [Cpu -> 0 .. 3 * MaxHold]
                /\ ci_biglock_wanted \in [Cpu -> {1, 2, NoLwp}]
                /\ l_blcnt \in [Cpu -> [1 .. 2 -> 0 .. 3 * MaxHold]]
                /\ ctx \in [Cpu -> [Context -> {"off", "run", "spin", "reset"}]]
                /\ nlocks \in [Cpu -> [Context -> 0 .. MaxHold]]
                /\ owant \in [Cpu -> [Context -> {1, 2, NoLwp}]]
                /\ holds \in [Cpu -> [Context -> 0 .. MaxHold]]

\* The lock is held by one CPU as long as any of its contexts holds it, and
\* the counts of the CPU and of its LWPs are those of their contexts.
HoldsAgree ==
    /\ kernel_lock => \E cc \in Cpu : ci_biglock_count[cc] > 0
    /\ \A cc \in Cpu :
          /\ ci_biglock_count[cc] > 0 =>
                kernel_lock /\ \A i \in Cpu \ {cc} : ci_biglock_count[i] = 0
          /\ ci_biglock_count[cc] = holds[cc][1] + holds[cc][2] + holds[cc][3]
          /\ ci_biglock_count[cc] = l_blcnt[cc][1] + l_blcnt[cc][2]
          /\ l_blcnt[cc][1] >= holds[cc][1] /\ l_blcnt[cc][2] >= holds[cc][2]

Spins(cc, x) == ctx[cc][x] \in {"spin", "reset"}

\* ci_biglock_wanted names the LWP that spins, on whose account mutex_oncpu
\* takes the owner of a mutex for one that does not run; and nobody otherwise.
WantedIsSpinning ==
    \A cc \in Cpu :
        /\ (\A x \in Context : ~Spins(cc, x)) => ci_biglock_wanted[cc] = NoLwp
        /\ \A x \in Context :
              Spins(cc, x) /\ (\A y \in Context : y > x => ~Spins(cc, y)) =>
                  ci_biglock_wanted[cc] = curlwp(cc, x)

\* No context spins for a lock that its own CPU holds, unless it is for an
\* interrupt on top of it.
SpinsForAnother ==
    \A cc \in Cpu, x \in Context : ctx[cc][x] = "spin" /\ ci_biglock_count[cc] > 0 =>
        \A y \in Context : holds[cc][y] > 0 => y > x
=============================================================================
