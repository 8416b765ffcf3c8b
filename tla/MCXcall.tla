------------------------------ MODULE MCXcall -------------------------------
(***************************************************************************)
(* Small instances of cross calls of low and of high priority.  They share *)
(* no state but the xc_lock, so a behaviour is one of one of them.         *)
(***************************************************************************)
EXTENDS XcallLow, XcallHigh

VARIABLE pri            \* which of the two

MCInit == pri \in {"low", "high"} /\ Init /\ HighInit

mcvars == <<pri, vars, highvars>>

MCNext == \/ pri = "low" /\ Next /\ UNCHANGED <<pri, highvars>>
          \/ pri = "high" /\ HighNext /\ UNCHANGED <<pri, vars>>

\* Everybody who can run does, IPIs arrive and the functions return.
LwpRuns(l) == \/ pri = "low" /\ LwpStep(l) /\ UNCHANGED <<pri, highvars>>
              \/ pri = "high" /\ HighLwpStep(l) /\ UNCHANGED <<pri, vars>>
CpuRuns(c) == \/ pri = "low" /\ ThreadStep(c) /\ UNCHANGED <<pri, highvars>>
              \/ pri = "high" /\ CpuStep(c) /\ UNCHANGED <<pri, vars>>

MCSpec == /\ MCInit /\ [][MCNext]_mcvars
          /\ \A l \in Lwp : WF_mcvars(LwpRuns(l))
          /\ \A c \in Cpu : WF_mcvars(CpuRuns(c))

\* Every caller, of either, gets the box and its xc_wait returns: no wake-up
\* that xc_busy owes to those who wait for the box or for a call is missed.
AllCallersReturn ==
    \A l \in Lwp : pc[l] # "idle" \/ hi_pc[l] # "idle"
                       ~> pc[l] = "idle" /\ hi_pc[l] = "idle"
=============================================================================
