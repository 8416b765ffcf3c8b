----------------------------- MODULE MCDeferred -----------------------------
(***************************************************************************)
(* Small instances of the facilities that run a function later: callouts   *)
(* on several CPUs, the timing wheel of one CPU, and workqueues.  A        *)
(* behaviour is one of one of them; the others rest in their initial state *)
(***************************************************************************)
EXTENDS Callout, Workqueue

CONSTANTS WHEELBITS, Timer, Delay, MaxLag

VARIABLES
    part,           \* which of the three
    cc_ticks, c_time, flag, list, left

W == INSTANCE CalloutWheel

wheelvars == <<cc_ticks, c_time, flag, list, left>>

MCInit == /\ part \in {"callout", "wheel", "workqueue"}
          /\ Init /\ W!Init /\ WqInit
          /\ part # "wheel" => cc_ticks = 0

MCNext == \/ part = "callout" /\ Next /\ UNCHANGED <<part, wheelvars, wqvars>>
          \/ part = "wheel" /\ W!Next /\ UNCHANGED <<part, vars, wqvars>>
          \/ part = "workqueue" /\ WqNext /\ UNCHANGED <<part, vars, wheelvars>>

MCSpec == /\ MCInit /\ [][MCNext]_<<part, vars, wheelvars, wqvars>>
          /\ Fairness /\ WqFairness

\* Callouts alone
CalloutSpec == /\ MCInit /\ part = "callout"
               /\ [][MCNext]_<<part, vars, wheelvars, wqvars>>

\* CalloutWheel: each callout is run in its time.
OnTime == W!OnTime
=============================================================================
