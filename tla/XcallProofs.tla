---------------------------- MODULE XcallProofs -----------------------------
(***************************************************************************)
(* Proofs about cross calls of high and of low priority, for any CPUs, any *)
(* LWPs and any number of calls.                                           *)
(***************************************************************************)
EXTENDS XcallLow, XcallHigh, FiniteSetTheorems, TLAPS

-----------------------------------------------------------------------------
(* High priority: the inductive invariant                                  *)

USE XcallAssumption

\* The counters without their bounds
HighTypes ==
         /\ hi_headp \in Nat /\ hi_donep \in Nat /\ hi_func \in 0 .. MaxCalls
         /\ ipi \subseteq Cpu /\ soft \subseteq Cpu
         /\ intr \in [Cpu -> {"off", "run", "ran"}]
         /\ hi_running \in [Cpu -> 0 .. MaxCalls]
         /\ hi_pc \in [Lwp -> {"idle", "trigger", "trigger_cv", "send", "wait",
                            "wait_cv", "returned"}]
         /\ hi_call \in [Lwp -> 0 .. MaxCalls]
         /\ hi_where \in [Lwp -> Nat]
         /\ hi_targets \in [Calls -> SUBSET Cpu]
         /\ hi_ran \in [Calls -> SUBSET Cpu]

\* The CPUs on which the call in the box has been taken up, and is not counted
\* as done; and those for which its sender has still to do so.
Due == {c \in Cpu : c \in ipi \/ c \in soft \/ intr[c] # "off"}
Sending == \E l \in Lwp : hi_pc[l] = "send"
Out == {c \in Cpu : c \in Due \/ (Sending /\ hi_func \in Calls /\ c \in hi_targets[hi_func])}

\* The calls that were made are the first ones.
Numbered == \E k \in 0 .. MaxCalls : \A n \in Calls : hi_targets[n] # {} <=> n <= k

\* The counters differ by what is out, which is what the call in the box has
\* still to do.
Box == /\ hi_headp = hi_donep + Cardinality(Out)
       /\ hi_func = 0 => Out = {}
       /\ hi_func # 0 => /\ hi_targets[hi_func] # {} /\ Out \subseteq hi_targets[hi_func]
                      /\ hi_ran[hi_func] = {c \in hi_targets[hi_func] : c \in Out => intr[c] = "ran"}

\* A CPU is interrupted once, and has fetched the call in the box.
Once(c) == /\ ~(c \in ipi /\ c \in soft)
           /\ c \in ipi \/ c \in soft => intr[c] = "off"
           /\ intr[c] # "off" => hi_running[c] = hi_func

\* A caller's call is its own.  It is still to be made, in the box, or done.
Caller(l) ==
    /\ hi_pc[l] = "idle" => hi_call[l] = 0
    /\ hi_pc[l] # "idle" => hi_call[l] \in Calls /\ hi_targets[hi_call[l]] # {}
    /\ \A m \in Lwp : hi_call[l] # 0 /\ hi_call[l] = hi_call[m] => l = m
    /\ hi_pc[l] \in {"trigger", "trigger_cv"} => hi_call[l] # hi_func /\ hi_ran[hi_call[l]] = {}
    /\ hi_pc[l] = "send" => hi_call[l] = hi_func /\ Due = {}
    /\ hi_pc[l] \in {"send", "wait", "wait_cv"} =>
          \/ hi_call[l] = hi_func /\ hi_where[l] = hi_headp
          \/ hi_ran[hi_call[l]] = hi_targets[hi_call[l]]
    /\ hi_pc[l] = "returned" => hi_ran[hi_call[l]] = hi_targets[hi_call[l]]

HighInv == /\ HighTypes /\ Numbered /\ Box
           /\ \A n \in Calls : hi_ran[n] \subseteq hi_targets[n]
           /\ \A c \in Cpu : Once(c)
           /\ \A l \in Lwp : Caller(l)

-----------------------------------------------------------------------------
(* What follows from it                                                    *)

\* What is out is finite; the counters agree when nothing is.
LEMMA OutFacts ==
    ASSUME HighInv
    PROVE  /\ IsFiniteSet(Out) /\ Cardinality(Out) \in Nat
           /\ hi_headp >= hi_donep /\ (hi_headp = hi_donep <=> Out = {})
<1>1. IsFiniteSet(Out)
  <2>1. Out \subseteq Cpu
    BY Zenon DEF Out
  <2>. QED
    BY <2>1, FS_Subset, Zenon
<1>2. Cardinality(Out) \in Nat /\ (Cardinality(Out) = 0 <=> Out = {})
  BY <1>1, FS_CardinalityType, FS_EmptySet, Zenon
<1>. QED
  BY <1>1, <1>2 DEF HighInv, HighTypes, Box

\* Nobody is sending while a CPU has taken up the call.
LEMMA NotSending ==
    ASSUME HighInv, Due # {} PROVE ~Sending
BY Zenon DEF HighInv, Caller, Sending

\* Only one LWP is.
LEMMA OneSender ==
    ASSUME HighInv, NEW l \in Lwp, hi_pc[l] = "send", NEW m \in Lwp, hi_pc[m] = "send"
    PROVE  l = m
<1>1. hi_call[l] = hi_func /\ hi_call[m] = hi_func /\ hi_call[l] \in Calls
  BY Zenon DEF HighInv, Caller
<1>2. hi_call[l] # 0
  BY <1>1 DEF Calls
<1>. QED
  BY <1>2 DEF HighInv, Caller

\* The invariant says what the properties say.
LEMMA HighImplies ==
    ASSUME HighInv PROVE FetchIsSafe /\ HighWaitMeansDone
<1>1. HighWaitMeansDone
  BY Zenon DEF HighInv, Caller, HighWaitMeansDone
<1>2. ASSUME NEW c \in Cpu, c \in Due
      PROVE  hi_donep < hi_headp /\ hi_func # 0 /\ c \in hi_targets[hi_func]
             /\ (intr[c] # "ran" => c \notin hi_ran[hi_func])
  <2>1. c \in Out
    BY <1>2, Zenon DEF Out
  <2>. QED
    BY <2>1, OutFacts DEF HighInv, HighTypes, Box
<1>3. ASSUME NEW S, NEW x \in {"ipi", "soft", "intr"}, S \subseteq {x}
      PROVE  Cardinality(S) <= 1
  <2>1. IsFiniteSet({x}) /\ Cardinality({x}) = 1
    BY FS_Singleton, Zenon
  <2>2. Cardinality(S) <= Cardinality({x})
    BY <1>3, <2>1, FS_Subset, Zenon
  <2>. QED
    BY <2>1, <2>2, Zenon
<1>4. FetchIsSafe
  <2>. SUFFICES ASSUME NEW c \in Cpu PROVE FetchIsSafe!(c)
    BY Zenon DEF FetchIsSafe
  <2>1. CASE c \in ipi
    BY <1>2, <1>3, Zenon DEF HighInv, Once, Due
  <2>2. CASE c \in soft
    BY <1>2, <1>3, Zenon DEF HighInv, HighTypes, Once, Due
  <2>3. CASE c \notin ipi /\ c \notin soft
    BY <1>2, <1>3, Zenon DEF HighInv, Once, Due
  <2>. QED
    BY <2>1, <2>2, <2>3, Zenon
<1>. QED
  BY <1>1, <1>4, Zenon

\* The initial state satisfies the invariant.
LEMMA HighInitInv ==
    HighInit => HighInv
<1>. SUFFICES ASSUME HighInit PROVE HighInv
  OBVIOUS
<1>. USE DEF HighInit
<1>1. HighTypes
  BY DEF HighTypes
<1>2. Numbered
  BY DEF Numbered, Calls
<1>3. Out = {}
  BY Zenon DEF Out, Due
<1>4. Box
  BY <1>3, FS_EmptySet DEF Box
<1>. QED
  BY <1>1, <1>2, <1>4, Zenon DEF HighInv, Once, Caller

-----------------------------------------------------------------------------
(* Every step preserves it                                                 *)

\* A step of a caller that leaves the box and the CPUs alone
LEMMA BoxRests ==
    ASSUME HighInv, UNCHANGED <<hi_headp, hi_donep, hi_func, hi_targets, cpuvars>>, Sending' <=> Sending
    PROVE  /\ Numbered' /\ Box' /\ Due' = Due
           /\ \A n \in Calls : hi_ran'[n] \subseteq hi_targets'[n]
           /\ \A c \in Cpu : Once(c)'
<1>. USE DEF cpuvars
<1>1. Due' = Due /\ Out' = Out
  BY Zenon DEF Due, Out
<1>2. Box' /\ Numbered'
  BY <1>1, Zenon DEF HighInv, Box, Numbered
<1>. QED
  BY <1>1, <1>2, Zenon DEF HighInv, Once

\* xc_wait, and going to sleep
LEMMA HighWaitInv ==
    ASSUME HighInv, NEW l \in Lwp,
           (HighTrigger(l) /\ ~HighBoxFree) \/ HighWait(l) \/ HighReturn(l) \/ HighResume(l)
    PROVE  HighInv'
<1>0. HighTypes /\ Box /\ \A m \in Lwp : Caller(m)
  BY Zenon DEF HighInv
<1>1. UNCHANGED <<hi_headp, hi_donep, hi_func, hi_targets, cpuvars>> /\ hi_pc[l] # "send"
  BY Zenon DEF HighTrigger, HighWait, HighReturn, HighResume
<1>2. /\ HighTypes' /\ hi_pc'[l] # "send"
      /\ \A m \in Lwp \ {l} : hi_pc'[m] = hi_pc[m] /\ hi_call'[m] = hi_call[m] /\ hi_where'[m] = hi_where[m]
  <2>1. CASE HighResume(l)
    BY <1>0, <2>1 DEF HighTypes, cpuvars, HighResume
  <2>2. CASE HighTrigger(l) /\ ~HighBoxFree
    BY <1>0, <2>2, Zenon DEF HighTypes, cpuvars, HighTrigger
  <2>3. CASE HighWait(l) \/ HighReturn(l)
    BY <1>0, <2>3, Zenon DEF HighTypes, cpuvars, HighWait, HighReturn
  <2>. QED
    BY <2>1, <2>2, <2>3, Zenon
<1>3. Sending' <=> Sending
  BY <1>1, <1>2, Zenon DEF Sending
<1>4. /\ Numbered' /\ Box' /\ Due' = Due
      /\ \A n \in Calls : hi_ran'[n] \subseteq hi_targets'[n]
      /\ \A c \in Cpu : Once(c)'
  BY <1>1, <1>3, BoxRests, Zenon
<1>5. /\ hi_pc'[l] = "idle" => hi_call'[l] = 0
      /\ hi_pc'[l] # "idle" => hi_call'[l] = hi_call[l] /\ hi_where'[l] = hi_where[l] /\ hi_pc[l] # "idle"
      /\ hi_call'[l] = hi_call[l] \/ hi_call'[l] = 0
      /\ hi_pc'[l] = "trigger_cv" => hi_pc[l] = "trigger"
      /\ hi_pc'[l] = "wait_cv" => hi_pc[l] = "wait"
      /\ hi_pc'[l] = "returned" => hi_pc[l] = "wait" /\ hi_donep >= hi_where[l]
      /\ hi_pc'[l] \in {"idle", "trigger_cv", "wait_cv", "returned"}
  BY <1>0, Zenon DEF HighTypes, HighTrigger, HighWait, HighReturn, HighResume
<1>6. hi_pc'[l] = "returned" => hi_ran[hi_call[l]] = hi_targets[hi_call[l]]
  <2>. SUFFICES ASSUME hi_pc[l] = "wait", hi_donep >= hi_where[l] PROVE hi_ran[hi_call[l]] = hi_targets[hi_call[l]]
    BY <1>5, Zenon
  <2>1. CASE hi_call[l] = hi_func /\ hi_where[l] = hi_headp
    <3>1. hi_func \in Calls /\ hi_func # 0
      BY <1>0, <2>1 DEF Caller, Calls
    <3>2. hi_headp = hi_donep
      BY <1>0, <2>1, OutFacts DEF HighTypes
    <3>3. Out = {}
      BY <3>2, OutFacts, Zenon
    <3>. QED
      BY <1>0, <2>1, <3>1, <3>3, Zenon DEF Box
  <2>. QED
    BY <1>0, <2>1, Zenon DEF Caller
<1>7. ASSUME NEW m \in Lwp PROVE Caller(m)'
  <2>1. \A k \in Lwp : hi_call'[m] # 0 /\ hi_call'[m] = hi_call'[k] => m = k
    BY <1>0, <1>2, <1>5 DEF Caller
  <2>2. UNCHANGED <<hi_headp, hi_func, hi_targets, hi_ran, Due>>
    BY <1>1, <1>4, Zenon DEF cpuvars
  <2>3. CASE m = l
    BY <1>0, <1>5, <1>6, <2>1, <2>2, <2>3, Zenon DEF Caller
  <2>4. CASE m # l
    BY <1>0, <1>2, <2>1, <2>2, <2>4 DEF Caller
  <2>. QED
    BY <2>3, <2>4, Zenon
<1>. QED
  BY <1>2, <1>4, <1>7, Zenon DEF HighInv

\* xc_highpri is called.
LEMMA HighRequestInv ==
    ASSUME HighInv, NEW l \in Lwp, NEW T \in SUBSET Cpu, HighRequest(l, T)
    PROVE  HighInv'
<1>0. HighTypes /\ Box /\ Numbered /\ (\A m \in Lwp : Caller(m)) /\ \A c \in Cpu : Once(c)
  BY Zenon DEF HighInv
<1>1. PICK k \in 0 .. MaxCalls : \A n \in Calls : hi_targets[n] # {} <=> n <= k
  BY <1>0, Zenon DEF Numbered
<1>2. Cardinality(HighMade) = k
  <2>1. HighMade = 1 .. k
    BY <1>1 DEF HighMade, Calls
  <2>2. Cardinality(1 .. k) = k
    BY FS_Interval
  <2>. QED
    BY <2>1, <2>2, Zenon
<1>. DEFINE n == k + 1
<1>3. /\ n \in Calls /\ n # 0 /\ T # {} /\ hi_pc[l] = "idle"
      /\ hi_targets' = [hi_targets EXCEPT ![n] = T]
      /\ hi_call' = [hi_call EXCEPT ![l] = n] /\ hi_pc' = [hi_pc EXCEPT ![l] = "trigger"]
      /\ UNCHANGED <<hi_headp, hi_donep, hi_func, hi_where, cpuvars>>
  BY <1>2 DEF HighRequest, Calls
<1>4. /\ hi_targets[n] = {} /\ hi_ran[n] = {} /\ hi_func # n /\ \A m \in Lwp : hi_call[m] # n
  BY <1>1, <1>3 DEF HighInv, Box, Caller
<1>5. Numbered'
  <2>1. \A i \in Calls : hi_targets'[i] # {} <=> i <= n
    BY <1>0, <1>1, <1>3 DEF HighTypes, Calls
  <2>2. n \in 0 .. MaxCalls
    BY <1>3 DEF Calls
  <2>. QED
    BY <2>1, <2>2, Zenon DEF Numbered
<1>. HIDE DEF n
<1>6. /\ \A i \in Calls \ {n} : hi_targets'[i] = hi_targets[i]
      /\ \A m \in Lwp \ {l} : hi_pc'[m] = hi_pc[m] /\ hi_call'[m] = hi_call[m]
      /\ hi_pc'[l] = "trigger" /\ hi_call'[l] = n /\ hi_targets'[n] = T
  BY <1>0, <1>3, Zenon DEF HighTypes
<1>7. HighTypes'
  BY <1>0, <1>3 DEF HighTypes, Calls, cpuvars
<1>8. Sending' <=> Sending
  BY <1>3, <1>6, Zenon DEF Sending
<1>9. Due' = Due /\ Out' = Out
  BY <1>3, <1>4, <1>8 DEF Due, Out, cpuvars
<1>10. Box'
  <2>1. hi_func # 0 => hi_func \in Calls \ {n}
    BY <1>0, <1>4 DEF HighTypes, Calls
  <2>. QED
    BY <1>0, <1>3, <1>9, <2>1 DEF Box, cpuvars
<1>11. (\A i \in Calls : hi_ran'[i] \subseteq hi_targets'[i]) /\ \A c \in Cpu : Once(c)'
  BY <1>3, <1>4 DEF HighInv, Once, cpuvars
<1>12. ASSUME NEW m \in Lwp PROVE Caller(m)'
  <2>1. \A j \in Lwp : hi_call'[m] # 0 /\ hi_call'[m] = hi_call'[j] => m = j
    BY <1>0, <1>4, <1>6 DEF Caller
  <2>2. UNCHANGED <<hi_headp, hi_func, hi_where, hi_ran, Due>>
    BY <1>3, <1>9, Zenon DEF cpuvars
  <2>3. CASE m = l
    BY <1>3, <1>4, <1>6, <2>2, <2>3 DEF Caller
  <2>4. CASE m # l
    BY <1>0, <1>4, <1>6, <2>2, <2>4 DEF Caller
  <2>. QED
    BY <2>3, <2>4, Zenon
<1>. QED
  BY <1>5, <1>7, <1>10, <1>11, <1>12, Zenon DEF HighInv

\* The box is free and is filled.
LEMMA HighTriggerInv ==
    ASSUME HighInv, NEW l \in Lwp, HighTrigger(l), HighBoxFree
    PROVE  HighInv'
<1>0. HighTypes /\ Box /\ (\A m \in Lwp : Caller(m)) /\ \A c \in Cpu : Once(c)
  BY Zenon DEF HighInv
<1>. DEFINE n == hi_call[l]
<1>1. /\ hi_pc[l] = "trigger" /\ hi_func' = n /\ hi_headp' = hi_headp + Cardinality(hi_targets[n])
      /\ hi_where' = [hi_where EXCEPT ![l] = hi_headp'] /\ hi_pc' = [hi_pc EXCEPT ![l] = "send"]
      /\ UNCHANGED <<hi_donep, hi_call, hi_targets, cpuvars>>
  BY Zenon DEF HighTrigger, HighTicket
<1>2. n \in Calls /\ n # 0 /\ hi_targets[n] # {} /\ hi_ran[n] = {} /\ n # hi_func
  BY <1>0, <1>1 DEF Caller, Calls
<1>. HIDE DEF n
<1>3. /\ hi_headp = hi_donep /\ Out = {} /\ Due = {} /\ Due' = {}
  BY <1>1, OutFacts, Zenon DEF HighBoxFree, Out, Due, cpuvars
<1>4. hi_targets[n] \in SUBSET Cpu /\ Cardinality(hi_targets[n]) \in Nat
  BY <1>0, <1>2, FS_Subset, FS_CardinalityType, Zenon DEF HighTypes
<1>5. HighTypes'
  BY <1>0, <1>1, <1>2, <1>4 DEF HighTypes, Calls, cpuvars
<1>6. /\ \A m \in Lwp \ {l} : hi_pc'[m] = hi_pc[m] /\ hi_where'[m] = hi_where[m]
      /\ hi_pc'[l] = "send" /\ hi_where'[l] = hi_headp' /\ hi_call' = hi_call
  BY <1>0, <1>1, Zenon DEF HighTypes
<1>7. Out' = hi_targets[n]
  <2>1. Sending'
    BY <1>6, Zenon DEF Sending
  <2>. QED
    BY <1>1, <1>2, <1>3, <1>4, <2>1, Zenon DEF Out
<1>8. Box'
  <2>1. \A c \in Cpu : intr[c] = "off"
    BY <1>3, Zenon DEF Due
  <2>. QED
    BY <1>1, <1>2, <1>3, <1>4, <1>7, <2>1, Zenon DEF Box, cpuvars
<1>9. Numbered' /\ \A i \in Calls : hi_ran'[i] \subseteq hi_targets'[i]
  BY <1>1, Zenon DEF HighInv, Numbered, cpuvars
<1>10. ASSUME NEW c \in Cpu PROVE Once(c)'
  BY <1>3, Zenon DEF Once, Due
<1>11. hi_func # 0 => hi_ran[hi_func] = hi_targets[hi_func]
  BY <1>0, <1>3, Zenon DEF Box
<1>12. ASSUME NEW m \in Lwp PROVE Caller(m)'
  <2>1. UNCHANGED <<hi_targets, hi_ran, hi_call>>
    BY <1>1, Zenon DEF cpuvars
  <2>2. CASE m = l
    BY <1>0, <1>1, <1>3, <1>6, <2>2 DEF Caller, n
  <2>3. CASE m # l
    <3>1. hi_pc[m] # "idle" => hi_call[m] # n /\ hi_call[m] # 0
      BY <1>0, <2>3 DEF Caller, Calls, n
    <3>2. hi_pc[m] # "send"
      <4>1. ASSUME hi_pc[m] = "send" PROVE Out # {}
        BY <1>0, <4>1 DEF Caller, Out, Sending, HighTypes
      <4>. QED
        BY <1>3, <4>1, Zenon
    <3>3. hi_pc[m] \in {"wait", "wait_cv"} => hi_ran[hi_call[m]] = hi_targets[hi_call[m]]
      BY <1>0, <1>11, <3>1 DEF Caller
    <3>. QED
      BY <1>0, <1>1, <2>1, <2>3, <3>1, <3>2, <3>3 DEF Caller
  <2>. QED
    BY <2>2, <2>3, Zenon
<1>. QED
  BY <1>5, <1>8, <1>9, <1>10, <1>12, Zenon DEF HighInv

\* The CPUs are interrupted.
LEMMA SendInv ==
    ASSUME HighInv, NEW l \in Lwp, Send(l)
    PROVE  HighInv'
<1>0. HighTypes /\ Box /\ (\A m \in Lwp : Caller(m)) /\ \A c \in Cpu : Once(c)
  BY Zenon DEF HighInv
<1>1. PICK here \in Cpu :
         /\ hi_pc[l] = "send" /\ hi_pc' = [hi_pc EXCEPT ![l] = "wait"]
         /\ soft' = soft \cup (hi_targets[hi_call[l]] \cap {here})
         /\ ipi' = ipi \cup (hi_targets[hi_call[l]] \ {here})
         /\ UNCHANGED <<hi_headp, hi_donep, hi_func, intr, hi_running, hi_call, hi_where, hi_targets, hi_ran>>
  BY Zenon DEF Send
<1>2. /\ hi_call[l] = hi_func /\ hi_func \in Calls /\ hi_func # 0 /\ Due = {}
      /\ hi_targets[hi_func] \subseteq Cpu
  <2>1. hi_call[l] = hi_func /\ hi_func \in Calls /\ Due = {}
    BY <1>0, <1>1, Zenon DEF Caller
  <2>2. hi_func # 0
    BY <2>1 DEF Calls
  <2>. QED
    BY <1>0, <2>1, <2>2, Zenon DEF HighTypes
<1>3. ipi = {} /\ soft = {} /\ \A c \in Cpu : intr[c] = "off"
  BY <1>0, <1>2, Zenon DEF Due, HighTypes
<1>4. HighTypes' /\ hi_pc'[l] = "wait" /\ \A m \in Lwp \ {l} : hi_pc'[m] = hi_pc[m] /\ hi_pc[m] # "send"
  BY <1>0, <1>1, <1>2, OneSender, Zenon DEF HighTypes
<1>5. Due' = hi_targets[hi_func] /\ Out' = Out
  <2>1. Sending /\ ~Sending'
    BY <1>1, <1>4, Zenon DEF Sending
  <2>2. Due' = hi_targets[hi_func]
    BY <1>1, <1>2, Zenon DEF Due
  <2>. QED
    BY <1>2, <2>1, <2>2, Zenon DEF Out
<1>6. Box'
  BY <1>0, <1>1, <1>5, Zenon DEF Box
<1>7. Numbered' /\ \A i \in Calls : hi_ran'[i] \subseteq hi_targets'[i]
  BY <1>1, Zenon DEF HighInv, Numbered
<1>8. ASSUME NEW c \in Cpu PROVE Once(c)'
  BY <1>1, <1>3, Zenon DEF Once
<1>9. ASSUME NEW m \in Lwp PROVE Caller(m)'
  <2>1. CASE m = l
    BY <1>0, <1>1, <1>4 DEF Caller
  <2>2. CASE m # l
    BY <1>0, <1>1, <1>4 DEF Caller
  <2>. QED
    BY <2>1, <2>2, Zenon
<1>. QED
  BY <1>4, <1>6, <1>7, <1>8, <1>9, Zenon DEF HighInv

\* The interrupt and the fetch
LEMMA FetchInv ==
    ASSUME HighInv, NEW c \in Cpu, IpiHandler(c) \/ Fetch(c)
    PROVE  HighInv'
<1>0. HighTypes /\ Box /\ (\A m \in Lwp : Caller(m)) /\ \A d \in Cpu : Once(d)
  BY Zenon DEF HighInv
<1>1. UNCHANGED <<hi_headp, hi_donep, hi_func, hi_ran, lwpvars>> /\ c \in Due
  BY Zenon DEF IpiHandler, Fetch, Due
<1>2. ~Sending /\ ~Sending'
  BY <1>1, NotSending, Zenon DEF Sending, lwpvars
<1>3. HighTypes' /\ \A d \in Cpu : intr'[d] = "ran" <=> intr[d] = "ran"
  BY <1>0 DEF HighTypes, lwpvars, IpiHandler, Fetch
<1>4. Due' = Due
  BY <1>0 DEF Due, HighTypes, IpiHandler, Fetch
<1>5. Out' = Out
  BY <1>2, <1>4, Zenon DEF Out
<1>6. Box'
  <2>1. hi_func # 0 => hi_ran[hi_func] = {d \in hi_targets[hi_func] : d \in Out => intr'[d] = "ran"}
    <3>0. hi_func # 0 => hi_func \in Calls
      BY <1>0 DEF HighTypes, Calls
    <3>1. hi_func # 0 => hi_targets[hi_func] \subseteq Cpu
      BY <1>0, <3>0, Zenon DEF HighTypes
    <3>. QED
      BY <1>0, <1>3, <3>1, Zenon DEF Box
  <2>. QED
    BY <1>0, <1>1, <1>5, <2>1, Zenon DEF Box, lwpvars
<1>7. Numbered' /\ \A i \in Calls : hi_ran'[i] \subseteq hi_targets'[i]
  BY <1>1, Zenon DEF HighInv, Numbered, lwpvars
<1>8. ASSUME NEW d \in Cpu PROVE Once(d)'
  BY <1>0 DEF HighTypes, Once, IpiHandler, Fetch
<1>9. ASSUME NEW m \in Lwp PROVE Caller(m)'
  BY <1>0, <1>1, Zenon DEF Caller, lwpvars
<1>. QED
  BY <1>3, <1>6, <1>7, <1>8, <1>9, Zenon DEF HighInv

\* The function is run.
LEMMA HighRunInv ==
    ASSUME HighInv, NEW c \in Cpu, HighRun(c)
    PROVE  HighInv'
<1>0. HighTypes /\ Box /\ (\A m \in Lwp : Caller(m)) /\ \A d \in Cpu : Once(d)
  BY Zenon DEF HighInv
<1>1. /\ intr[c] = "run" /\ intr' = [intr EXCEPT ![c] = "ran"] /\ hi_running[c] = hi_func
      /\ hi_ran' = [hi_ran EXCEPT ![hi_func] = @ \cup {c}]
      /\ UNCHANGED <<hi_headp, hi_donep, hi_func, ipi, soft, hi_running, lwpvars>>
  BY <1>0, Zenon DEF HighRun, Once
<1>2. c \in Due /\ c \in Out
  BY <1>1, Zenon DEF Due, Out
<1>3. /\ hi_func # 0 /\ hi_func \in Calls /\ c \in hi_targets[hi_func]
  BY <1>0, <1>2 DEF Box, HighTypes, Calls
<1>4. /\ HighTypes' /\ intr'[c] = "ran" /\ (\A d \in Cpu \ {c} : intr'[d] = intr[d])
      /\ hi_ran'[hi_func] = hi_ran[hi_func] \cup {c} /\ \A n \in Calls \ {hi_func} : hi_ran'[n] = hi_ran[n]
  BY <1>0, <1>1, <1>3 DEF HighTypes, lwpvars
<1>5. Due' = Due /\ Out' = Out
  <2>1. Due' = Due
    BY <1>1 DEF Due
  <2>. QED
    BY <1>1, <2>1, Zenon DEF Out, Sending, lwpvars
<1>6. Box'
  <2>1. hi_ran'[hi_func] = {d \in hi_targets[hi_func] : d \in Out => intr'[d] = "ran"}
    BY <1>0, <1>3, <1>4 DEF Box, HighTypes
  <2>. QED
    BY <1>0, <1>1, <1>5, <2>1, Zenon DEF Box, lwpvars
<1>7. Numbered' /\ \A n \in Calls : hi_ran'[n] \subseteq hi_targets'[n]
  <2>1. ASSUME NEW n \in Calls PROVE hi_ran'[n] \subseteq hi_targets'[n]
    BY <1>1, <1>3 DEF HighInv, lwpvars
  <2>. QED
    BY <1>1, <2>1, Zenon DEF HighInv, Numbered, lwpvars
<1>8. ASSUME NEW d \in Cpu PROVE Once(d)'
  BY <1>0, <1>1 DEF Once
<1>9. ASSUME NEW m \in Lwp PROVE Caller(m)'
  <2>1. hi_call[m] \in Calls => (hi_ran[hi_call[m]] = hi_targets[hi_call[m]] => hi_ran'[hi_call[m]] = hi_targets[hi_call[m]])
    BY <1>3, <1>4, Zenon
  <2>. QED
    BY <1>0, <1>1, <1>5, <2>1 DEF Caller, lwpvars
<1>. QED
  BY <1>4, <1>6, <1>7, <1>8, <1>9, Zenon DEF HighInv

\* The function is counted as done.
LEMMA DoneInv ==
    ASSUME HighInv, NEW c \in Cpu, Done(c)
    PROVE  HighInv'
<1>0. HighTypes /\ Box /\ (\A m \in Lwp : Caller(m)) /\ \A d \in Cpu : Once(d)
  BY Zenon DEF HighInv
<1>1. /\ intr[c] = "ran" /\ intr' = [intr EXCEPT ![c] = "off"] /\ hi_donep' = hi_donep + 1
      /\ hi_running' = [hi_running EXCEPT ![c] = 0]
      /\ UNCHANGED <<hi_headp, hi_func, ipi, soft, hi_call, hi_where, hi_targets, hi_ran>>
  BY Zenon DEF Done
<1>2. /\ c \in Due /\ c \in Out /\ c \notin ipi /\ c \notin soft
  BY <1>0, <1>1, Zenon DEF Due, Out, Once
<1>3. \A m \in Lwp : /\ hi_pc'[m] = hi_pc[m] \/ hi_pc'[m] = Woken(hi_pc[m])
                     /\ hi_pc'[m] \in {"idle", "trigger", "trigger_cv", "send", "wait",
                                    "wait_cv", "returned"}
  BY <1>0, Zenon DEF Done, HighBroadcast, HighTypes, Woken
<1>4. /\ HighTypes' /\ intr'[c] = "off"
      /\ \A d \in Cpu \ {c} : intr'[d] = intr[d] /\ hi_running'[d] = hi_running[d]
  <2>1. hi_pc' \in [Lwp -> {"idle", "trigger", "trigger_cv", "send", "wait", "wait_cv", "returned"}]
    BY <1>0, <1>3, Zenon DEF Done, HighBroadcast, HighTypes
  <2>. QED
    BY <1>0, <1>1, <2>1 DEF HighTypes
<1>5. ~Sending /\ ~Sending'
  BY <1>2, <1>3, NotSending, Zenon DEF Sending, Woken
<1>6. Due' = Due \ {c} /\ Out' = Out \ {c}
  <2>1. Due' = Due \ {c}
    BY <1>1, <1>2, <1>4, Zenon DEF Due
  <2>. QED
    BY <1>5, <2>1, Zenon DEF Out
<1>7. Box'
  <2>1. Cardinality(Out') = Cardinality(Out) - 1 /\ Cardinality(Out) \in Nat
    BY <1>2, <1>6, OutFacts, FS_RemoveElement, Zenon
  <2>2. hi_headp' = hi_donep' + Cardinality(Out')
    BY <1>0, <1>1, <2>1 DEF Box, HighTypes
  <2>. QED
    BY <1>0, <1>1, <1>6, <2>2 DEF Box, HighTypes
<1>8. Numbered' /\ \A n \in Calls : hi_ran'[n] \subseteq hi_targets'[n]
  BY <1>1, Zenon DEF HighInv, Numbered
<1>9. ASSUME NEW d \in Cpu PROVE Once(d)'
  BY <1>0, <1>1, <1>4, Zenon DEF Once
<1>10. ASSUME NEW m \in Lwp PROVE Caller(m)'
  BY <1>0, <1>1, <1>3, <1>5 DEF Caller, Woken, Sending
<1>. QED
  BY <1>4, <1>7, <1>8, <1>9, <1>10, Zenon DEF HighInv

-----------------------------------------------------------------------------
(* The theorems                                                            *)

\* The invariant holds always.
THEOREM HighInvariance ==
    HighSpec => []HighInv
<1>1. HighInit => HighInv
  BY HighInitInv, Zenon
<1>2. HighInv /\ [HighNext]_highvars => HighInv'
  <2>. SUFFICES ASSUME HighInv, [HighNext]_highvars PROVE HighInv'
    OBVIOUS
  <2>1. CASE UNCHANGED highvars
    <3>1. UNCHANGED <<hi_headp, hi_donep, hi_func, hi_targets, cpuvars>> /\ (Sending' <=> Sending)
      BY <2>1, Zenon DEF highvars, cpuvars, Sending
    <3>2. HighTypes'
      BY <2>1, Zenon DEF HighInv, HighTypes, highvars
    <3>3. ASSUME NEW m \in Lwp PROVE Caller(m)'
      BY <2>1, <3>1, BoxRests, Zenon DEF HighInv, Caller, highvars
    <3>. QED
      BY <3>1, <3>2, <3>3, BoxRests, Zenon DEF HighInv
  <2>2. ASSUME NEW l \in Lwp, HighLwpStep(l) PROVE HighInv'
    BY <2>2, HighWaitInv, HighTriggerInv, SendInv, Zenon DEF HighLwpStep
  <2>3. ASSUME NEW l \in Lwp, NEW T \in SUBSET Cpu, HighRequest(l, T) PROVE HighInv'
    BY <2>3, HighRequestInv, Zenon
  <2>4. ASSUME NEW c \in Cpu, CpuStep(c) PROVE HighInv'
    BY <2>4, FetchInv, HighRunInv, DoneInv, Zenon DEF CpuStep
  <2>. QED
    BY <2>1, <2>2, <2>3, <2>4, Zenon DEF HighNext
<1>. QED
  BY <1>1, <1>2, PTL DEF HighSpec

\* The fetch of the function without the lock is safe, as the comment in
\* xc__highpri_intr says.
THEOREM FetchSafe ==
    HighSpec => []FetchIsSafe
<1>1. HighInv => FetchIsSafe
  BY HighImplies, Zenon
<1>. QED
  BY <1>1, HighInvariance, PTL

\* When xc_wait for a call of high priority returns, it has run everywhere.
THEOREM WaitSafe ==
    HighSpec => []HighWaitMeansDone
<1>1. HighInv => HighWaitMeansDone
  BY HighImplies, Zenon
<1>. QED
  BY <1>1, HighInvariance, PTL

-----------------------------------------------------------------------------
(* Low priority: the inductive invariant                                   *)

LowTypes ==
    /\ headp \in Nat /\ tailp \in Nat /\ donep \in Nat /\ func \in 0 .. MaxCalls
    /\ pending \in [Cpu -> BOOLEAN]
    /\ thread \in [Cpu -> {"locked", "cv", "run", "ran"}]
    /\ running \in [Cpu -> 0 .. MaxCalls]
    /\ pc \in [Lwp -> {"idle", "trigger", "trigger_cv", "wait", "wait_cv", "returned"}]
    /\ call \in [Lwp -> 0 .. MaxCalls]
    /\ where \in [Lwp -> Nat]
    /\ targets \in [Calls -> SUBSET Cpu]
    /\ ran \in [Calls -> SUBSET Cpu]

\* The CPUs that have the call in the box to take; that run one; and that
\* have run one that is not counted yet.
Pending == {c \in Cpu : pending[c]}
InCall == {c \in Cpu : thread[c] = "run"}
Uncounted == {c \in Cpu : thread[c] = "ran"}

LowCounters == /\ headp = tailp + Cardinality(Pending)
               /\ tailp = donep + Cardinality(InCall) + Cardinality(Uncounted)

LowNumbered == \E k \in 0 .. MaxCalls : \A n \in Calls : targets[n] # {} <=> n <= k

\* What a CPU has to take, and what it runs, is for it and has not run there.
LowOnce(c) ==
    /\ c \in Pending => /\ func \in Calls /\ c \in targets[func] /\ c \notin ran[func]
                        /\ thread[c] = "run" => running[c] # func
    /\ c \in InCall => /\ running[c] \in Calls
                       /\ c \in targets[running[c]] /\ c \notin ran[running[c]]

\* A caller's call is its own, and nobody knows of it before it is in the box.
LowCaller(l) ==
    /\ pc[l] = "idle" => call[l] = 0
    /\ pc[l] # "idle" => call[l] \in Calls /\ targets[call[l]] # {}
    /\ \A m \in Lwp : call[l] # 0 /\ call[l] = call[m] => l = m
    /\ pc[l] \in {"trigger", "trigger_cv"} =>
          /\ call[l] # func /\ ran[call[l]] = {}
          /\ \A c \in InCall : running[c] # call[l]

LowInv == /\ LowTypes /\ LowCounters /\ LowNumbered
          /\ func # 0 => targets[func] # {}
          /\ \A n \in Calls : ran[n] \subseteq targets[n]
          /\ \A c \in Cpu : LowOnce(c)
          /\ \A l \in Lwp : LowCaller(l)

-----------------------------------------------------------------------------
(* Every step preserves it                                                 *)

\* The sets that are counted are finite.
LEMMA LowFinite ==
    /\ IsFiniteSet(Pending) /\ Cardinality(Pending) \in Nat
    /\ IsFiniteSet(InCall) /\ Cardinality(InCall) \in Nat
    /\ IsFiniteSet(Uncounted) /\ Cardinality(Uncounted) \in Nat
<1>1. Pending \subseteq Cpu /\ InCall \subseteq Cpu /\ Uncounted \subseteq Cpu
  BY Zenon DEF Pending, InCall, Uncounted
<1>. QED
  BY <1>1, FS_Subset, FS_CardinalityType, Zenon

\* One CPU more, or one less
LEMMA OneMore ==
    ASSUME NEW S, IsFiniteSet(S), NEW c
    PROVE  /\ c \notin S => Cardinality(S \cup {c}) = Cardinality(S) + 1
           /\ c \in S => Cardinality(S \ {c}) = Cardinality(S) - 1
BY FS_AddElement, FS_RemoveElement, Zenon

\* The initial state satisfies the invariant.
LEMMA LowInitInv == Init => LowInv
<1>. SUFFICES ASSUME Init PROVE LowInv
  OBVIOUS
<1>. USE DEF Init
<1>1. LowTypes
  BY DEF LowTypes
<1>2. Pending = {} /\ InCall = {} /\ Uncounted = {}
  BY Zenon DEF Pending, InCall, Uncounted
<1>3. LowCounters
  BY <1>2, FS_EmptySet DEF LowCounters
<1>4. LowNumbered
  BY DEF LowNumbered, Calls
<1>. QED
  BY <1>1, <1>2, <1>3, <1>4, Zenon DEF LowInv, LowOnce, LowCaller

\* What a step must leave alone for a caller of xc_lowpri to keep its call.
LEMMA LowCallerKept ==
    ASSUME NEW m \in Lwp, LowCaller(m), call' = call, targets' = targets,
           pc'[m] = "idle" <=> pc[m] = "idle",
           pc'[m] \in {"trigger", "trigger_cv"} =>
              /\ pc[m] \in {"trigger", "trigger_cv"}
              /\ call[m] # func' /\ ran'[call[m]] = {}
              /\ \A c \in InCall' : running'[c] # call[m]
    PROVE  LowCaller(m)'
  BY Zenon DEF LowCaller

\* A step of a caller that leaves the box and the threads alone
LEMMA LowRests ==
    ASSUME LowInv,
           UNCHANGED <<headp, tailp, donep, func, pending, thread, running, targets, ran>>
    PROVE  /\ LowCounters' /\ LowNumbered' /\ InCall' = InCall
           /\ func' # 0 => targets'[func'] # {}
           /\ \A n \in Calls : ran'[n] \subseteq targets'[n]
           /\ \A c \in Cpu : LowOnce(c)'
<1>1. Pending' = Pending /\ InCall' = InCall /\ Uncounted' = Uncounted
  BY Zenon DEF Pending, InCall, Uncounted
<1>. QED
  BY <1>1, Zenon DEF LowInv, LowCounters, LowNumbered, LowOnce

\* xc_wait, and going to sleep
LEMMA LowWaitInv ==
    ASSUME LowInv, NEW l \in Lwp,
           (Trigger(l) /\ ~BoxFree) \/ Wait(l) \/ Return(l) \/ Resume(l)
    PROVE  LowInv'
<1>1. UNCHANGED <<headp, tailp, donep, func, pending, thread, running, targets, ran>>
  BY Zenon DEF Trigger, Wait, Return, Resume
<1>2. /\ LowTypes' /\ \A m \in Lwp \ {l} : pc'[m] = pc[m] /\ call'[m] = call[m]
      /\ pc'[l] = "idle" => call'[l] = 0
      /\ pc'[l] # "idle" => call'[l] = call[l] /\ pc[l] # "idle"
      /\ call'[l] = call[l] \/ call'[l] = 0
      /\ pc'[l] = "trigger_cv" => pc[l] = "trigger"
      /\ pc'[l] # "trigger"
  <2>1. CASE Resume(l)
    BY <2>1 DEF LowInv, LowTypes, Resume
  <2>2. CASE Trigger(l) /\ ~BoxFree
    BY <2>2, Zenon DEF LowInv, LowTypes, Trigger
  <2>3. CASE Wait(l) \/ Return(l)
    BY <2>3, Zenon DEF LowInv, LowTypes, Wait, Return
  <2>. QED
    BY <2>1, <2>2, <2>3, Zenon
<1>3. ASSUME NEW m \in Lwp PROVE LowCaller(m)'
  <2>1. \A k \in Lwp : call'[m] # 0 /\ call'[m] = call'[k] => m = k
    BY <1>2 DEF LowInv, LowCaller
  <2>. QED
    <3>1. LowCaller(m) /\ InCall' = InCall
      BY <1>1, LowRests, Zenon DEF LowInv
    <3>2. /\ pc'[m] = "idle" => call'[m] = 0
          /\ pc'[m] # "idle" => call'[m] = call[m] /\ pc[m] # "idle"
          /\ pc'[m] \in {"trigger", "trigger_cv"} => pc[m] \in {"trigger", "trigger_cv"}
      BY <1>2, <3>1 DEF LowCaller
    <3>3. pc'[m] \in {"trigger", "trigger_cv"} => pc'[m] # "idle"
      OBVIOUS
    <3>. QED
      BY <1>1, <2>1, <3>1, <3>2, <3>3, Zenon DEF LowCaller
<1>. QED
  BY <1>1, <1>2, <1>3, LowRests, Zenon DEF LowInv

\* xc_lowpri is called.
LEMMA LowRequestInv ==
    ASSUME LowInv, NEW l \in Lwp, NEW T \in SUBSET Cpu, Request(l, T)
    PROVE  LowInv'
<1>1. PICK k \in 0 .. MaxCalls : \A n \in Calls : targets[n] # {} <=> n <= k
  BY Zenon DEF LowInv, LowNumbered
<1>2. Cardinality(Made) = k
  <2>1. Made = 1 .. k
    BY <1>1 DEF Made, Calls
  <2>2. Cardinality(1 .. k) = k
    BY FS_Interval
  <2>. QED
    BY <2>1, <2>2, Zenon
<1>. DEFINE n == k + 1
<1>3. /\ n \in Calls /\ n # 0 /\ T # {} /\ pc[l] = "idle"
      /\ targets' = [targets EXCEPT ![n] = T]
      /\ call' = [call EXCEPT ![l] = n] /\ pc' = [pc EXCEPT ![l] = "trigger"]
      /\ UNCHANGED <<headp, tailp, donep, func, pending, thread, running, where, ran>>
  BY <1>2 DEF Request, Calls
<1>4. targets[n] = {} /\ ran[n] = {} /\ func # n /\ \A m \in Lwp : call[m] # n
  BY <1>1, <1>3 DEF LowInv, LowCaller
<1>5. LowNumbered'
  <2>1. \A i \in Calls : targets'[i] # {} <=> i <= n
    BY <1>1, <1>3 DEF LowInv, LowTypes, Calls
  <2>2. n \in 0 .. MaxCalls
    BY <1>3 DEF Calls
  <2>. QED
    BY <2>1, <2>2, Zenon DEF LowNumbered
<1>. HIDE DEF n
<1>6. /\ \A i \in Calls \ {n} : targets'[i] = targets[i]
      /\ \A m \in Lwp \ {l} : pc'[m] = pc[m] /\ call'[m] = call[m]
      /\ pc'[l] = "trigger" /\ call'[l] = n /\ targets'[n] = T
  BY <1>3, Zenon DEF LowInv, LowTypes
<1>7. LowTypes'
  BY <1>3 DEF LowInv, LowTypes, Calls
<1>8. Pending' = Pending /\ InCall' = InCall /\ Uncounted' = Uncounted
  BY <1>3, Zenon DEF Pending, InCall, Uncounted
<1>9. LowCounters'
  BY <1>3, <1>8, Zenon DEF LowInv, LowCounters
<1>10. func # 0 => func \in Calls \ {n}
  BY <1>4 DEF LowInv, LowTypes, Calls
<1>11. \A c \in InCall : running[c] \in Calls \ {n}
  BY <1>4, Zenon DEF LowInv, LowOnce, InCall
<1>12. ASSUME NEW c \in Cpu PROVE LowOnce(c)'
  BY <1>3, <1>8, <1>10, <1>11 DEF LowInv, LowOnce
<1>13. /\ func' # 0 => targets'[func'] # {}
       /\ \A i \in Calls : ran'[i] \subseteq targets'[i]
  BY <1>3, <1>4, SMTT(30) DEF LowInv
<1>14. ASSUME NEW m \in Lwp PROVE LowCaller(m)'
  <2>1. \A j \in Lwp : call'[m] # 0 /\ call'[m] = call'[j] => m = j
    BY <1>4, <1>6, SMTT(30) DEF LowInv, LowCaller
  <2>2. CASE m = l
    BY <1>3, <1>4, <1>6, <1>8, <1>11, <2>2 DEF LowCaller
  <2>3. CASE m # l
    BY <1>3, <1>4, <1>8, <2>3 DEF LowInv, LowCaller
  <2>. QED
    BY <2>2, <2>3, Zenon
<1>. QED
  BY <1>5, <1>7, <1>9, <1>12, <1>13, <1>14, Zenon DEF LowInv

\* The box is free and is filled.
LEMMA LowTriggerInv ==
    ASSUME LowInv, NEW l \in Lwp, Trigger(l), BoxFree
    PROVE  LowInv'
<1>. DEFINE n == call[l]
            T == targets[n]
<1>1. /\ pc[l] = "trigger" /\ func' = n /\ headp' = headp + Cardinality(T)
      /\ pending' = [c \in Cpu |-> pending[c] \/ c \in T]
      /\ thread' = [c \in Cpu |-> IF c \in T /\ thread[c] = "cv" THEN "locked" ELSE thread[c]]
      /\ where' = [where EXCEPT ![l] = headp'] /\ pc' = [pc EXCEPT ![l] = "wait"]
      /\ UNCHANGED <<tailp, donep, running, call, targets, ran>>
  BY Zenon DEF Trigger, Ticket
<1>2. /\ n \in Calls /\ n # 0 /\ T # {} /\ T \subseteq Cpu /\ ran[n] = {}
      /\ \A c \in InCall : running[c] # n
  BY <1>1 DEF LowInv, LowCaller, LowTypes, Calls
<1>3. IsFiniteSet(T) /\ Cardinality(T) \in Nat
  BY <1>2, FS_Subset, FS_CardinalityType, Zenon
<1>. HIDE DEF n, T
<1>4. Pending = {}
  <2>1. Cardinality(Pending) = 0
    BY LowFinite DEF BoxFree, LowInv, LowCounters
  <2>. QED
    BY <2>1, LowFinite, FS_EmptySet, Zenon
<1>5. Pending' = T /\ InCall' = InCall /\ Uncounted' = Uncounted
  BY <1>1, <1>2, <1>4, Zenon DEF Pending, InCall, Uncounted
<1>6. LowTypes'
  <2>1. pending' \in [Cpu -> BOOLEAN]
    BY <1>1, Zenon
  <2>2. thread' \in [Cpu -> {"locked", "cv", "run", "ran"}]
    BY <1>1, Zenon DEF LowInv, LowTypes
  <2>. QED
    BY <1>1, <1>2, <1>3, <2>1, <2>2 DEF LowInv, LowTypes, Calls
<1>7. LowCounters'
  <2>1. headp = tailp
    BY Zenon DEF BoxFree
  <2>. QED
    BY <1>1, <1>5, <2>1, Zenon DEF LowInv, LowCounters
<1>8. LowNumbered' /\ (func' # 0 => targets'[func'] # {})
      /\ \A i \in Calls : ran'[i] \subseteq targets'[i]
  BY <1>1, <1>2, Zenon DEF LowInv, LowNumbered, T
<1>9. ASSUME NEW c \in Cpu PROVE LowOnce(c)'
  <2>1. thread'[c] = "run" => c \in InCall
    BY <1>1, Zenon DEF InCall
  <2>. QED
    BY <1>1, <1>2, <1>5, <2>1, Zenon DEF LowInv, LowOnce, T
<1>10. ASSUME NEW m \in Lwp PROVE LowCaller(m)'
  <2>1. CASE m = l
    BY <1>1, <2>1, Zenon DEF LowInv, LowCaller, LowTypes
  <2>2. CASE m # l
    BY <1>1, <1>2, <1>5 DEF LowInv, LowCaller, LowTypes, n
  <2>. QED
    BY <2>1, <2>2, Zenon
<1>. QED
  BY <1>6, <1>7, <1>8, <1>9, <1>10, Zenon DEF LowInv

\* xc_thread takes the call from the box, or finds none and waits.
LEMMA LowDispatchInv == ASSUME LowInv, NEW c \in Cpu, Dispatch(c) PROVE LowInv'
<1>1. /\ thread[c] \in {"locked", "ran"} /\ c \notin InCall
      /\ donep' = IF thread[c] = "ran" THEN donep + 1 ELSE donep
      /\ UNCHANGED <<headp, func, call, where, targets, ran>>
  BY Zenon DEF Dispatch, InCall
<1>2. donep' = donep + Cardinality(Uncounted) - Cardinality(Uncounted \ {c})
  <2>0. (c \in Uncounted <=> thread[c] = "ran") /\ donep \in Nat
    BY Zenon DEF Uncounted, LowInv, LowTypes
  <2>1. CASE c \in Uncounted
    <3>1. Cardinality(Uncounted \ {c}) = Cardinality(Uncounted) - 1
      BY <2>1, LowFinite, OneMore, Zenon
    <3>. QED
      BY <1>1, <2>0, <3>1, LowFinite
  <2>2. CASE c \notin Uncounted
    <3>1. Uncounted \ {c} = Uncounted
      BY <2>2, Zenon
    <3>2. Cardinality(Uncounted \ {c}) = Cardinality(Uncounted) /\ donep' = donep
      BY <1>1, <2>0, <3>1, Zenon
    <3>. QED
      BY <2>0, <3>2, LowFinite
  <2>. QED
    BY <2>1, <2>2, Zenon
<1>3. Cardinality(Uncounted \ {c}) \in Nat
  BY LowFinite, FS_RemoveElement, FS_CardinalityType, Zenon
<1>4. LowNumbered' /\ (func' # 0 => targets'[func'] # {})
      /\ \A i \in Calls : ran'[i] \subseteq targets'[i]
  BY <1>1, Zenon DEF LowInv, LowNumbered
<1>5. donep' \in Nat
  BY <1>1 DEF LowInv, LowTypes
<1>6. CASE pending[c]
  <2>1. /\ pending' = [pending EXCEPT ![c] = FALSE]
        /\ running' = [running EXCEPT ![c] = func]
        /\ tailp' = tailp + 1 /\ thread' = [thread EXCEPT ![c] = "run"] /\ pc' = pc
    BY <1>6, Zenon DEF Dispatch
  <2>2. /\ Pending' = Pending \ {c} /\ c \in Pending
        /\ InCall' = InCall \cup {c} /\ Uncounted' = Uncounted \ {c}
    BY <1>6, <2>1, Zenon DEF Pending, InCall, Uncounted, LowInv, LowTypes
  <2>3. LowTypes'
    BY <1>1, <2>1 DEF LowInv, LowTypes
  <2>4. /\ Cardinality(Pending') = Cardinality(Pending) - 1
        /\ Cardinality(InCall') = Cardinality(InCall) + 1
    BY <1>1, <2>2, LowFinite, OneMore, Zenon
  <2>5. LowCounters'
    BY <1>1, <1>2, <1>3, <2>1, <2>2, <2>4, LowFinite DEF LowInv, LowCounters, LowTypes
  <2>6. running'[c] = func /\ \A d \in Cpu \ {c} : running'[d] = running[d] /\ thread'[d] = thread[d]
    BY <2>1, Zenon DEF LowInv, LowTypes
  <2>7. ASSUME NEW d \in Cpu PROVE LowOnce(d)'
    <3>1. CASE d = c
      BY <1>1, <2>2, <2>6, Zenon DEF LowInv, LowOnce
    <3>2. CASE d # c
      BY <1>1, <2>2, <2>6, Zenon DEF LowInv, LowOnce
    <3>. QED
      BY <3>1, <3>2, Zenon
  <2>8. ASSUME NEW m \in Lwp PROVE LowCaller(m)'
    <3>1. LowCaller(m)
      BY Zenon DEF LowInv
    <3>2. ASSUME pc[m] \in {"trigger", "trigger_cv"}
          PROVE  /\ call[m] # func /\ ran[call[m]] = {}
                 /\ \A d \in InCall' : running'[d] # call[m]
      BY <2>2, <2>6, <3>1, <3>2, Zenon DEF LowCaller, InCall
    <3>. QED
      BY <1>1, <2>1, <3>1, <3>2, LowCallerKept, Zenon
  <2>. QED
    BY <1>4, <2>3, <2>5, <2>7, <2>8, Zenon DEF LowInv
<1>7. CASE ~pending[c]
  <2>1. /\ pc' \in {pc, [l \in Lwp |-> Woken(pc[l])]}
        /\ thread' = [thread EXCEPT ![c] = "cv"] /\ running' = [running EXCEPT ![c] = 0]
        /\ UNCHANGED <<pending, tailp>>
    BY <1>7, Zenon DEF Dispatch, BusyBroadcast
  <2>2. /\ Pending' = Pending /\ c \notin Pending
        /\ InCall' = InCall /\ Uncounted' = Uncounted \ {c}
    BY <1>1, <1>7, <2>1, Zenon DEF Pending, InCall, Uncounted, LowInv,
       LowTypes
  <2>3. LowTypes'
    BY <1>1, <2>1 DEF LowInv, LowTypes, Woken
  <2>4. LowCounters'
    BY <1>1, <1>2, <1>3, <2>1, <2>2, LowFinite DEF LowInv, LowCounters, LowTypes
  <2>5. \A d \in Cpu \ {c} : running'[d] = running[d] /\ thread'[d] = thread[d]
    BY <2>1 DEF LowTypes
  <2>6. ASSUME NEW d \in Cpu PROVE LowOnce(d)'
    BY <1>1, <2>2, <2>5, Zenon DEF LowInv, LowOnce
  <2>7. ASSUME NEW m \in Lwp PROVE LowCaller(m)'
    <3>1. LowCaller(m)
      BY Zenon DEF LowInv
    <3>2. pc'[m] \in {pc[m], Woken(pc[m])}
      BY <2>1, Zenon
    <3>3. /\ pc'[m] = "idle" <=> pc[m] = "idle"
          /\ pc'[m] \in {"trigger", "trigger_cv"} => pc[m] \in {"trigger", "trigger_cv"}
      BY <3>2 DEF Woken
    <3>4. \A d \in InCall' : d \in InCall /\ running'[d] = running[d]
      BY <1>1, <2>2, <2>5, Zenon DEF InCall
    <3>5. ASSUME pc[m] \in {"trigger", "trigger_cv"}
          PROVE  /\ call[m] # func /\ ran[call[m]] = {}
                 /\ \A d \in InCall' : running'[d] # call[m]
      BY <3>1, <3>4, <3>5, Zenon DEF LowCaller
    <3>. QED
      BY <1>1, <3>1, <3>3, <3>5, LowCallerKept, Zenon
  <2>. QED
    BY <1>4, <2>3, <2>4, <2>6, <2>7, Zenon DEF LowInv
<1>. QED
  BY <1>6, <1>7, Zenon

\* xc_thread runs the function.
LEMMA LowRunInv == ASSUME LowInv, NEW c \in Cpu, Run(c) PROVE LowInv'
<1>. DEFINE n == running[c]
<1>1. /\ thread[c] = "run" /\ ran' = [ran EXCEPT ![n] = @ \cup {c}]
      /\ thread' = [thread EXCEPT ![c] = "ran"]
      /\ UNCHANGED <<headp, tailp, donep, func, pending, running, pc, call, where, targets>>
  BY Zenon DEF Run
<1>2. n \in Calls /\ c \in targets[n] /\ c \notin ran[n]
  BY <1>1, Zenon DEF LowInv, LowOnce, InCall
<1>3. /\ ran'[n] = ran[n] \cup {c} /\ \A i \in Calls \ {n} : ran'[i] = ran[i]
      /\ thread'[c] = "ran" /\ \A d \in Cpu \ {c} : thread'[d] = thread[d]
  BY <1>1, <1>2, Zenon DEF LowInv, LowTypes
<1>4. LowTypes'
  BY <1>1, <1>2 DEF LowInv, LowTypes
<1>. HIDE DEF n
<1>5. /\ Pending' = Pending
      /\ InCall' = InCall \ {c} /\ c \in InCall
      /\ Uncounted' = Uncounted \cup {c} /\ c \notin Uncounted
  BY <1>1, <1>3, Zenon DEF Pending, InCall, Uncounted
<1>6. /\ Cardinality(InCall') = Cardinality(InCall) - 1
      /\ Cardinality(Uncounted') = Cardinality(Uncounted) + 1
  BY <1>5, LowFinite, OneMore, Zenon
<1>7. LowCounters'
  BY <1>1, <1>5, <1>6, LowFinite DEF LowInv, LowCounters, LowTypes
<1>8. LowNumbered' /\ (func' # 0 => targets'[func'] # {})
      /\ \A i \in Calls : ran'[i] \subseteq targets'[i]
  <2>1. ASSUME NEW i \in Calls PROVE ran'[i] \subseteq targets'[i]
    BY <1>1, <1>2, <1>3, Zenon DEF LowInv
  <2>2. LowNumbered' /\ (func' # 0 => targets'[func'] # {})
    BY <1>1, Zenon DEF LowInv, LowNumbered
  <2>. QED
    BY <2>1, <2>2, Zenon
<1>9. ASSUME NEW d \in Cpu PROVE LowOnce(d)'
  <2>1. CASE d = c
    <3>1. LowOnce(c) /\ d \notin InCall' /\ thread[c] = "run"
      BY <1>1, <1>5, <2>1, Zenon DEF LowInv
    <3>2. c \in Pending => func \in Calls /\ func # n /\ c \notin ran[func]
      BY <3>1, Zenon DEF LowOnce, n
    <3>. QED
      BY <1>1, <1>3, <1>5, <2>1, <3>1, <3>2, Zenon DEF LowOnce
  <2>2. CASE d # c
    <3>1. LowOnce(d) /\ thread'[d] = thread[d]
      BY <1>3, <2>2, Zenon DEF LowInv
    <3>2. \A i \in Calls : d \notin ran[i] => d \notin ran'[i]
      BY <1>3, <2>2, Zenon
    <3>. QED
      BY <1>1, <1>5, <3>1, <3>2, Zenon DEF LowOnce
  <2>. QED
    BY <2>1, <2>2, Zenon
<1>10. ASSUME NEW m \in Lwp PROVE LowCaller(m)'
  <2>1. LowCaller(m)
    BY Zenon DEF LowInv
  <2>2. ASSUME pc[m] \in {"trigger", "trigger_cv"}
        PROVE  /\ call[m] # func /\ ran'[call[m]] = {}
               /\ \A d \in InCall' : running'[d] # call[m]
    <3>1. pc[m] # "idle" /\ call[m] # n
      BY <1>5, <2>1, <2>2, Zenon DEF LowCaller, n
    <3>2. call[m] \in Calls \ {n}
      BY <2>1, <3>1, Zenon DEF LowCaller
    <3>. QED
      BY <1>1, <1>3, <1>5, <2>1, <2>2, <3>2, Zenon DEF LowCaller
  <2>. QED
    BY <1>1, <2>1, <2>2, LowCallerKept, Zenon
<1>. QED
  BY <1>4, <1>7, <1>8, <1>9, <1>10, Zenon DEF LowInv

\* The invariant holds always.
THEOREM LowInvariance == Spec => []LowInv
<1>1. LowInv /\ [Next]_vars => LowInv'
  <2>. SUFFICES ASSUME LowInv, [Next]_vars PROVE LowInv'
    OBVIOUS
  <2>1. CASE UNCHANGED vars
    <3>1. LowTypes'
      BY <2>1, Zenon DEF LowInv, LowTypes, vars
    <3>2. ASSUME NEW m \in Lwp PROVE LowCaller(m)'
      BY <2>1, LowRests, Zenon DEF LowInv, LowCaller, vars
    <3>. QED
      BY <2>1, <3>1, <3>2, LowRests, Zenon DEF LowInv, vars
  <2>. QED
    BY <2>1, LowWaitInv, LowRequestInv, LowTriggerInv, LowDispatchInv,
       LowRunInv, Zenon DEF Next, LwpStep, ThreadStep
<1>. QED
  BY <1>1, LowInitInv, PTL DEF Spec

\* No call is overwritten before every CPU it is for has taken it, no CPU
\* takes a call that is not for it, and none takes a call twice.
THEOREM TakenOnce == Spec => []CallsAreTakenOnce
<1>1. LowInv => CallsAreTakenOnce
  BY Zenon DEF LowInv, LowOnce, Pending, InCall, CallsAreTakenOnce
<1>. QED
  BY <1>1, LowInvariance, PTL

\* The counters of low priority calls count the calls that are waiting in
\* the box, that are running and that have run.
THEOREM CountersHold == Spec => []CountersAgree
<1>1. LowInv => CountersAgree
  BY LowFinite DEF LowInv, LowCounters, LowTypes, CountersAgree, Pending, InCall, Uncounted
<1>. QED
  BY <1>1, LowInvariance, PTL

-----------------------------------------------------------------------------
(* Low priority, with one caller.  xc_wait may return too early only       *)
(* because another LWP makes a call meanwhile (the run xcall_low_wait);    *)
(* psref_target_destroy and softint_disestablish rely on a call that is    *)
(* alone.                                                                  *)

\* Nobody else calls.
OneCaller == \A l, m \in Lwp : l = m

\* What has run is what is neither waiting nor running, all of the one call;
\* and there is nothing left of it when its caller has returned.
LowAlone ==
    /\ \A c \in InCall : running[c] = func
    /\ func # 0 => ran[func] = targets[func] \ (Pending \cup InCall)
    /\ func = 0 => InCall = {}
    /\ \A l \in Lwp :
          /\ pc[l] \in {"wait", "wait_cv"} => call[l] = func /\ where[l] = headp
          /\ pc[l] = "returned" => call[l] = func
          /\ pc[l] \in {"idle", "trigger", "trigger_cv", "returned"} => donep = headp

\* When the counters agree, nothing is left.
LEMMA LowNothingLeft ==
    ASSUME LowInv, donep >= headp PROVE Pending = {} /\ InCall = {} /\ Uncounted = {}
<1>1. Cardinality(Pending) = 0 /\ Cardinality(InCall) = 0 /\ Cardinality(Uncounted) = 0
  BY LowFinite DEF LowInv, LowCounters, LowTypes
<1>. QED
  BY <1>1, LowFinite, FS_EmptySet, Zenon

\* Every step of a single caller and of the threads keeps this.
LEMMA LowAloneInv ==
    ASSUME OneCaller, LowInv, LowInv', LowAlone, [Next]_vars PROVE LowAlone'
<1>1. ASSUME NEW l \in Lwp, (Trigger(l) /\ ~BoxFree) \/ Wait(l) \/ Return(l) \/ Resume(l)
      PROVE  LowAlone'
  <2>1. UNCHANGED <<headp, tailp, donep, func, pending, thread, running, targets, ran>>
    BY <1>1, Zenon DEF Trigger, Wait, Return, Resume
  <2>2. Pending' = Pending /\ InCall' = InCall
    BY <2>1, Zenon DEF Pending, InCall
  <2>3. \A m \in Lwp : m = l
    BY Zenon DEF OneCaller
  <2>4. donep <= headp
    BY LowFinite DEF LowInv, LowCounters, LowTypes
  <2>5. /\ pc'[l] \in {"wait", "wait_cv"} => call'[l] = func /\ where'[l] = headp
        /\ pc'[l] = "returned" => call'[l] = func
        /\ pc'[l] \in {"idle", "trigger", "trigger_cv", "returned"} => donep = headp
    BY <1>1, <2>4 DEF LowAlone, LowInv, LowTypes, Trigger, Wait, Return, Resume
  <2>. QED
    BY <2>1, <2>2, <2>3, <2>5, Zenon DEF LowAlone
<1>2. ASSUME NEW l \in Lwp, NEW T \in SUBSET Cpu, Request(l, T) PROVE LowAlone'
  <2>1. /\ pc[l] = "idle" /\ pc' = [pc EXCEPT ![l] = "trigger"]
        /\ UNCHANGED <<headp, tailp, donep, func, pending, thread, running, where, ran>>
    BY <1>2, Zenon DEF Request
  <2>2. Pending' = Pending /\ InCall' = InCall
    BY <2>1, Zenon DEF Pending, InCall
  <2>3. donep = headp
    BY <2>1, Zenon DEF LowAlone
  <2>4. Pending = {} /\ InCall = {}
    BY <2>3, LowNothingLeft DEF LowInv, LowTypes
  <2>5. func # 0 => func \in Calls /\ targets'[func] = targets[func]
    <3>1. PICK k \in 0 .. MaxCalls : \A n \in Calls : targets[n] # {} <=> n <= k
      BY Zenon DEF LowInv, LowNumbered
    <3>2. Made = 1 .. k /\ Cardinality(1 .. k) = k
      <4>1. Made = 1 .. k
        BY <3>1 DEF Made, Calls
      <4>. QED
        BY <4>1, FS_Interval
    <3>3. targets' = [targets EXCEPT ![k + 1] = T]
      BY <1>2, <3>2, Zenon DEF Request
    <3>. QED
      BY <3>1, <3>3 DEF LowInv, LowTypes, Calls
  <2>6. \A m \in Lwp : m = l /\ pc'[m] = "trigger"
    BY <2>1, Zenon DEF OneCaller, LowInv, LowTypes
  <2>. QED
    BY <2>1, <2>2, <2>5, <2>6, Zenon DEF LowAlone
<1>3. ASSUME NEW l \in Lwp, Trigger(l), BoxFree PROVE LowAlone'
  <2>1. /\ pc[l] = "trigger" /\ func' = call[l] /\ pc' = [pc EXCEPT ![l] = "wait"]
        /\ pending' = [c \in Cpu |-> pending[c] \/ c \in targets[call[l]]]
        /\ thread' = [c \in Cpu |-> IF c \in targets[call[l]] /\ thread[c] = "cv"
                                    THEN "locked" ELSE thread[c]]
        /\ where' = [where EXCEPT ![l] = headp']
        /\ UNCHANGED <<running, call, targets, ran>>
    BY <1>3, Zenon DEF Trigger, Ticket
  <2>2. donep = headp
    BY <2>1, Zenon DEF LowAlone
  <2>3. Pending = {} /\ InCall = {}
    BY <2>2, LowNothingLeft DEF LowInv, LowTypes
  <2>4. call[l] \in Calls /\ ran[call[l]] = {} /\ targets[call[l]] \subseteq Cpu /\ call[l] # 0
    BY <2>1 DEF LowInv, LowCaller, LowTypes, Calls
  <2>5. Pending' = targets[call[l]] /\ InCall' = {}
    BY <2>1, <2>3, <2>4, Zenon DEF Pending, InCall
  <2>6. \A m \in Lwp : m = l /\ pc'[m] = "wait" /\ where'[m] = headp'
    BY <2>1 DEF OneCaller, LowInv, LowTypes
  <2>. QED
    BY <2>1, <2>4, <2>5, <2>6, Zenon DEF LowAlone
<1>4. ASSUME NEW c \in Cpu, Dispatch(c) PROVE LowAlone'
  <2>1. /\ thread[c] \in {"locked", "ran"} /\ donep' \in {donep, donep + 1}
        /\ UNCHANGED <<headp, func, call, where, targets, ran>>
    BY <1>4, Zenon DEF Dispatch
  <2>2. /\ thread[c] = "ran" \/ pending[c] => donep < headp
    <3>1. ASSUME donep >= headp PROVE thread[c] # "ran" /\ ~pending[c]
      BY <3>1, LowNothingLeft, Zenon DEF Pending, Uncounted
    <3>. QED
      BY <3>1 DEF LowInv, LowTypes
  <2>3. ASSUME NEW l \in Lwp
        PROVE  /\ pc'[l] \in {"wait", "wait_cv"} => call'[l] = func /\ where'[l] = headp
               /\ pc'[l] = "returned" => call'[l] = func
               /\ pc'[l] \in {"idle", "trigger", "trigger_cv", "returned"} => donep' = headp
    <3>1. pc'[l] = pc[l] \/ pc'[l] = Woken(pc[l])
      BY <1>4, Zenon DEF Dispatch, BusyBroadcast
    <3>2. /\ pc'[l] \in {"wait", "wait_cv"} => pc[l] \in {"wait", "wait_cv"}
          /\ pc'[l] = "returned" => pc[l] = "returned"
          /\ pc'[l] \in {"idle", "trigger", "trigger_cv", "returned"}
                => pc[l] \in {"idle", "trigger", "trigger_cv", "returned"}
      BY <3>1, Zenon DEF Woken
    <3>3. donep < headp => pc[l] \in {"wait", "wait_cv"}
      BY DEF LowAlone, LowInv, LowTypes
    <3>4. donep = headp => donep' = donep
      BY <1>4, <2>2 DEF Dispatch, LowInv, LowTypes
    <3>. QED
      BY <2>1, <3>2, <3>4, Zenon DEF LowAlone
  <2>4. CASE pending[c]
    <3>1. /\ running'[c] = func /\ \A d \in Cpu \ {c} : running'[d] = running[d]
          /\ InCall' = InCall \cup {c} /\ Pending' = Pending \ {c} /\ c \in Pending
      <4>1. /\ pending' = [pending EXCEPT ![c] = FALSE]
            /\ running' = [running EXCEPT ![c] = func]
            /\ thread' = [thread EXCEPT ![c] = "run"]
        BY <1>4, <2>4, Zenon DEF Dispatch
      <4>2. /\ running'[c] = func /\ ~pending'[c] /\ thread'[c] = "run"
        BY <4>1, ZenonT(30) DEF LowInv, LowTypes
      <4>3. \A d \in Cpu \ {c} : /\ running'[d] = running[d] /\ thread'[d] = thread[d]
                               /\ pending'[d] = pending[d]
        BY <4>1 DEF LowInv, LowTypes
      <4>. QED
        BY <2>4, <4>2, <4>3, Zenon DEF InCall, Pending
    <3>2. func # 0
      <4>1. func \in Calls
        BY <3>1, Zenon DEF LowInv, LowOnce
      <4>. QED
        BY <4>1 DEF Calls
    <3>. QED
      BY <2>1, <2>3, <3>1, <3>2, ZenonT(30) DEF LowAlone, InCall
  <2>5. CASE ~pending[c]
    <3>1. /\ \A d \in Cpu \ {c} : running'[d] = running[d]
          /\ InCall' = InCall /\ Pending' = Pending /\ c \notin InCall
      <4>1. /\ pending' = pending /\ running' = [running EXCEPT ![c] = 0]
            /\ thread[c] # "run" /\ thread' = [thread EXCEPT ![c] = "cv"]
        BY <1>4, <2>1, <2>5, Zenon DEF Dispatch
      <4>2. thread'[c] # "run"
        BY <4>1, Zenon DEF LowInv, LowTypes
      <4>3. \A d \in Cpu \ {c} : running'[d] = running[d] /\ thread'[d] = thread[d]
        BY <4>1 DEF LowInv, LowTypes
      <4>. QED
        BY <4>1, <4>2, <4>3, Zenon DEF InCall, Pending
    <3>. QED
      BY <2>1, <2>3, <3>1, Zenon DEF LowAlone, InCall
  <2>. QED
    BY <2>4, <2>5, Zenon
<1>5. ASSUME NEW c \in Cpu, Run(c) PROVE LowAlone'
  <2>1. /\ c \in InCall /\ ran' = [ran EXCEPT ![running[c]] = @ \cup {c}]
        /\ thread' = [thread EXCEPT ![c] = "ran"]
        /\ UNCHANGED <<headp, donep, func, pending, running, pc, call, where, targets>>
    BY <1>5, ZenonT(30) DEF Run, InCall
  <2>2. running[c] = func /\ func \in Calls /\ c \in targets[func] /\ c \notin Pending
    BY <2>1 DEF LowAlone, LowInv, LowOnce, InCall
  <2>3. InCall' = InCall \ {c} /\ Pending' = Pending
    BY <2>1, Zenon DEF InCall, Pending, LowInv, LowTypes
  <2>4. ran'[func] = ran[func] \cup {c}
    BY <2>1, <2>2 DEF LowInv, LowTypes
  <2>. QED
    <3>1. func # 0
      BY <2>2 DEF Calls
    <3>2. ran[func] = targets[func] \ (Pending \cup InCall)
      BY <3>1, Zenon DEF LowAlone
    <3>3. ran'[func] = targets[func] \ (Pending \cup (InCall \ {c}))
      BY <2>2, <2>4, <3>2, Zenon
    <3>. QED
      BY <2>1, <2>3, <3>1, <3>3, Zenon DEF LowAlone
<1>6. CASE UNCHANGED vars
  <2>1. Pending' = Pending /\ InCall' = InCall
    BY <1>6, Zenon DEF Pending, InCall, vars
  <2>. QED
    BY <1>6, <2>1, Zenon DEF LowAlone, vars
<1>. QED
  BY <1>1, <1>2, <1>3, <1>4, <1>5, <1>6, Zenon DEF Next, LwpStep, ThreadStep

\* When xc_wait for a call of low priority returns to the only caller, the
\* function has run everywhere.
THEOREM LowWaitSafe == OneCaller => (Spec => []WaitMeansDone)
<1>. SUFFICES ASSUME OneCaller PROVE Spec => []WaitMeansDone
  OBVIOUS
<1>1. Init => LowAlone
  BY Zenon DEF Init, LowAlone, InCall
<1>2. LowInv /\ LowInv' /\ LowAlone /\ [Next]_vars => LowAlone'
  BY LowAloneInv, Zenon
<1>3. LowInv /\ LowAlone => WaitMeansDone
  <2>. SUFFICES ASSUME LowInv, LowAlone, NEW l \in Lwp, pc[l] = "returned"
                PROVE  ran[call[l]] = targets[call[l]]
    BY Zenon DEF WaitMeansDone
  <2>1. Pending = {} /\ InCall = {}
    BY LowNothingLeft DEF LowAlone, LowInv, LowTypes
  <2>2. call[l] = func /\ func # 0
    BY DEF LowAlone, LowInv, LowCaller, Calls
  <2>. QED
    BY <2>1, <2>2, Zenon DEF LowAlone
<1>. QED
  BY <1>1, <1>2, <1>3, LowInvariance, PTL DEF Spec
=============================================================================
