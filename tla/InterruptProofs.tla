--------------------------- MODULE InterruptProofs ---------------------------
(***************************************************************************)
(* Proofs about what runs in interrupts: software interrupts, synchronous  *)
(* interprocessor interrupts, and callouts, which softclock runs; for any  *)
(* CPUs, slots, callouts and LWPs.                                         *)
(***************************************************************************)
EXTENDS Softint, Ipi, Callout, FiniteSetTheorems, TLAPS

-----------------------------------------------------------------------------
(* Callouts: callout_softclock finds on its queues what it asserts, wakes  *)
(* all who wait for it, and callout_halt waits for a handler that runs in  *)
(* place.                                                                  *)

\* The queues hold what is pending, and only callouts in existence are.
Placed ==
    /\ \A cc \in Cpu : cc_queue[cc] =
          {o \in Callout : c_cpu[o] = cc /\ "PENDING" \in c_flags[o]}
    /\ \A o \in Callout : "PENDING" \in c_flags[o] =>
          o \in c_magic /\ "FIRED" \notin c_flags[o]

\* An LWP in callout_halt has a callout that exists.  As long as nobody else
\* schedules it, it is not pending, and once the loop is over its handler
\* does not run where it is.
Halting ==
    \A l \in Lwp :
        /\ pc[l] = "out" <=> cs[l] = Null
        /\ cs[l] # Null => cs[l] \in c_magic
        /\ cs[l] # Null /\ calm[l] => "PENDING" \notin c_flags[cs[l]]
        /\ pc[l] \in {"relock", "halted"} /\ calm[l] => cc_active[c_cpu[cs[l]]] # cs[l]

\* A handler runs on the CPU its callout is on until the callout is moved,
\* which a bound one is not, or destroyed.
Active ==
    \A cc \in Cpu :
        /\ cc_active[cc] = Null <=> softclock[cc] \in {"off", "loop"}
        /\ cc_active[cc] = Null => fate[cc] = "own"
        /\ cc_active[cc] # Null =>
              /\ fate[cc] # "gone" => cc_active[cc] \in c_magic
              /\ fate[cc] = "own" => c_cpu[cc_active[cc]] = cc
              /\ fate[cc] = "moved" => "BOUND" \notin c_flags[cc_active[cc]]

CalloutInv == TypeOK /\ Placed /\ Halting /\ Active /\ WaitersCounted

USE CalloutAssumption

\* Who sleeps on a CPU depends on pc and chan only, so an action that leaves
\* them and the CPU's counter alone keeps the count right.
LEMMA CountedKept ==
    ASSUME WaitersCounted, UNCHANGED cc_nwait,
           \A cc \in Cpu : Asleep(cc)' = Asleep(cc),
           \A cc \in Cpu : cc_active[cc] # Null => cc_active'[cc] # Null
    PROVE  WaitersCounted'
  BY Zenon DEF WaitersCounted

\* In the beginning nothing is queued, runs or waits.
LEMMA InitIInv == Init => CalloutInv
<1> SUFFICES ASSUME Init PROVE CalloutInv
  BY Zenon
<1>1. TypeOK
  BY Zenon DEF Init, TypeOK
<1>2. Placed /\ Halting /\ Active
  BY Zenon DEF Init, Placed, Halting, Active
<1>3. \A cc \in Cpu : Asleep(cc) = {}
  BY Zenon DEF Init, Asleep
<1>4. WaitersCounted
  BY <1>3, FS_EmptySet, Zenon DEF Init, WaitersCounted
<1> QED
  BY <1>1, <1>2, <1>4, Zenon DEF CalloutInv

\* callout_schedule_locked moves a callout that is neither pending nor bound.
LEMMA ScheduleIInv ==
    ASSUME CalloutInv, NEW o \in Callout, NEW cc \in Cpu, callout_schedule(o, cc)
    PROVE  CalloutInv'
<1> USE DEF CalloutInv
<1> PICK to \in Destination(o, cc) :
          /\ c_cpu' = [c_cpu EXCEPT ![o] = to]
          /\ cc_queue' = [cc_queue EXCEPT ![to] = @ \cup {o}]
          /\ fate' = [i \in Cpu |-> IF cc_active[i] = o /\ fate[i] = "own" /\ to # i
                                    THEN "moved" ELSE fate[i]]
  BY Zenon DEF callout_schedule
<1>1. /\ to \in Cpu
      /\ c_flags[o] \cap {"PENDING", "BOUND"} # {} => to = c_cpu[o]
  BY DEF Destination, TypeOK
<1>2. TypeOK'
  BY <1>1 DEF callout_schedule, TypeOK, lwps
<1>3. Placed'
  BY <1>1 DEF callout_schedule, TypeOK, Placed
<1>4. Halting'
  <2> SUFFICES ASSUME NEW l \in Lwp
               PROVE  /\ cs[l] # Null /\ calm'[l] => "PENDING" \notin c_flags'[cs[l]]
                      /\ pc[l] \in {"relock", "halted"} /\ calm'[l] =>
                            cc_active[c_cpu'[cs[l]]] # cs[l]
    BY Zenon DEF callout_schedule, Halting, lwps
  <2>1. calm'[l] => calm[l] /\ cs[l] # o
    BY Zenon DEF callout_schedule
  <2>2. pc[l] \in {"relock", "halted"} => cs[l] \in Callout
    BY Zenon DEF Halting, TypeOK
  <2> QED
    BY <2>1, <2>2 DEF callout_schedule, TypeOK, Halting
<1>5. Active'
  BY <1>1 DEF callout_schedule, TypeOK, Active
<1>6. WaitersCounted'
  BY CountedKept, Zenon DEF callout_schedule, Asleep, lwps
<1> QED
  BY <1>2, <1>3, <1>4, <1>5, <1>6, Zenon

\* callout_stop takes a callout off the queue of the CPU it is on.
LEMMA StopIInv ==
    ASSUME CalloutInv, NEW o \in Callout, callout_stop(o)
    PROVE  CalloutInv'
<1> USE DEF CalloutInv, callout_stop, Cancel
<1>1. TypeOK'
  BY Zenon DEF TypeOK, ccvars, lwps
<1>2. Placed'
  BY DEF TypeOK, Placed
<1>3. Halting'
  BY Zenon DEF TypeOK, Halting, ccvars, lwps
<1>4. Active'
  BY DEF TypeOK, Active, ccvars
<1>5. WaitersCounted'
  BY CountedKept, Zenon DEF Asleep, ccvars, lwps
<1> QED
  BY <1>1, <1>2, <1>3, <1>4, <1>5, Zenon

\* callout_ack clears a flag that no other operation depends on.
LEMMA AckIInv ==
    ASSUME CalloutInv, NEW o \in Callout, callout_ack(o)
    PROVE  CalloutInv'
<1> USE DEF CalloutInv, callout_ack
<1>1. TypeOK'
  BY Zenon DEF TypeOK, ccvars, lwps
<1>2. Placed'
  BY Zenon DEF TypeOK, Placed
<1>3. Halting'
  BY Zenon DEF TypeOK, Halting, ccvars, lwps
<1>4. Active'
  BY DEF TypeOK, Active, ccvars
<1>5. WaitersCounted'
  BY CountedKept, Zenon DEF Asleep, ccvars, lwps
<1> QED
  BY <1>1, <1>2, <1>3, <1>4, <1>5, Zenon

\* callout_init writes to memory that no queue, LWP or CPU refers to, but for
\* a handler that has destroyed its callout.
LEMMA InitialiseIInv ==
    ASSUME CalloutInv, NEW o \in Callout, NEW cc \in Cpu, callout_init(o, cc)
    PROVE  CalloutInv'
<1> USE DEF CalloutInv, callout_init
<1>1. TypeOK'
  BY DEF TypeOK, ccvars, lwps
<1>2. Placed'
  BY DEF TypeOK, Placed
<1>3. Halting'
  BY DEF TypeOK, Halting, ccvars, lwps
<1>4. Active'
  BY DEF TypeOK, Active, ccvars
<1>5. WaitersCounted'
  BY CountedKept, Zenon DEF Asleep, ccvars, lwps
<1> QED
  BY <1>1, <1>2, <1>3, <1>4, <1>5, Zenon

\* callout_destroy of a callout that is not pending and that nobody halts,
\* but possibly the LWP that destroys it and forgets it.
LEMMA DestroyKeeps ==
    ASSUME CalloutInv, NEW o \in Callout, callout_destroy(o),
           "PENDING" \notin c_flags[o]
    PROVE  Placed' /\ Active' /\ c_magic' \subseteq Callout
                   /\ fate' \in [Cpu -> {"own", "moved", "gone"}]
<1> USE DEF CalloutInv, callout_destroy
<1>1. Placed'
  BY Zenon DEF Placed
<1>2. Active'
  BY DEF TypeOK, Active
<1> QED
  BY <1>1, <1>2, Zenon DEF TypeOK

\* The loop of callout_halt counts an LWP in before it sleeps, and sleeps
\* only on a CPU that runs a handler.
LEMMA LoopCounts ==
    ASSUME CalloutInv, NEW l \in Lwp, NEW o \in Callout, NEW held,
           pc[l] # "sleep", Loop(l, o, held), UNCHANGED cc_active
    PROVE  /\ WaitersCounted'
           /\ cc_nwait' \in [Cpu -> Nat]
           /\ chan' \in [Lwp -> Cpu \cup {Null}]
           /\ relock' \in [Lwp -> BOOLEAN]
           /\ mtx' \in Lwp \cup Cpu \cup {Null}
           /\ \E p \in {"sleep", "again", "relock", "halted"} :
                 /\ LwpGoto(l, p)
                 /\ p \in {"relock", "halted"} => cc_active[c_cpu[o]] # o
<1> USE DEF CalloutInv
<1>0. PICK i \in Cpu : i = c_cpu[o]
  BY Zenon DEF TypeOK
<1>1. CASE /\ cc_active[i] # o
           /\ LwpGoto(l, IF relock[l] THEN "relock" ELSE "halted")
           /\ UNCHANGED <<mtx, relock, chan, cc_nwait>>
  <2>1. \A cc \in Cpu : Asleep(cc)' = Asleep(cc)
    BY <1>1, Zenon DEF Asleep, LwpGoto, TypeOK
  <2> QED
    BY <1>0, <1>1, <2>1, CountedKept, Zenon DEF TypeOK
<1>2. CASE /\ cc_active[i] = o
           /\ LwpGoto(l, "again") /\ mtx' = Null
           /\ relock' = [relock EXCEPT ![l] = TRUE]
           /\ UNCHANGED <<chan, cc_nwait>>
  <2>1. \A cc \in Cpu : Asleep(cc)' = Asleep(cc)
    BY <1>2, Zenon DEF Asleep, LwpGoto, TypeOK
  <2> QED
    BY <1>0, <1>2, <2>1, CountedKept, Zenon DEF TypeOK
<1>3. CASE /\ cc_active[i] = o
           /\ LwpGoto(l, "sleep")
           /\ chan' = [chan EXCEPT ![l] = i]
           /\ cc_nwait' = [cc_nwait EXCEPT ![i] = Waiters(@)]
           /\ UNCHANGED <<mtx, relock>>
  <2>1. /\ Asleep(i)' = Asleep(i) \cup {l}
        /\ l \notin Asleep(i)
        /\ \A cc \in Cpu \ {i} : Asleep(cc)' = Asleep(cc)
    BY <1>0, <1>3 DEF Asleep, LwpGoto, TypeOK
  <2>2. IsFiniteSet(Asleep(i))
    BY FS_Subset, Zenon DEF Asleep
  <2>3. Cardinality(Asleep(i) \cup {l}) = Cardinality(Asleep(i)) + 1
    BY <2>1, <2>2, FS_AddElement, Zenon
  <2>4. WaitersCounted'
    <3> SUFFICES ASSUME NEW cc \in Cpu
                 PROVE  /\ cc_nwait'[cc] = Cardinality(Asleep(cc)')
                        /\ Asleep(cc)' # {} => cc_active'[cc] # Null
      BY Zenon DEF WaitersCounted
    <3>0. /\ cc_nwait[cc] = Cardinality(Asleep(cc))
          /\ Asleep(cc) # {} => cc_active[cc] # Null
      BY Zenon DEF WaitersCounted
    <3>1. CASE cc = i
      <4>1. cc_nwait'[cc] = cc_nwait[cc] + 1 /\ cc_active'[cc] # Null
        BY <1>0, <1>3, <3>1, Zenon DEF Waiters, TypeOK
      <4> QED
        BY <2>1, <2>3, <3>0, <3>1, <4>1, Zenon
    <3>2. CASE cc # i
      <4>1. cc_nwait'[cc] = cc_nwait[cc] /\ cc_active'[cc] = cc_active[cc]
        BY <1>3, <3>2, Zenon DEF TypeOK
      <4>2. Asleep(cc)' = Asleep(cc)
        BY <2>1, <3>2, Zenon
      <4> QED
        BY <3>0, <4>1, <4>2, Zenon
    <3> QED
      BY <3>1, <3>2, Zenon
  <2> QED
    BY <1>0, <1>3, <2>4 DEF Waiters, TypeOK
<1> QED
  BY <1>0, <1>1, <1>2, <1>3, Zenon DEF Loop

\* callout_halt takes the callout off its queue, and goes on to return only
\* if the CPU the callout is on does not run its handler.
LEMMA HaltIInv ==
    ASSUME CalloutInv, NEW l \in Lwp, NEW o \in Callout, callout_halt(l, o)
    PROVE  CalloutInv'
<1> USE DEF CalloutInv, callout_halt, Cancel
<1>1. pc[l] # "sleep" /\ UNCHANGED cc_active /\ Loop(l, o, Interlocked(l))
  BY Zenon
<1>2. PICK p \in {"sleep", "again", "relock", "halted"} :
          /\ LwpGoto(l, p)
          /\ p \in {"relock", "halted"} => cc_active[c_cpu[o]] # o
  BY <1>1, LoopCounts, Zenon
<1>3. TypeOK'
  BY <1>1, <1>2, LoopCounts, Zenon DEF TypeOK, LwpGoto
<1>4. Placed'
  BY DEF TypeOK, Placed
<1>5. Halting'
  BY <1>2 DEF TypeOK, Halting, LwpGoto
<1>6. Active'
  BY DEF TypeOK, Active
<1> QED
  BY <1>1, <1>3, <1>4, <1>5, <1>6, LoopCounts, Zenon

\* The same for each further round of its loop.
LEMMA AgainIInv ==
    ASSUME CalloutInv, NEW l \in Lwp, Again(l)
    PROVE  CalloutInv'
<1> USE DEF CalloutInv, Again
<1>1. /\ pc[l] # "sleep" /\ UNCHANGED cc_active /\ Loop(l, cs[l], FALSE)
      /\ cs[l] \in Callout
  BY Zenon DEF Halting, TypeOK
<1>2. PICK p \in {"sleep", "again", "relock", "halted"} :
          /\ LwpGoto(l, p)
          /\ p \in {"relock", "halted"} => cc_active[c_cpu[cs[l]]] # cs[l]
  BY <1>1, LoopCounts, Zenon
<1>3. TypeOK'
  BY <1>1, <1>2, LoopCounts, Zenon DEF TypeOK, LwpGoto
<1>4. Placed' /\ Active'
  BY Zenon DEF Placed, Active
<1>5. Halting'
  BY <1>1, <1>2 DEF TypeOK, Halting, LwpGoto
<1> QED
  BY <1>1, <1>3, <1>4, <1>5, LoopCounts, Zenon

\* callout_halt gets its interlock back, and returns.
LEMMA RelockIInv ==
    ASSUME CalloutInv, NEW l \in Lwp, Relock(l)
    PROVE  CalloutInv'
<1> USE DEF CalloutInv, Relock, LwpGoto, ccvars
<1>1. TypeOK'
  BY Zenon DEF TypeOK
<1>2. Placed' /\ Active'
  BY Zenon DEF Placed, Active
<1>3. Halting'
  BY DEF TypeOK, Halting
<1>4. \A cc \in Cpu : Asleep(cc)' = Asleep(cc)
  BY Zenon DEF Asleep, TypeOK
<1> QED
  BY <1>1, <1>2, <1>3, <1>4, CountedKept, Zenon

\* Its caller goes on, with or without destroying the callout.
LEMMA FinishIInv ==
    ASSUME CalloutInv, NEW l \in Lwp, Finish(l)
    PROVE  CalloutInv'
<1> USE DEF CalloutInv, Finish, LwpGoto
<1>0. cs[l] \in Callout
  BY Zenon DEF Halting, TypeOK
<1>1. \A cc \in Cpu : Asleep(cc)' = Asleep(cc)
  BY Zenon DEF Asleep, TypeOK
<1>2. CASE UNCHANGED <<c_magic, c_flags, c_cpu, cc_queue, ccvars, mtx>>
  <2>1. TypeOK'
    BY <1>2, Zenon DEF TypeOK, ccvars
  <2>2. Placed' /\ Active'
    BY <1>2, Zenon DEF Placed, Active, ccvars
  <2>3. Halting'
    BY <1>2 DEF TypeOK, Halting, ccvars
  <2> QED
    BY <1>1, <1>2, <2>1, <2>2, <2>3, CountedKept, Zenon DEF ccvars
<1>3. CASE /\ calm[l] /\ \A k \in Lwp \ {l} : cs[k] # cs[l]
           /\ callout_destroy(cs[l])
  <2>0. "PENDING" \notin c_flags[cs[l]]
    BY <1>0, <1>3, Zenon DEF Halting
  <2>1. /\ Placed' /\ Active' /\ c_magic' \subseteq Callout
        /\ fate' \in [Cpu -> {"own", "moved", "gone"}]
    BY <1>0, <1>3, <2>0, DestroyKeeps, Zenon
  <2>2. TypeOK'
    BY <1>3, <2>1, Zenon DEF TypeOK, callout_destroy
  <2>3. Halting'
    BY <1>3, SMTT(30) DEF TypeOK, Halting, callout_destroy
  <2>4. WaitersCounted'
    BY <1>1, <1>3, CountedKept, Zenon DEF callout_destroy
  <2> QED
    BY <2>1, <2>2, <2>3, <2>4, Zenon
<1> QED
  BY <1>2, <1>3, Zenon

\* The mutex of the callers changes no callout.
LEMMA MutexIInv ==
    ASSUME CalloutInv, NEW l \in Lwp, MutexEnter(l) \/ MutexExit(l)
    PROVE  CalloutInv'
<1> USE DEF CalloutInv, MutexEnter, MutexExit, ccvars, lwps
<1>1. TypeOK'
  BY Zenon DEF TypeOK
<1>2. Placed' /\ Active' /\ Halting'
  BY DEF Placed, Active, Halting
<1>3. WaitersCounted'
  BY CountedKept, Zenon DEF Asleep
<1> QED
  BY <1>1, <1>2, <1>3, Zenon

\* Nor does a tick.
LEMMA HardclockIInv ==
    ASSUME CalloutInv, NEW cc \in Cpu, callout_hardclock(cc)
    PROVE  CalloutInv'
<1> USE DEF CalloutInv, callout_hardclock, Clock, lwps
<1>1. TypeOK'
  BY ZenonT(30) DEF TypeOK
<1>2. Placed' /\ Active' /\ Halting'
  BY DEF Placed, Active, Halting, TypeOK
<1>3. WaitersCounted'
  BY CountedKept, Zenon DEF Asleep
<1> QED
  BY <1>1, <1>2, <1>3, Zenon

\* callout_softclock takes a callout off the queue of its own CPU.  It is
\* pending, so that no undisturbed callout_halt has it.
LEMMA FetchIInv ==
    ASSUME CalloutInv, NEW cc \in Cpu, NEW o \in Callout, Fetch(cc, o)
    PROVE  CalloutInv'
<1> USE DEF CalloutInv, Fetch, Clock
<1>0. /\ "PENDING" \in c_flags[o] /\ c_cpu[o] = cc /\ o \in c_magic
      /\ cc_active[cc] = Null /\ fate[cc] = "own"
  BY DEF Placed, Active
<1>1. TypeOK'
  BY Zenon DEF TypeOK, lwps
<1>2. Placed'
  BY <1>0 DEF TypeOK, Placed
<1>3. Halting'
  BY <1>0 DEF TypeOK, Halting, lwps
<1>4. Active'
  BY <1>0 DEF TypeOK, Active
<1>5. WaitersCounted'
  BY CountedKept, Zenon DEF Asleep, TypeOK, lwps
<1> QED
  BY <1>1, <1>2, <1>3, <1>4, <1>5, Zenon

\* What a handler does with its own callout.
LEMMA HandlerIInv ==
    ASSUME CalloutInv, NEW cc \in Cpu, HandlerCalls(cc)
    PROVE  CalloutInv'
<1> DEFINE o == cc_active[cc]
<1>0. o \in Callout
  BY Zenon DEF CalloutInv, HandlerCalls, Active, TypeOK
<1>1. CASE callout_schedule(o, cc) \/ callout_stop(o) \/ callout_ack(o)
  <2> HIDE DEF o
  <2> QED
    BY <1>0, <1>1, ScheduleIInv, StopIInv, AckIInv, Zenon
<1>2. CASE /\ "PENDING" \notin c_flags[o] /\ \A l \in Lwp : cs[l] # o
           /\ callout_destroy(o) /\ UNCHANGED <<lwps, calm>>
  <2>1. /\ Placed' /\ Active' /\ c_magic' \subseteq Callout
        /\ fate' \in [Cpu -> {"own", "moved", "gone"}]
    BY <1>0, <1>2, DestroyKeeps, Zenon
  <2>2. TypeOK'
    BY <1>2, <2>1, Zenon DEF CalloutInv, TypeOK, callout_destroy, lwps
  <2>3. Halting'
    BY <1>2, Zenon DEF CalloutInv, TypeOK, Halting, callout_destroy, lwps
  <2>4. WaitersCounted'
    BY <1>2, CountedKept, Zenon DEF CalloutInv, Asleep, callout_destroy, lwps
  <2> QED
    BY <2>1, <2>2, <2>3, <2>4, Zenon DEF CalloutInv
<1> QED
  BY <1>1, <1>2, Zenon DEF HandlerCalls

\* A handler takes the mutex and lets it go, or the loop finds nothing more.
LEMMA ClockIInv ==
    ASSUME CalloutInv, NEW cc \in Cpu, HandlerMutex(cc) \/ Leave(cc)
    PROVE  CalloutInv'
<1> USE DEF CalloutInv, HandlerMutex, Leave, Clock, lwps
<1>1. TypeOK'
  BY ZenonT(30) DEF TypeOK
<1>2. Placed' /\ Halting'
  BY SMTT(30) DEF Placed, Halting
<1>3. Active'
  BY SMTT(30) DEF Active, TypeOK
<1>4. WaitersCounted'
  BY CountedKept, Zenon DEF Asleep
<1> QED
  BY <1>1, <1>2, <1>3, <1>4, Zenon

\* A handler has returned: cc_nwait is the number of those who sleep on the
\* CPU, so that all of them are woken.
LEMMA DoneIInv ==
    ASSUME CalloutInv, NEW cc \in Cpu, Done(cc)
    PROVE  CalloutInv'
<1> USE DEF CalloutInv, Done, Clock
<1>1. /\ pc' = [l \in Lwp |-> IF l \in Asleep(cc) THEN "again" ELSE pc[l]]
      /\ chan' = [l \in Lwp |-> IF l \in Asleep(cc) THEN Null ELSE chan[l]]
  <2>1. PICK woken \in SUBSET Asleep(cc) :
            /\ Cardinality(woken) = cc_nwait[cc]
            /\ pc' = [l \in Lwp |-> IF l \in woken THEN "again" ELSE pc[l]]
            /\ chan' = [l \in Lwp |-> IF l \in woken THEN Null ELSE chan[l]]
    BY Zenon DEF Wake
  <2>2. IsFiniteSet(Asleep(cc))
    BY FS_Subset, Zenon DEF Asleep
  <2>3. Cardinality(woken) = Cardinality(Asleep(cc))
    BY <2>1, Zenon DEF WaitersCounted
  <2>4. woken = Asleep(cc)
    BY <2>2, <2>3, FS_Subset, Zenon
  <2> QED
    BY <2>1, <2>4, Zenon
<1>2. TypeOK'
  BY <1>1, ZenonT(30) DEF TypeOK, Asleep
<1>3. Placed'
  BY Zenon DEF Placed
<1>4. Halting'
  <2> SUFFICES ASSUME NEW l \in Lwp
               PROVE  /\ pc'[l] = "out" <=> cs[l] = Null
                      /\ pc'[l] \in {"relock", "halted"} /\ calm[l] =>
                            cc_active'[c_cpu[cs[l]]] # cs[l]
    BY Zenon DEF Halting
  <2>1. /\ pc'[l] = "out" <=> pc[l] = "out"
        /\ pc'[l] \in {"relock", "halted"} => pc[l] = pc'[l]
    BY <1>1, Zenon DEF Asleep
  <2>2. pc[l] # "out" => cs[l] \in Callout
    BY Zenon DEF Halting, TypeOK
  <2> QED
    BY <2>1, <2>2, Zenon DEF Halting, TypeOK
<1>5. Active'
  BY SMTT(30) DEF Active, TypeOK
<1>6. WaitersCounted'
  <2>1. /\ Asleep(cc)' = {}
        /\ \A i \in Cpu \ {cc} : Asleep(i)' = Asleep(i)
    BY <1>1 DEF Asleep, TypeOK
  <2>2. /\ cc_nwait'[cc] = 0
        /\ \A i \in Cpu \ {cc} : /\ cc_nwait'[i] = cc_nwait[i]
                                 /\ cc_active'[i] = cc_active[i]
    BY Zenon DEF TypeOK
  <2> QED
    BY <2>1, <2>2, FS_EmptySet, Zenon DEF WaitersCounted
<1> QED
  BY <1>2, <1>3, <1>4, <1>5, <1>6, Zenon

\* Every step keeps the invariant.
LEMMA NextIInv == CalloutInv /\ [Next]_vars => CalloutInv'
<1> SUFFICES ASSUME CalloutInv, [Next]_vars PROVE CalloutInv'
  BY Zenon
<1>1. ASSUME NEW l \in Lwp, NEW o \in Callout, callout_halt(l, o) PROVE CalloutInv'
  BY <1>1, HaltIInv, Zenon
<1>2. ASSUME NEW l \in Lwp, NEW o \in Callout, NEW cc \in Cpu, Use(l, o, cc)
      PROVE  CalloutInv'
  BY <1>2, InitialiseIInv, ScheduleIInv, StopIInv, AckIInv, Zenon DEF Use
<1>3. ASSUME NEW l \in Lwp, Halt(l) \/ MutexEnter(l) \/ MutexExit(l) PROVE CalloutInv'
  BY <1>3, AgainIInv, RelockIInv, FinishIInv, MutexIInv, Zenon DEF Halt
<1>4. ASSUME NEW cc \in Cpu, callout_hardclock(cc) \/ HandlerCalls(cc) \/ Softclock(cc)
      PROVE  CalloutInv'
  BY <1>4, HardclockIInv, HandlerIInv, ClockIInv, DoneIInv, Zenon DEF Softclock
<1>5. ASSUME NEW cc \in Cpu, NEW o \in Callout, Fetch(cc, o) PROVE CalloutInv'
  BY <1>5, FetchIInv, Zenon
<1>6. CASE UNCHANGED vars
  <2>1. TypeOK'
    BY <1>6, Zenon DEF CalloutInv, vars, ccvars, lwps, TypeOK
  <2>2. Placed' /\ Halting' /\ Active'
    BY <1>6, ZenonT(30) DEF CalloutInv, vars, ccvars, lwps, Placed, Halting, Active
  <2>3. WaitersCounted'
    BY <1>6, CountedKept, Zenon DEF CalloutInv, vars, ccvars, lwps, Asleep
  <2> QED
    BY <2>1, <2>2, <2>3, Zenon DEF CalloutInv
<1> QED
  BY <1>1, <1>2, <1>3, <1>4, <1>5, <1>6, Zenon DEF Next

\* The invariant holds in every state that callouts can reach.
THEOREM CalloutInvariance == Spec => []CalloutInv
<1> QED
  BY InitIInv, NextIInv, PTL DEF Spec

\* What callout_softclock finds on its queues is what it asserts to find:
\* initialised, pending, not fired and on its CPU, however LWPs and handlers
\* of other CPUs move callouts.
THEOREM QueuesAgree == Spec => []QueueAgrees
<1>1. CalloutInv => QueueAgrees
  <2> SUFFICES ASSUME Placed PROVE QueueAgrees
    BY Zenon DEF CalloutInv
  <2> QED
    BY Zenon DEF Placed, QueueAgrees
<1> QED
  BY <1>1, CalloutInvariance, PTL

\* cc_nwait is the number of LWPs asleep on a CPU, and one sleeps there only
\* while a handler runs, whose return wakes it: no wakeup is lost.
THEOREM NoLostWakeup == Spec => []WaitersCounted
<1>1. CalloutInv => WaitersCounted
  BY Zenon DEF CalloutInv
<1> QED
  BY <1>1, CalloutInvariance, PTL

\* When callout_halt returns, and nobody has scheduled the callout since, it
\* is not pending, and its handler does not run on the CPU it is on; nor on
\* any CPU, if the callout is bound.
THEOREM HaltInPlace == Spec => []HaltedInPlace
<1>1. CalloutInv => HaltedInPlace
  <2> SUFFICES ASSUME CalloutInv, NEW l \in Lwp, pc[l] = "halted", calm[l]
               PROVE  /\ "PENDING" \notin c_flags[cs[l]]
                      /\ ~Running(cs[l], IF "BOUND" \in c_flags[cs[l]]
                                        THEN {"own", "moved"} ELSE {"own"})
    BY Zenon DEF HaltedInPlace
  <2>1. /\ cs[l] \in Callout /\ "PENDING" \notin c_flags[cs[l]]
        /\ cc_active[c_cpu[cs[l]]] # cs[l]
    BY Zenon DEF CalloutInv, Halting, TypeOK
  <2>2. ASSUME NEW cc \in Cpu, cc_active[cc] = cs[l]
        PROVE  /\ fate[cc] # "own"
               /\ fate[cc] = "moved" => "BOUND" \notin c_flags[cs[l]]
    BY <2>1, <2>2 DEF CalloutInv, Active
  <2> QED
    BY <2>1, <2>2, Zenon DEF Running
<1> QED
  BY <1>1, CalloutInvariance, PTL

HIDE CalloutAssumption

-----------------------------------------------------------------------------
(* Software interrupts: queues without repetition                          *)

Elems(q) == {q[n] : n \in DOMAIN q}
Distinct(q) == \A m, n \in DOMAIN q : q[m] = q[n] => m = n

\* SIMPLEQ_INSERT_TAIL of a slot that is not in the queue
LEMMA AppendIn ==
    ASSUME NEW q \in Seq(Hand), NEW h \in Hand, Distinct(q), h \notin Elems(q)
    PROVE  /\ Append(q, h) \in Seq(Hand) /\ Append(q, h) # <<>> /\ Distinct(Append(q, h))
           /\ \A g \in Hand : g \in Elems(Append(q, h)) <=> g \in Elems(q) \/ g = h
<1>1. /\ DOMAIN q = 1 .. Len(q) /\ Len(q) \in Nat /\ \A n \in 1 .. Len(q) : q[n] \in Hand
  OBVIOUS
<1>2. /\ Append(q, h) \in Seq(Hand) /\ Append(q, h) # <<>>
      /\ DOMAIN Append(q, h) = 1 .. Len(q) + 1 /\ Append(q, h)[Len(q) + 1] = h
      /\ \A n \in 1 .. Len(q) : Append(q, h)[n] = q[n]
  OBVIOUS
<1>3. Distinct(Append(q, h))
  BY DEF Distinct, Elems
<1>4. ASSUME NEW g \in Hand PROVE g \in Elems(Append(q, h)) <=> g \in Elems(q) \/ g = h
  BY DEF Elems
<1>. QED
  BY <1>3, <1>4

\* SIMPLEQ_REMOVE_HEAD
LEMMA TailIn ==
    ASSUME NEW q \in Seq(Hand), q # <<>>, Distinct(q)
    PROVE  /\ Tail(q) \in Seq(Hand) /\ Head(q) \in Hand /\ Distinct(Tail(q)) /\ Head(q) \in Elems(q)
           /\ \A g \in Hand : g \in Elems(Tail(q)) <=> g \in Elems(q) /\ g # Head(q)
<1>1. /\ DOMAIN q = 1 .. Len(q) /\ Len(q) \in Nat /\ Len(q) > 0
      /\ \A n \in 1 .. Len(q) : q[n] \in Hand
  OBVIOUS
<1>2. /\ Tail(q) \in Seq(Hand) /\ Head(q) = q[1] /\ DOMAIN Tail(q) = 1 .. Len(q) - 1
      /\ \A n \in 1 .. Len(q) - 1 : Tail(q)[n] = q[n + 1]
  BY <1>1
<1>3. Distinct(Tail(q)) /\ Head(q) \in Elems(q)
  BY DEF Distinct, Elems
<1>4. ASSUME NEW g \in Hand PROVE g \in Elems(Tail(q)) <=> g \in Elems(q) /\ g # Head(q)
  <2>1. ASSUME g \in Elems(Tail(q)) PROVE g \in Elems(q) /\ g # Head(q)
    <3>1. PICK n \in 1 .. Len(q) - 1 : q[n + 1] = g
      BY <2>1 DEF Elems
    <3>. QED
      BY <3>1 DEF Elems, Distinct
  <2>2. ASSUME g \in Elems(q), g # Head(q) PROVE g \in Elems(Tail(q))
    <3>1. PICK n \in 1 .. Len(q) : q[n] = g
      BY <2>2 DEF Elems
    <3>2. n - 1 \in 1 .. Len(q) - 1 /\ Tail(q)[n - 1] = g
      BY <2>2, <3>1
    <3>. QED
      BY <1>2, <3>2, Zenon DEF Elems
  <2>. QED
    BY <2>1, <2>2, Zenon
<1>. QED
  BY <1>3, <1>4

-----------------------------------------------------------------------------
(* Software interrupts: the inductive invariant                            *)

USE SoftintAssumption

\* The flags of the slots on a CPU tell the queue and the slot that runs.
Flags(cc) ==
    /\ Distinct(si_q[cc])
    /\ \A h \in Hand : /\ Pending(cc, h) <=> h \in Elems(si_q[cc])
                       /\ "ACTIVE" \in sh_flags[cc][h] <=> sh[cc] = h

\* The software interrupt of a CPU is triggered, runs, or has nothing to do.
Triggered(cc) ==
    /\ sh[cc] = NoHand <=> si[cc] = "idle"
    /\ si_active[cc] <=> trig[cc] \/ si[cc] # "idle"
    /\ ~(trig[cc] /\ si[cc] # "idle")
    /\ si_q[cc] # <<>> => si_active[cc]

\* A slot is scheduled only while its client has it.  After the cross call it
\* is pending only where it was behind a blocked one, and after a look that
\* found it inactive it runs only there.
Ended(h) ==
    /\ h \in sh_func <=> client[h] # "free"
    /\ h \in ipi_func => client[h] = "set"
    /\ \A cc \in Cpu :
          /\ client[h] = "xc_wait" /\ cc \notin todo[h] /\ Pending(cc, h) => cc \in behind[h]
          /\ client[h] \in {"collect", "free"} /\ Pending(cc, h) => cc \in behind[h]
          /\ client[h] = "collect" /\ cc \notin todo[h] /\ ~flags[h] /\ sh[cc] = h =>
                cc \in behind[h]
          /\ client[h] = "free" /\ sh[cc] = h => cc \in behind[h]

IInv == /\ SoftTypeOK
        /\ \A cc \in Cpu : Flags(cc) /\ Triggered(cc)
        /\ \A h \in Hand : Ended(h)

\* The invariant says what the properties say: FlagsAgree, NeverForgotten and
\* ClearedIsIdle.
LEMMA InvImplies ==
    ASSUME IInv PROVE FlagsAgree /\ NeverForgotten /\ ClearedIsIdle
<1>1. FlagsAgree
  BY DEF IInv, Flags, FlagsAgree, Elems, Distinct
<1>2. NeverForgotten
  BY Zenon DEF IInv, Triggered, NeverForgotten
<1>3. ClearedIsIdle
  BY Zenon DEF IInv, Ended, ClearedIsIdle
<1>. QED
  BY <1>1, <1>2, <1>3, Zenon

\* The initial states satisfy the invariant.
LEMMA InitInv ==
    SoftInit => IInv
<1>. SUFFICES ASSUME SoftInit PROVE IInv
  BY Zenon
<1>. USE DEF SoftInit
<1>1. SoftTypeOK
  BY DEF SoftTypeOK
<1>2. ASSUME NEW cc \in Cpu PROVE Flags(cc) /\ Triggered(cc)
  BY DEF Flags, Triggered, Distinct, Elems, Pending
<1>3. ASSUME NEW h \in Hand PROVE Ended(h)
  BY Zenon DEF Ended, Pending
<1>. QED
  BY <1>1, <1>2, <1>3, Zenon DEF IInv

-----------------------------------------------------------------------------
(* Every step preserves it                                                 *)

\* softint_schedule of a slot whose client has it
LEMMA ScheduleInv ==
    ASSUME IInv, NEW cc \in Cpu, NEW h \in Hand, client[h] = "set",
           softint_schedule(cc, h), UNCHANGED <<hands, clients>>,
           ci_ipipend' \in [Cpu -> SUBSET Rcpu]
    PROVE  IInv'
<1>. USE DEF hands, clients
<1>0. SoftTypeOK /\ (\A i \in Cpu : Flags(i) /\ Triggered(i)) /\ \A g \in Hand : Ended(g)
  BY Zenon DEF IInv
<1>1. CASE Queued(cc, h)
  <2>. UNCHANGED <<sh_flags, si_q, si_active, trig, si, sh>>
    BY <1>1, Zenon DEF softint_schedule, cpus
  <2>1. SoftTypeOK'
    BY <1>0, ZenonT(30) DEF SoftTypeOK
  <2>2. ASSUME NEW i \in Cpu PROVE Flags(i)' /\ Triggered(i)'
    BY <1>0 DEF Flags, Triggered, Pending
  <2>3. ASSUME NEW g \in Hand PROVE Ended(g)'
    BY <1>0, Zenon DEF Ended, Pending
  <2>. QED
    BY <2>1, <2>2, <2>3, Zenon DEF IInv
<1>2. CASE ~Queued(cc, h)
  <2>0. /\ sh_flags' = [sh_flags EXCEPT ![cc][h] = @ \cup {"PENDING"}]
        /\ si_q' = [si_q EXCEPT ![cc] = Append(@, h)]
        /\ si_active' = [si_active EXCEPT ![cc] = TRUE]
        /\ trig' = [trig EXCEPT ![cc] = @ \/ ~si_active[cc]]
        /\ UNCHANGED <<si, sh>> /\ ~Pending(cc, h)
    BY <1>2, Zenon DEF softint_schedule, Queued
  <2>1. /\ si_q[cc] \in Seq(Hand) /\ Distinct(si_q[cc]) /\ h \notin Elems(si_q[cc])
    <3>1. Flags(cc) /\ si_q[cc] \in Seq(Hand)
      BY <1>0, Zenon DEF SoftTypeOK
    <3>. QED
      BY <2>0, <3>1, Zenon DEF Flags
  <2>2. /\ si_q'[cc] \in Seq(Hand) /\ Distinct(si_q'[cc]) /\ si_q'[cc] # <<>>
        /\ \A g \in Hand : g \in Elems(si_q'[cc]) <=> g \in Elems(si_q[cc]) \/ g = h
    <3>1. si_q'[cc] = Append(si_q[cc], h)
      BY <1>0, <2>0, Zenon DEF SoftTypeOK
    <3>. QED
      BY <2>1, <3>1, AppendIn, SMTT(30)
  <2>3. /\ \A i \in Cpu \ {cc} : /\ si_q'[i] = si_q[i] /\ sh_flags'[i] = sh_flags[i]
                                 /\ si_active'[i] = si_active[i] /\ trig'[i] = trig[i]
        /\ sh_flags'[cc] = [sh_flags[cc] EXCEPT ![h] = @ \cup {"PENDING"}]
        /\ si_active'[cc] = TRUE /\ trig'[cc] = (trig[cc] \/ ~si_active[cc])
    BY <1>0, <2>0, Zenon DEF SoftTypeOK
  <2>4. sh_flags[cc] \in [Hand -> SUBSET {"PENDING", "ACTIVE"}]
    BY <1>0, ZenonT(30) DEF SoftTypeOK
  <2>5. \A g \in Hand : /\ "PENDING" \in sh_flags'[cc][g] <=> "PENDING" \in sh_flags[cc][g] \/ g = h
                        /\ "ACTIVE" \in sh_flags'[cc][g] <=> "ACTIVE" \in sh_flags[cc][g]
    BY <2>3, <2>4
  <2>6. SoftTypeOK'
    <3>1. si_q' \in [Cpu -> Seq(Hand)]
      BY <1>0, <2>0 DEF SoftTypeOK
    <3>2. sh_flags' \in [Cpu -> [Hand -> SUBSET {"PENDING", "ACTIVE"}]]
      BY <1>0, <2>0 DEF SoftTypeOK
    <3>3. si_active' \in [Cpu -> BOOLEAN] /\ trig' \in [Cpu -> BOOLEAN]
      BY <1>0, <2>0, Zenon DEF SoftTypeOK
    <3>. QED
      BY <1>0, <2>0 DEF SoftTypeOK
  <2>7. ASSUME NEW i \in Cpu PROVE Flags(i)' /\ Triggered(i)'
    <3>1. CASE i = cc
      <4>1. Flags(cc)'
        <5>0. \A g \in Hand : Pending(cc, g) <=> g \in Elems(si_q[cc])
          BY <1>0, Zenon DEF Flags
        <5>1. \A g \in Hand : "PENDING" \in sh_flags'[cc][g] <=> g \in Elems(si_q'[cc])
          BY <2>2, <2>5, <5>0, Zenon DEF Pending
        <5>2. Distinct(si_q[cc])' /\ \A g \in Hand : Pending(cc, g)' <=> g \in Elems(si_q[cc])'
          BY <2>2, <5>1, Zenon DEF Pending
        <5>. QED
          BY <1>0, <2>0, <5>2 DEF Flags
      <4>2. Triggered(cc)'
        BY <1>0, <2>0, <2>3, Zenon DEF Triggered
      <4>. QED
        BY <3>1, <4>1, <4>2, Zenon
    <3>2. CASE i # cc
      BY <1>0, <2>0, <3>2 DEF Flags, Triggered, Pending
    <3>. QED
      BY <3>1, <3>2, Zenon
  <2>8. ASSUME NEW g \in Hand PROVE Ended(g)'
    <3>1. CASE g = h
      BY <1>0, <3>1, Zenon DEF Ended
    <3>2. CASE g # h
      <4>1. ASSUME NEW i \in Cpu PROVE Pending(i, g)' <=> Pending(i, g)
        <5>1. CASE i = cc
          BY <2>3, <2>4, <3>2, <5>1, Zenon DEF Pending
        <5>2. CASE i # cc
          BY <2>3, <5>2, Zenon DEF Pending
        <5>. QED
          BY <5>1, <5>2, Zenon
      <4>. QED
        BY <1>0, <2>0, <4>1, Zenon DEF Ended
    <3>. QED
      BY <3>1, <3>2, Zenon
  <2>. QED
    BY <2>6, <2>7, <2>8, Zenon DEF IInv
<1>. QED
  BY <1>1, <1>2, Zenon

\* The next slot is taken, when no slot is active any more.
LEMMA TakeInv ==
    ASSUME IInv, NEW cc \in Cpu,
           NEW f \in [Hand -> SUBSET {"PENDING", "ACTIVE"}],
           \A g \in Hand : "PENDING" \in f[g] <=> Pending(cc, g),
           \A g \in Hand : "ACTIVE" \notin f[g],
           si_active[cc], trig' = [trig EXCEPT ![cc] = FALSE],
           Dequeue(cc, f), UNCHANGED <<hands, ci_ipipend, clients>>
    PROVE  IInv'
<1>. USE DEF hands, clients
<1>0. SoftTypeOK /\ (\A i \in Cpu : Flags(i) /\ Triggered(i)) /\ \A g \in Hand : Ended(g)
  BY Zenon DEF IInv
<1>1. /\ si_q[cc] \in Seq(Hand) /\ Distinct(si_q[cc])
      /\ \A g \in Hand : Pending(cc, g) <=> g \in Elems(si_q[cc])
  BY <1>0 DEF SoftTypeOK, Flags
<1>2. trig' \in [Cpu -> BOOLEAN] /\ trig'[cc] = FALSE /\ \A i \in Cpu \ {cc} : trig'[i] = trig[i]
  BY <1>0, Zenon DEF SoftTypeOK
<1>3. CASE si_q[cc] = <<>>
  <2>0. /\ si' = [si EXCEPT ![cc] = "idle"] /\ sh' = [sh EXCEPT ![cc] = NoHand]
        /\ si_active' = [si_active EXCEPT ![cc] = FALSE]
        /\ sh_flags' = [sh_flags EXCEPT ![cc] = f] /\ si_q' = si_q
    BY <1>3, Zenon DEF Dequeue, ActiveNoMore
  <2>1. /\ \A i \in Cpu \ {cc} : /\ si'[i] = si[i] /\ sh'[i] = sh[i]
                                 /\ si_active'[i] = si_active[i] /\ sh_flags'[i] = sh_flags[i]
        /\ si'[cc] = "idle" /\ sh'[cc] = NoHand /\ si_active'[cc] = FALSE /\ sh_flags'[cc] = f
    BY <1>0, <2>0, Zenon DEF SoftTypeOK
  <2>2. SoftTypeOK'
    BY <1>0, <2>0, Zenon DEF SoftTypeOK
  <2>3. ASSUME NEW i \in Cpu PROVE Flags(i)' /\ Triggered(i)'
    <3>1. CASE i = cc
      <4>1. Flags(cc)'
        BY <1>1, <2>0, <2>1 DEF Flags, Pending
      <4>2. Triggered(cc)'
        BY <1>2, <1>3, <2>0, <2>1, Zenon DEF Triggered
      <4>. QED
        BY <3>1, <4>1, <4>2, Zenon
    <3>2. CASE i # cc
      <4>1. /\ si'[i] = si[i] /\ sh'[i] = sh[i] /\ si_active'[i] = si_active[i]
            /\ sh_flags'[i] = sh_flags[i] /\ si_q'[i] = si_q[i] /\ trig'[i] = trig[i]
        BY <1>2, <2>0, <2>1, <3>2, Zenon
      <4>2. Flags(i) /\ Triggered(i)
        BY <1>0, Zenon
      <4>3. Flags(i)'
        BY <4>1, <4>2, Zenon DEF Flags, Pending
      <4>4. Triggered(i)'
        BY <4>1, <4>2, Zenon DEF Triggered
      <4>. QED
        BY <4>3, <4>4, Zenon
    <3>. QED
      BY <3>1, <3>2, Zenon
  <2>4. ASSUME NEW g \in Hand PROVE Ended(g)'
    <3>1. ASSUME NEW i \in Cpu
          PROVE  (Pending(i, g)' <=> Pending(i, g)) /\ (sh'[i] = g => sh[i] = g)
      <4>1. CASE i = cc
        BY <2>1, Zenon DEF Pending
      <4>2. CASE i # cc
        BY <2>1, Zenon DEF Pending
      <4>. QED
        BY <4>1, <4>2, Zenon
    <3>. QED
      BY <1>0, <3>1, Zenon DEF Ended
  <2>. QED
    BY <2>2, <2>3, <2>4, Zenon DEF IInv
<1>4. CASE si_q[cc] # <<>>
  <2>. DEFINE h == Head(si_q[cc])
  <2>0. /\ si' = [si EXCEPT ![cc] = "func"] /\ sh' = [sh EXCEPT ![cc] = h]
        /\ sh_flags' = [sh_flags EXCEPT ![cc] = [f EXCEPT ![h] = (@ \ {"PENDING"}) \cup {"ACTIVE"}]]
        /\ si_q' = [si_q EXCEPT ![cc] = Tail(@)] /\ si_active' = si_active
    BY <1>4, Zenon DEF Dequeue
  <2>1. /\ Tail(si_q[cc]) \in Seq(Hand) /\ h \in Hand /\ Distinct(Tail(si_q[cc]))
        /\ h \in Elems(si_q[cc])
        /\ \A g \in Hand : g \in Elems(Tail(si_q[cc])) <=> g \in Elems(si_q[cc]) /\ g # h
    BY <1>1, <1>4, TailIn, Zenon
  <2>. HIDE DEF h
  <2>2. /\ \A i \in Cpu \ {cc} : /\ si'[i] = si[i] /\ sh'[i] = sh[i]
                                 /\ si_q'[i] = si_q[i] /\ sh_flags'[i] = sh_flags[i]
        /\ si'[cc] = "func" /\ sh'[cc] = h /\ si_q'[cc] = Tail(si_q[cc])
        /\ sh_flags'[cc] = [f EXCEPT ![h] = (@ \ {"PENDING"}) \cup {"ACTIVE"}]
    BY <1>0, <2>0, Zenon DEF SoftTypeOK
  <2>3. /\ \A g \in Hand : "PENDING" \in sh_flags'[cc][g] <=> "PENDING" \in f[g] /\ g # h
        /\ \A g \in Hand : "ACTIVE" \in sh_flags'[cc][g] <=> g = h
    BY <2>2, SMTT(30)
  <2>4. SoftTypeOK'
    <3>1. sh_flags' \in [Cpu -> [Hand -> SUBSET {"PENDING", "ACTIVE"}]]
      BY <1>0, <2>0, <2>1, Zenon DEF SoftTypeOK
    <3>2. si_q' \in [Cpu -> Seq(Hand)] /\ sh' \in [Cpu -> Hand \cup {NoHand}]
      BY <1>0, <2>0, <2>1, ZenonT(30) DEF SoftTypeOK
    <3>. QED
      BY <1>0, <2>0, <3>1, <3>2, Zenon DEF SoftTypeOK
  <2>5. ASSUME NEW i \in Cpu PROVE Flags(i)' /\ Triggered(i)'
    <3>1. CASE i = cc
      <4>1. \A g \in Hand : /\ "PENDING" \in sh_flags'[cc][g] <=> g \in Elems(Tail(si_q[cc]))
                            /\ "ACTIVE" \in sh_flags'[cc][g] <=> sh'[cc] = g
        BY <1>1, <2>1, <2>2
      <4>2. Flags(cc)'
        BY <2>1, <2>2, <4>1, Zenon DEF Flags, Pending
      <4>3. Triggered(cc)'
        BY <1>2, <2>0, <2>1, <2>2 DEF Triggered
      <4>. QED
        BY <3>1, <4>2, <4>3, Zenon
    <3>2. CASE i # cc
      BY <1>0, <2>0, <3>2, SMTT(30) DEF Flags, Triggered, Pending
    <3>. QED
      BY <3>1, <3>2, Zenon
  <2>6. ASSUME NEW g \in Hand PROVE Ended(g)'
    <3>1. ASSUME NEW i \in Cpu
          PROVE  /\ Pending(i, g)' => Pending(i, g)
                 /\ sh'[i] = g => sh[i] = g \/ Pending(i, g)
      <4>1. CASE i = cc
        BY <1>1, <2>1, <2>2, <2>3, <4>1, Zenon DEF Pending
      <4>2. CASE i # cc
        BY <2>2, <4>2, Zenon DEF Pending
      <4>. QED
        BY <4>1, <4>2, Zenon
    <3>. QED
      BY <1>0, <3>1, Zenon DEF Ended
  <2>. QED
    BY <2>4, <2>5, <2>6, Zenon DEF IInv
<1>. QED
  BY <1>3, <1>4, Zenon

\* softint_dispatch, and the end of a handler
LEMMA ExecuteInv ==
    ASSUME IInv, NEW cc \in Cpu, Dispatch(cc) \/ Return(cc)
    PROVE  IInv'
<1>0. SoftTypeOK /\ Flags(cc) /\ Triggered(cc)
  BY Zenon DEF IInv
<1>1. sh_flags[cc] \in [Hand -> SUBSET {"PENDING", "ACTIVE"}]
  BY <1>0, Zenon DEF SoftTypeOK
<1>2. CASE Dispatch(cc)
  <2>1. si_active[cc] /\ \A g \in Hand : "ACTIVE" \notin sh_flags[cc][g]
    BY <1>0, <1>2, Zenon DEF Dispatch, Flags, Triggered
  <2>2. \A g \in Hand : "PENDING" \in sh_flags[cc][g] <=> Pending(cc, g)
    BY Zenon DEF Pending
  <2>3. /\ trig' = [trig EXCEPT ![cc] = FALSE] /\ Dequeue(cc, sh_flags[cc])
        /\ UNCHANGED <<hands, ci_ipipend, clients>>
    BY <1>2, Zenon DEF Dispatch
  <2>. QED
    BY <1>1, <2>1, <2>2, <2>3, TakeInv, Zenon
<1>3. CASE Return(cc)
  <2>. DEFINE f == [sh_flags[cc] EXCEPT ![sh[cc]] = @ \ {"ACTIVE"}]
  <2>1. si[cc] = "func" /\ si_active[cc] /\ ~trig[cc] /\ sh[cc] \in Hand
    BY <1>0, <1>3, Zenon DEF Return, Triggered, SoftTypeOK
  <2>2. f \in [Hand -> SUBSET {"PENDING", "ACTIVE"}]
    BY <1>1, <2>1, Zenon
  <2>3. \A g \in Hand : "PENDING" \in f[g] <=> Pending(cc, g)
    BY DEF Pending
  <2>4. \A g \in Hand : "ACTIVE" \notin f[g]
    BY <1>0, <1>1, Zenon DEF Flags
  <2>5. trig' = [trig EXCEPT ![cc] = FALSE]
    BY <1>0, <1>3, <2>1, Zenon DEF Return, SoftTypeOK
  <2>6. Dequeue(cc, f) /\ UNCHANGED <<hands, ci_ipipend, clients>>
    BY <1>3, Zenon DEF Return
  <2>. HIDE DEF f
  <2>. QED
    BY <2>1, <2>2, <2>3, <2>4, <2>5, <2>6, TakeInv, Zenon
<1>. QED
  BY <1>2, <1>3, Zenon

\* A handler that blocks and goes on
LEMMA BlockInv ==
    ASSUME IInv, NEW cc \in Cpu, Blocks(cc)
    PROVE  IInv'
<1>. USE DEF hands, clients
<1>0. SoftTypeOK /\ (\A i \in Cpu : Flags(i) /\ Triggered(i)) /\ \A g \in Hand : Ended(g)
  BY Zenon DEF IInv
<1>1. UNCHANGED <<sh_flags, si_q, si_active, trig, sh, hands, ci_ipipend, clients>>
  BY Zenon DEF Blocks
<1>2. /\ si' \in [Cpu -> {"idle", "func", "blocked"}]
      /\ \A i \in Cpu : si'[i] = "idle" <=> si[i] = "idle"
  BY <1>0, Zenon DEF Blocks, SoftTypeOK
<1>3. SoftTypeOK'
  BY <1>0, <1>1, <1>2, Zenon DEF SoftTypeOK
<1>4. ASSUME NEW i \in Cpu PROVE Flags(i)' /\ Triggered(i)'
  BY <1>0, <1>1, <1>2, Zenon DEF Flags, Triggered, Pending
<1>5. ASSUME NEW g \in Hand PROVE Ended(g)'
  BY <1>0, <1>1, Zenon DEF Ended, Pending
<1>. QED
  BY <1>3, <1>4, <1>5, Zenon DEF IInv

\* What the client of a slot does: the CPUs go on as before, and the other
\* slots too.
LEMMA ClientInv ==
    ASSUME IInv, ~LeftBehind, NEW h \in Hand,
           softint_establish(h) \/ Disestablish(h)
    PROVE  IInv'
<1>. USE DEF hands, clients
<1>. DEFINE Steps == \/ softint_establish(h) \/ xc_broadcast(h) \/ Collect(h) \/ Clear(h)
                     \/ \E cc \in Cpu : \/ ipi_unregister(h, cc) \/ ipi_msg_cpu_handler(cc, h)
                                        \/ XcThread(cc, h) \/ Look(h, cc)
<1>0. /\ SoftTypeOK /\ (\A i \in Cpu : Flags(i) /\ Triggered(i)) /\ \A g \in Hand : Ended(g)
      /\ Steps
  BY Zenon DEF IInv, Disestablish
<1>1. UNCHANGED <<cpus, ci_ipipend>>
  <2>1. ASSUME softint_establish(h) PROVE sh_flags' = sh_flags
    <3>1. h \notin sh_func
      BY <1>0, <2>1, Zenon DEF softint_establish, Goto, Ended
    <3>2. \A i \in Cpu : sh_flags[i][h] = {}
      BY <3>1, Zenon DEF LeftBehind
    <3>3. \A i \in Cpu : [sh_flags[i] EXCEPT ![h] = {}] = sh_flags[i]
      BY <1>0, <3>2, Zenon DEF SoftTypeOK
    <3>. QED
      BY <1>0, <2>1, <3>3, Zenon DEF softint_establish, SoftTypeOK
  <2>. QED
    BY <1>0, <2>1, Zenon DEF cpus, softint_establish, xc_broadcast, Collect,
       Clear, ipi_unregister, ipi_msg_cpu_handler, XcThread, Look
<1>. DEFINE Moves ==
        \E to \in {"free", "set", "ipi_wait", "xc_wait", "collect"}, rest \in SUBSET Cpu :
           client' = [client EXCEPT ![h] = to] /\ todo' = [todo EXCEPT ![h] = rest]
<1>2. Moves
  <2>1. todo[h] \in SUBSET Cpu
    BY <1>0, Zenon DEF SoftTypeOK
  <2>2. ASSUME NEW cc \in Cpu,
               \/ ipi_unregister(h, cc) \/ ipi_msg_cpu_handler(cc, h)
               \/ XcThread(cc, h) \/ Look(h, cc)
        PROVE  Moves
    BY <2>1, <2>2, Zenon DEF Goto, ipi_unregister, ipi_msg_cpu_handler,
       XcThread, Look
  <2>3. ASSUME softint_establish(h) \/ xc_broadcast(h) \/ Collect(h) \/ Clear(h)
        PROVE  Moves
    BY <2>3, Zenon DEF Goto, softint_establish, xc_broadcast, Collect, Clear
  <2>. QED
    BY <1>0, <2>2, <2>3, Zenon
<1>3. \A g \in Hand \ {h} : /\ client'[g] = client[g] /\ todo'[g] = todo[g]
                            /\ flags'[g] = flags[g] /\ behind'[g] = behind[g]
                            /\ g \in sh_func' <=> g \in sh_func
                            /\ g \in ipi_func' <=> g \in ipi_func
  <2>1. \A g \in Hand \ {h} : client'[g] = client[g] /\ todo'[g] = todo[g]
    BY <1>2
  <2>2. \A g \in Hand \ {h} : flags'[g] = flags[g] /\ behind'[g] = behind[g]
    BY <1>0, Zenon DEF SoftTypeOK, softint_establish, xc_broadcast, Collect,
       Clear, ipi_unregister, ipi_msg_cpu_handler, XcThread, Look
  <2>3. \A g \in Hand \ {h} : (g \in sh_func' <=> g \in sh_func) /\ (g \in ipi_func' <=> g \in ipi_func)
    BY <1>0, Zenon DEF softint_establish, xc_broadcast, Collect, Clear,
       ipi_unregister, ipi_msg_cpu_handler, XcThread, Look
  <2>. QED
    BY <2>1, <2>2, <2>3, Zenon
<1>4. SoftTypeOK'
  <2>1. client' \in [Hand -> {"free", "set", "ipi_wait", "xc_wait", "collect"}]
        /\ todo' \in [Hand -> SUBSET Cpu]
    BY <1>0, <1>2 DEF SoftTypeOK
  <2>2. flags' \in [Hand -> BOOLEAN] /\ behind' \in [Hand -> SUBSET Cpu]
    <3>1. ASSUME NEW cc \in Cpu, XcThread(cc, h) PROVE <2>2
      BY <1>0, <3>1, Zenon DEF SoftTypeOK, XcThread
    <3>2. ASSUME NEW cc \in Cpu, Look(h, cc) PROVE <2>2
      BY <1>0, <3>2, Zenon DEF SoftTypeOK, Look
    <3>3. ASSUME softint_establish(h) \/ Collect(h) PROVE <2>2
      BY <1>0, <3>3, Zenon DEF SoftTypeOK, softint_establish, Collect
    <3>. QED
      BY <1>0, <3>1, <3>2, <3>3, Zenon DEF SoftTypeOK, xc_broadcast, Clear,
         ipi_unregister, ipi_msg_cpu_handler
  <2>3. sh_func' \subseteq Hand /\ ipi_func' \subseteq Rcpu
    BY <1>0, Zenon DEF SoftTypeOK, softint_establish, xc_broadcast, Collect,
       Clear, ipi_unregister, ipi_msg_cpu_handler, XcThread, Look
  <2>. QED
    BY <1>0, <1>1, <2>1, <2>2, <2>3, Zenon DEF SoftTypeOK, cpus
<1>5. ASSUME NEW i \in Cpu PROVE Flags(i)' /\ Triggered(i)'
  BY <1>0, <1>1, Zenon DEF Flags, Triggered, Pending, cpus
<1>6. ASSUME NEW g \in Hand, g # h PROVE Ended(g)'
  BY <1>0, <1>1, <1>3, <1>6, Zenon DEF Ended, Pending, cpus
<1>7. Ended(h)'
  <2>0. /\ Ended(h) /\ \A i \in Cpu : (Pending(i, h)' <=> Pending(i, h)) /\ sh'[i] = sh[i]
        /\ client \in [Hand -> {"free", "set", "ipi_wait", "xc_wait", "collect"}]
        /\ todo \in [Hand -> SUBSET Cpu] /\ behind \in [Hand -> SUBSET Cpu]
        /\ flags \in [Hand -> BOOLEAN]
    BY <1>0, <1>1, Zenon DEF cpus, Pending, SoftTypeOK
  <2>1. CASE softint_establish(h)
    BY <2>0, <2>1, Zenon DEF softint_establish, Goto, Ended
  <2>2. CASE xc_broadcast(h)
    BY <1>0, <2>2 DEF xc_broadcast, Goto, Ended, SoftTypeOK
  <2>3. CASE Collect(h)
    BY <2>0, <2>3, Zenon DEF Collect, Goto, Ended
  <2>4. CASE Clear(h)
    BY <2>0, <2>4, Zenon DEF Clear, Goto, Ended
  <2>5. ASSUME NEW cc \in Cpu, ipi_unregister(h, cc) PROVE Ended(h)'
    BY <2>0, <2>5, Zenon DEF ipi_unregister, Goto, Ended
  <2>6. ASSUME NEW cc \in Cpu, ipi_msg_cpu_handler(cc, h) PROVE Ended(h)'
    BY <2>0, <2>6, Zenon DEF ipi_msg_cpu_handler, Goto, Ended
  <2>7. ASSUME NEW cc \in Cpu, XcThread(cc, h) PROVE Ended(h)'
    <3>1. ASSUME Pending(cc, h) PROVE si[cc] = "blocked"
      <4>1. si_q[cc] # <<>>
        BY <1>0, <3>1, SMTT(30) DEF Flags, Elems
      <4>. QED
        BY <1>0, <2>7, <4>1, ZenonT(30) DEF Triggered, SoftTypeOK, XcThread, ThreadRuns
    <3>2. /\ client[h] = "xc_wait" /\ client'[h] = "xc_wait" /\ todo'[h] = todo[h] \ {cc}
          /\ behind[h] \subseteq behind'[h] /\ (Pending(cc, h) => cc \in behind'[h])
          /\ UNCHANGED hands
      BY <2>0, <2>7, <3>1, Zenon DEF XcThread, Goto
    <3>. QED
      BY <2>0, <3>2, Zenon DEF Ended
  <2>8. ASSUME NEW cc \in Cpu, Look(h, cc) PROVE Ended(h)'
    <3>1. /\ client[h] = "collect" /\ client'[h] = "collect" /\ todo'[h] = todo[h] \ {cc}
          /\ (flags'[h] <=> flags[h] \/ Seen(cc, h)) /\ UNCHANGED <<hands, behind>>
      BY <2>0, <2>8, Zenon DEF Look, Goto
    <3>2. sh[cc] = h => Seen(cc, h)
      BY <1>0, Zenon DEF Flags, Seen
    <3>. QED
      BY <2>0, <3>1, <3>2, Zenon DEF Ended
  <2>. QED
    BY <1>0, <2>1, <2>2, <2>3, <2>4, <2>5, <2>6, <2>7, <2>8, Zenon
<1>. QED
  BY <1>4, <1>5, <1>6, <1>7, Zenon DEF IInv

-----------------------------------------------------------------------------
(* The theorems                                                            *)

\* The invariant holds always.
THEOREM Invariance ==
    SoftSpec => []IInv
<1>1. SoftInit => IInv
  BY InitInv, Zenon
<1>2. IInv /\ [SoftNext]_softvars => IInv'
  <2>. SUFFICES ASSUME IInv, [SoftNext]_softvars PROVE IInv'
    BY Zenon
  <2>1. CASE UNCHANGED softvars
    <3>. UNCHANGED <<sh_func, ipi_func, sh_flags, si_q, si_active, trig, si, sh, ci_ipipend,
                     client, todo, flags, behind>>
      BY <2>1, Zenon DEF softvars, hands, cpus, clients
    <3>1. SoftTypeOK'
      BY Zenon DEF IInv, SoftTypeOK
    <3>2. ASSUME NEW i \in Cpu PROVE Flags(i)' /\ Triggered(i)'
      BY Zenon DEF IInv, Flags, Triggered, Pending
    <3>3. ASSUME NEW g \in Hand PROVE Ended(g)'
      BY Zenon DEF IInv, Ended, Pending
    <3>. QED
      BY <3>1, <3>2, <3>3, Zenon DEF IInv
  <2>2. CASE ~LeftBehind /\ SoftNext
    <3>1. ASSUME NEW cc \in Cpu, Dispatch(cc) \/ Return(cc) PROVE IInv'
      BY <3>1, ExecuteInv, Zenon
    <3>2. ASSUME NEW cc \in Cpu, Blocks(cc) PROVE IInv'
      BY <3>2, BlockInv, Zenon
    <3>3. ASSUME NEW cc \in Cpu, NEW h \in Hand, softint_schedule_cpu(cc, h) PROVE IInv'
      <4>0. SoftTypeOK /\ client[h] = "set" /\ UNCHANGED <<hands, clients>>
        BY <3>3, Zenon DEF softint_schedule_cpu, IInv
      <4>1. CASE softint_schedule(cc, h) /\ UNCHANGED ci_ipipend
        BY <4>0, <4>1, ScheduleInv, Zenon DEF SoftTypeOK
      <4>2. CASE h \in Rcpu /\ ci_ipipend' = [ci_ipipend EXCEPT ![cc] = @ \cup {h}] /\ UNCHANGED cpus
        <5>. UNCHANGED <<sh_func, ipi_func, sh_flags, si_q, si_active, trig, si, sh,
                         client, todo, flags, behind>>
          BY <4>0, <4>2, Zenon DEF hands, cpus, clients
        <5>1. SoftTypeOK'
          BY <4>0, <4>2, Zenon DEF SoftTypeOK
        <5>2. ASSUME NEW i \in Cpu PROVE Flags(i)' /\ Triggered(i)'
          BY Zenon DEF IInv, Flags, Triggered, Pending
        <5>3. ASSUME NEW g \in Hand PROVE Ended(g)'
          BY Zenon DEF IInv, Ended, Pending
        <5>. QED
          BY <5>1, <5>2, <5>3, Zenon DEF IInv
      <4>. QED
        BY <3>3, <4>1, <4>2, Zenon DEF softint_schedule_cpu
    <3>4. ASSUME NEW cc \in Cpu, NEW h \in Hand, ipi_cpu_handler(cc, h) PROVE IInv'
      <4>1. client[h] = "set"
        BY <3>4, Zenon DEF IInv, Ended, ipi_cpu_handler
      <4>2. ci_ipipend' \in [Cpu -> SUBSET Rcpu]
        BY <3>4, Zenon DEF IInv, SoftTypeOK, ipi_cpu_handler
      <4>. QED
        BY <3>4, <4>1, <4>2, ScheduleInv, Zenon DEF ipi_cpu_handler
    <3>5. ASSUME NEW h \in Hand, softint_establish(h) \/ Disestablish(h) PROVE IInv'
      BY <2>2, <3>5, ClientInv, Zenon
    <3>. QED
      BY <2>2, <3>1, <3>2, <3>3, <3>4, <3>5, Zenon DEF SoftNext
  <2>. QED
    BY <2>1, <2>2, Zenon DEF SoftNext
<1>. QED
  BY <1>1, <1>2, PTL DEF SoftSpec

\* On each CPU the flags of the slots are what softint_execute asserts.
THEOREM FlagsHold ==
    SoftSpec => []FlagsAgree
<1>1. IInv => FlagsAgree
  BY InvImplies, Zenon
<1>. QED
  BY <1>1, Invariance, PTL

\* What softint_schedule has queued finds the software interrupt triggered, once.
THEOREM NothingForgotten ==
    SoftSpec => []NeverForgotten
<1>1. IInv => NeverForgotten
  BY InvImplies, Zenon
<1>. QED
  BY <1>1, Invariance, PTL

\* After softint_disestablish the handler is idle where nothing was blocked.
THEOREM ClearedHolds ==
    SoftSpec => []ClearedIsIdle
<1>1. IInv => ClearedIsIdle
  BY InvImplies, Zenon
<1>. QED
  BY <1>1, Invariance, PTL

-----------------------------------------------------------------------------
(* Interprocessor interrupts: sets of CPUs                                 *)

\* CPU_INFO_FOREACH: there is a first CPU among those that are left.
LEMMA Least ==
    ASSUME NEW S, S \subseteq Nat, S # {}
    PROVE  \E t \in S : \A u \in S : t <= u
<1> DEFINE Less == {p \in Nat \X Nat : p[1] < p[2]}
<1>1. IsWellFoundedOn(Less, Nat)
  BY NatLessThanWellFounded, Zenon DEF OpToRel
<1>2. PICK x \in S : \A y \in S : ~(<<y, x>> \in Less)
  <2> HIDE DEF Less
  <2> QED  BY <1>1, WFMin, Zenon
<1>3. ASSUME NEW y \in S PROVE x <= y
  <2>1. /\ x \in Nat /\ y \in Nat /\ <<y, x>> \notin Less
    BY <1>2, Zenon
  <2>2. ~(y < x)
    BY <2>1, Zenon
  <2> QED  BY <2>2
<1> QED  BY <1>3, Zenon

\* The CPU that is next is one of those left.
LEMMA NextTarget ==
    ASSUME NEW c \in Cpu, targets[c] \in SUBSET Cpu, targets[c] # {}
    PROVE  ci(c) \in targets[c]
<1>1. targets[c] \subseteq Nat
  BY IpiAssumption, Zenon
<1> QED  BY <1>1, Least, Zenon DEF ci

\* Sets of CPUs can be counted.
LEMMA Counted ==
    ASSUME NEW S \in SUBSET Cpu
    PROVE  /\ IsFiniteSet(S) /\ Cardinality(S) \in Nat
           /\ Cardinality(S) = 0 <=> S = {}
  BY IpiAssumption, FS_Subset, FS_CardinalityType, FS_EmptySet, Zenon

\* One CPU more
LEMMA CountMore ==
    ASSUME NEW S \in SUBSET Cpu, NEW c \in Cpu, c \notin S
    PROVE  Cardinality(S \cup {c}) = Cardinality(S) + 1
  BY Counted, FS_AddElement, Zenon

\* One CPU less
LEMMA CountLess ==
    ASSUME NEW S \in SUBSET Cpu, NEW c \in S
    PROVE  Cardinality(S \ {c}) = Cardinality(S) - 1
  BY Counted, FS_RemoveElement, Zenon

-----------------------------------------------------------------------------
(* The invariant                                                           *)

IpiTypeOK ==
    /\ mbox \in [Cpu -> [Slot -> Cpu \cup {NoMsg}]] /\ pending \in [Cpu -> Int]
    /\ snd \in [Cpu -> {"out", "put", "test", "or", "wait"}]
    /\ targets \in [Cpu -> SUBSET Cpu] /\ try \in [Cpu -> Slot]
    /\ hdl \in [Cpu -> {"off", "swap", "get", "func"}]
    /\ slot \in [Cpu -> Nat \ {0}] /\ msg \in [Cpu -> Cpu \cup {NoMsg}]

\* The CPUs whose mailboxes the message of x has still to be put into: in
\* ipi_trigger it is in that of the next target already.
Unsent(x) == IF snd[x] \in {"test", "or"} THEN targets[x] \ {ci(x)} ELSE targets[x]

\* A handler holds a message while it calls the function, and only then.
HandlersHold == \A c \in Cpu : hdl[c] = "func" <=> msg[c] # NoMsg

\* There are targets until ipi_wait.
SendersSend == \A x \in Cpu : targets[x] = {} <=> snd[x] \in {"out", "wait"}

\* No CPU has a message twice, in two slots, or in a slot and its handler, or
\* is still to be sent a message it has.
OneSlot == \A x, c \in Cpu : \A s, t \in Slot : mbox[c][s] = x /\ mbox[c][t] = x => s = t
Apart(x, c) == /\ ~(c \in Unsent(x) /\ c \in InMbox(x))
               /\ ~(c \in Unsent(x) /\ c \in Handled(x))
               /\ ~(c \in InMbox(x) /\ c \in Handled(x))
HadOnce == OneSlot /\ \A x, c \in Cpu : Apart(x, c)

\* The counter of each message counts the CPUs that have still to answer.
Unanswered(x) == Cardinality(Unsent(x)) + Cardinality(InMbox(x)) + Cardinality(Handled(x))
Accounted == \A x \in Cpu : /\ pending[x] = Unanswered(x)
                            /\ snd[x] = "out" => InMbox(x) = {} /\ Handled(x) = {}

IpiInv == IpiTypeOK /\ HandlersHold /\ SendersSend /\ HadOnce /\ Accounted

-----------------------------------------------------------------------------

\* The sets are sets of CPUs, so they can be counted.
LEMMA SetsOfCpus ==
    ASSUME IpiTypeOK, NEW x \in Cpu
    PROVE  /\ Unsent(x) \in SUBSET Cpu /\ InMbox(x) \in SUBSET Cpu /\ Handled(x) \in SUBSET Cpu
           /\ Cardinality(Unsent(x)) \in Nat /\ Cardinality(InMbox(x)) \in Nat
           /\ Cardinality(Handled(x)) \in Nat
<1>1. /\ Unsent(x) \in SUBSET Cpu /\ InMbox(x) \in SUBSET Cpu /\ Handled(x) \in SUBSET Cpu
  BY Zenon DEF Unsent, InMbox, Handled, IpiTypeOK
<1> QED  BY <1>1, Counted, Zenon

\* IpiInv implies AnsweredOnce: in ipi_trigger the next target is counted as
\* sent to.
LEMMA InvAnswered == IpiInv => AnsweredOnce
<1> SUFFICES ASSUME IpiInv, NEW x \in Cpu
             PROVE  /\ pending[x] = Cardinality(targets[x]) + Cardinality(InMbox(x))
                          + Cardinality(Handled(x)) - (IF snd[x] \in {"test", "or"} THEN 1 ELSE 0)
                    /\ snd[x] = "out" => InMbox(x) \cup Handled(x) = {}
  BY Zenon DEF AnsweredOnce
<1>1. /\ pending[x] = Unanswered(x) /\ IpiTypeOK
      /\ snd[x] = "out" => InMbox(x) = {} /\ Handled(x) = {}
  BY Zenon DEF IpiInv, Accounted
<1>2. targets[x] \in SUBSET Cpu /\ (snd[x] \in {"test", "or"} => targets[x] # {})
  BY Zenon DEF IpiInv, IpiTypeOK, SendersSend
<1>3. Cardinality(targets[x]) \in Nat
  BY <1>2, Counted, Zenon
<1>4. snd[x] \in {"test", "or"} => Cardinality(Unsent(x)) = Cardinality(targets[x]) - 1
  BY <1>2, NextTarget, CountLess, Zenon DEF Unsent
<1>5. snd[x] \notin {"test", "or"} => Cardinality(Unsent(x)) = Cardinality(targets[x])
  BY Zenon DEF Unsent
<1> QED  BY <1>1, <1>3, <1>4, <1>5, SetsOfCpus DEF Unanswered

\* There are no messages at first.
LEMMA IpiInitInv == IpiInit => IpiInv
<1> SUFFICES ASSUME IpiInit PROVE IpiInv
  BY Zenon
<1>1. IpiTypeOK
  BY IpiAssumption DEF IpiInit, IpiTypeOK, Slot
<1>2. HandlersHold /\ SendersSend
  BY Zenon DEF IpiInit, HandlersHold, SendersSend
<1>3. ASSUME NEW x \in Cpu PROVE Unsent(x) = {} /\ InMbox(x) = {} /\ Handled(x) = {}
  <2>1. Unsent(x) = {}
    BY Zenon DEF IpiInit, Unsent
  <2>2. InMbox(x) = {} /\ Handled(x) = {}
    BY IpiAssumption, Zenon DEF IpiInit, InMbox, Handled
  <2> QED  BY <2>1, <2>2, Zenon
<1>4. HadOnce
  <2>1. \A x, c \in Cpu : \A s \in Slot : mbox[c][s] # x
    BY IpiAssumption, Zenon DEF IpiInit
  <2> QED  BY <1>3, <2>1, Zenon DEF HadOnce, OneSlot, Apart
<1>5. Accounted
  <2> SUFFICES ASSUME NEW x \in Cpu PROVE pending[x] = Unanswered(x)
    BY <1>3, Zenon DEF Accounted
  <2>1. pending[x] = 0
    BY Zenon DEF IpiInit
  <2>2. Unanswered(x) = Cardinality({}) + Cardinality({}) + Cardinality({})
    BY <1>3, Zenon DEF Unanswered
  <2> QED  BY <2>1, <2>2, FS_EmptySet
<1> QED  BY <1>1, <1>2, <1>4, <1>5, Zenon DEF IpiInv

\* A step after which the sets of each message are what they were, and the
\* slots and counters too, keeps what is said of them.
LEMMA Unmoved ==
    ASSUME HadOnce, Accounted, UNCHANGED <<mbox, pending>>,
           \A x \in Cpu : /\ Unsent(x)' = Unsent(x) /\ Handled(x)' = Handled(x)
                          /\ snd'[x] = "out" => snd[x] = "out" \/ Unanswered(x) = 0,
           IpiTypeOK
    PROVE  HadOnce' /\ Accounted'
<1>1. \A x \in Cpu : InMbox(x)' = InMbox(x)
  BY Zenon DEF InMbox
<1>2. HadOnce'
  BY <1>1, Zenon DEF HadOnce, OneSlot, Apart
<1>3. ASSUME NEW x \in Cpu, Unanswered(x) = 0 PROVE InMbox(x) = {} /\ Handled(x) = {}
  <2>1. Cardinality(InMbox(x)) = 0 /\ Cardinality(Handled(x)) = 0
    BY <1>3, SetsOfCpus DEF Unanswered
  <2> QED  BY <2>1, SetsOfCpus, Counted, Zenon
<1>4. \A x \in Cpu : Unanswered(x)' = Unanswered(x)
  BY <1>1, Zenon DEF Unanswered
<1> QED  BY <1>1, <1>2, <1>3, <1>4, Zenon DEF Accounted

\* Where the sender is, when it is not in ipi_trigger, does not matter.
LEMMA MulticastInv ==
    ASSUME IpiInv, NEW c \in Cpu, NEW T \in SUBSET (Cpu \ {c}), ipi_multicast(c, T)
    PROVE  IpiInv'
<1>1. /\ IpiTypeOK /\ HandlersHold /\ SendersSend /\ HadOnce /\ Accounted
  BY Zenon DEF IpiInv
<1>2. /\ snd[c] = "out" /\ hdl' = hdl /\ msg' = msg /\ mbox' = mbox /\ try' = try /\ slot' = slot
      /\ snd' = [snd EXCEPT ![c] = IF T = {} THEN "wait" ELSE "put"]
      /\ pending' = [pending EXCEPT ![c] = Cardinality(T)]
      /\ targets' = [targets EXCEPT ![c] = T]
  BY Zenon DEF ipi_multicast, Sender, handler
<1>3. /\ T \in SUBSET Cpu /\ Cardinality(T) \in Nat
  BY Counted, Zenon
<1>4. /\ snd'[c] = IF T = {} THEN "wait" ELSE "put"
      /\ pending'[c] = Cardinality(T) /\ targets'[c] = T
      /\ \A x \in Cpu : x # c => snd'[x] = snd[x] /\ pending'[x] = pending[x] /\ targets'[x] = targets[x]
  BY <1>1, <1>2, Zenon DEF IpiTypeOK
<1>5. IpiTypeOK'
  <2>1. /\ snd' \in [Cpu -> {"out", "put", "test", "or", "wait"}]
        /\ targets' \in [Cpu -> SUBSET Cpu]
    BY <1>1, <1>2, <1>3, Zenon DEF IpiTypeOK
  <2>2. Cardinality(T) \in Int
    BY <1>3
  <2>3. pending' \in [Cpu -> Int]
    BY <1>1, <1>2, <2>2, Zenon DEF IpiTypeOK
  <2> QED  BY <1>1, <1>2, <2>1, <2>3, Zenon DEF IpiTypeOK
<1>6. HandlersHold' /\ SendersSend'
  BY <1>1, <1>2, <1>4, SMTT(30) DEF HandlersHold, SendersSend
<1>7. \A x \in Cpu : InMbox(x)' = InMbox(x) /\ Handled(x)' = Handled(x)
  BY <1>2, Zenon DEF InMbox, Handled
<1>8. \A x \in Cpu : x # c => Unsent(x)' = Unsent(x)
  BY <1>4, Zenon DEF Unsent, ci
<1>9. /\ Unsent(c)' = T /\ InMbox(c) = {} /\ Handled(c) = {}
  <2>1. snd'[c] \notin {"test", "or"}
    BY <1>4, Zenon
  <2> QED  BY <1>1, <1>2, <1>4, <2>1, Zenon DEF Unsent, Accounted
<1>10. HadOnce'
  <2>1. OneSlot'
    BY <1>1, <1>2, Zenon DEF HadOnce, OneSlot
  <2>2. ASSUME NEW x \in Cpu, x # c, NEW d \in Cpu PROVE Apart(x, d)'
    BY <1>1, <1>7, <1>8, <2>2, Zenon DEF HadOnce, Apart
  <2>3. ASSUME NEW d \in Cpu PROVE Apart(c, d)'
    BY <1>7, <1>9, Zenon DEF Apart
  <2> QED  BY <2>1, <2>2, <2>3, Zenon DEF HadOnce
<1>11. Accounted'
  <2>1. \A x \in Cpu : x # c => Unanswered(x)' = Unanswered(x)
    BY <1>7, <1>8, Zenon DEF Unanswered
  <2>2. Unanswered(c)' = Cardinality(T) + Cardinality({}) + Cardinality({})
    BY <1>7, <1>9, Zenon DEF Unanswered
  <2>3. Unanswered(c)' = pending'[c]
    BY <1>3, <1>4, <2>2, FS_EmptySet
  <2> QED  BY <1>1, <1>4, <1>7, <2>1, <2>3, Zenon DEF Accounted
<1> QED  BY <1>5, <1>6, <1>10, <1>11, Zenon DEF IpiInv

\* A slot that is taken
LEMMA TryInv ==
    ASSUME IpiInv, NEW c \in Cpu, Sender(c, "put", "put"),
           try' = [try EXCEPT ![c] = (@ % IPI_MSG_MAX) + 1],
           UNCHANGED <<mbox, pending, targets, handler>>
    PROVE  IpiInv'
<1>1. /\ IpiTypeOK /\ HandlersHold /\ SendersSend /\ HadOnce /\ Accounted
  BY Zenon DEF IpiInv
<1>2. /\ hdl' = hdl /\ msg' = msg /\ slot' = slot
      /\ pending' = pending /\ targets' = targets
  BY Zenon DEF handler
<1>4. snd' = snd
  BY <1>1, Zenon DEF IpiTypeOK, Sender
<1>5. mbox' = mbox /\ try' = [try EXCEPT ![c] = (@ % IPI_MSG_MAX) + 1]
  BY Zenon
<1>6. IpiTypeOK'
  <2>1. try[c] \in Slot
    BY <1>1, Zenon DEF IpiTypeOK
  <2>2. (try[c] % IPI_MSG_MAX) + 1 \in Slot
    BY <2>1, IpiAssumption DEF Slot
  <2> QED  BY <1>1, <1>2, <1>4, <2>2, Zenon DEF IpiTypeOK
<1>7. HandlersHold' /\ SendersSend'
  BY <1>1, <1>2, <1>4, Zenon DEF HandlersHold, SendersSend
<1>8. \A x \in Cpu : Unsent(x)' = Unsent(x) /\ Handled(x)' = Handled(x)
  BY <1>2, <1>4, Zenon DEF Unsent, Handled, ci
<1>9. HadOnce' /\ Accounted'
  BY <1>1, <1>2, <1>4, <1>5, <1>8, Unmoved, Zenon
<1> QED  BY <1>6, <1>7, <1>9, Zenon DEF IpiInv

\* A slot that is free: one CPU less has to be sent to, and one has the
\* message in its mailbox.
LEMMA PutInv ==
    ASSUME IpiInv, NEW c \in Cpu, Sender(c, "put", "test"), ~Taken(c),
           mbox' = [mbox EXCEPT ![ci(c)][try[c]] = c], try' = [try EXCEPT ![c] = 1],
           UNCHANGED <<pending, targets, handler>>
    PROVE  IpiInv'
<1> DEFINE d == ci(c)
           n == try[c]
<1>1. /\ IpiTypeOK /\ HandlersHold /\ SendersSend /\ HadOnce /\ Accounted
  BY Zenon DEF IpiInv
<1>2. /\ hdl' = hdl /\ msg' = msg /\ slot' = slot /\ snd[c] = "put"
      /\ pending' = pending /\ targets' = targets /\ snd' = [snd EXCEPT ![c] = "test"]
  BY Zenon DEF handler, Sender
<1>3. /\ d \in targets[c] /\ d \in Cpu /\ n \in Slot
  <2>1. targets[c] \in SUBSET Cpu /\ n \in Slot
    BY <1>1, Zenon DEF IpiTypeOK
  <2>2. targets[c] # {}
    BY <1>1, <1>2, Zenon DEF SendersSend
  <2> QED  BY <2>1, <2>2, NextTarget, Zenon
<1>4. mbox[d][n] = NoMsg
  BY Zenon DEF Taken
<1> HIDE DEF d, n
<1>5. /\ mbox'[d][n] = c
      /\ \A e \in Cpu : \A s \in Slot : e # d \/ s # n => mbox'[e][s] = mbox[e][s]
  BY <1>1, <1>3, Zenon DEF IpiTypeOK, d, n
<1>6. /\ snd'[c] = "test" /\ \A x \in Cpu : x # c => snd'[x] = snd[x]
  BY <1>1, <1>2, Zenon DEF IpiTypeOK
<1>7. IpiTypeOK'
  <2>1. mbox' \in [Cpu -> [Slot -> Cpu \cup {NoMsg}]]
    <3>1. mbox[d] \in [Slot -> Cpu \cup {NoMsg}]
      BY <1>1, <1>3, Zenon DEF IpiTypeOK
    <3>2. [mbox[d] EXCEPT ![n] = c] \in [Slot -> Cpu \cup {NoMsg}]
      BY <3>1, Zenon
    <3>3. mbox' = [mbox EXCEPT ![d] = [mbox[d] EXCEPT ![n] = c]]
      BY Zenon DEF d, n
    <3> QED  BY <1>1, <3>2, Zenon DEF IpiTypeOK
  <2>2. 1 \in Slot
    BY IpiAssumption DEF Slot
  <2> QED  BY <1>1, <1>2, <2>1, <2>2, Zenon DEF IpiTypeOK
<1>8. HandlersHold' /\ SendersSend'
  <2>1. \A x \in Cpu : snd'[x] \in {"out", "wait"} <=> snd[x] \in {"out", "wait"}
    BY <1>2
  <2> QED  BY <1>1, <1>2, <2>1, Zenon DEF HandlersHold, SendersSend
<1>9. \A x \in Cpu : Handled(x)' = Handled(x)
  BY <1>2, Zenon DEF Handled
<1>10. ASSUME NEW x \in Cpu, x # c PROVE Unsent(x)' = Unsent(x) /\ InMbox(x)' = InMbox(x)
  <2>1. Unsent(x)' = Unsent(x)
    BY <1>6, <1>10, Zenon DEF Unsent, ci
  <2>2. \A e \in Cpu : \A s \in Slot : mbox'[e][s] = x <=> mbox[e][s] = x
    BY <1>4, <1>5, <1>10, IpiAssumption, Zenon
  <2> QED  BY <2>1, <2>2, Zenon DEF InMbox
<1>11. Unsent(c)' = Unsent(c) \ {d} /\ d \in Unsent(c)
  <2>1. snd'[c] \in {"test", "or"} /\ snd[c] \notin {"test", "or"}
    BY <1>2, <1>6, Zenon
  <2> QED  BY <1>3, <2>1, Zenon DEF Unsent, d, ci
<1>12. d \notin InMbox(c) /\ d \notin Handled(c)
  BY <1>1, <1>3, <1>11, Zenon DEF HadOnce, Apart
<1>13. InMbox(c)' = InMbox(c) \cup {d}
  <2>1. \A e \in Cpu : (\E s \in Slot : mbox'[e][s] = c) <=> (\E s \in Slot : mbox[e][s] = c) \/ e = d
    BY <1>3, <1>5, Zenon
  <2> QED  BY <1>3, <2>1, Zenon DEF InMbox
<1>14. HadOnce'
  <2>1. OneSlot'
    <3> SUFFICES ASSUME NEW x \in Cpu, NEW e \in Cpu, NEW s \in Slot, NEW t \in Slot,
                        mbox'[e][s] = x, mbox'[e][t] = x
                 PROVE  s = t
      BY Zenon DEF OneSlot
    <3>1. mbox[e][s] = x /\ mbox[e][t] = x => s = t
      BY <1>1, Zenon DEF HadOnce, OneSlot
    <3>2. e = d => mbox[e][s] # c /\ mbox[e][t] # c
      BY <1>12, Zenon DEF InMbox
    <3>3. CASE e # d
      BY <1>5, <3>1, <3>3, Zenon
    <3>4. CASE e = d /\ (s = n \/ t = n)
      <4>1. x = c
        BY <1>5, <3>4, Zenon
      <4>2. s # n => mbox[e][s] = c
        BY <1>5, <4>1, Zenon
      <4>3. t # n => mbox[e][t] = c
        BY <1>5, <4>1, Zenon
      <4> QED  BY <3>2, <3>4, <4>2, <4>3, Zenon
    <3>5. CASE s # n /\ t # n
      BY <1>5, <3>1, <3>5, Zenon
    <3> QED  BY <3>3, <3>4, <3>5, Zenon
  <2>2. ASSUME NEW x \in Cpu, x # c, NEW e \in Cpu PROVE Apart(x, e)'
    BY <1>1, <1>9, <1>10, <2>2, Zenon DEF HadOnce, Apart
  <2>3. ASSUME NEW e \in Cpu PROVE Apart(c, e)'
    <3>1. Apart(c, e)
      BY <1>1, Zenon DEF HadOnce
    <3> QED  BY <1>9, <1>11, <1>13, <3>1, Zenon DEF Apart
  <2> QED  BY <2>1, <2>2, <2>3, Zenon DEF HadOnce
<1>15. Accounted'
  <2>1. \A x \in Cpu : x # c => Unanswered(x)' = Unanswered(x)
    BY <1>9, <1>10, Zenon DEF Unanswered
  <2>2. Cardinality(Unsent(c)') = Cardinality(Unsent(c)) - 1
    BY <1>1, <1>11, SetsOfCpus, CountLess, Zenon
  <2>3. Cardinality(InMbox(c)') = Cardinality(InMbox(c)) + 1
    BY <1>1, <1>3, <1>12, <1>13, SetsOfCpus, CountMore, Zenon
  <2>4. Cardinality(Handled(c)') = Cardinality(Handled(c))
    BY <1>9, Zenon
  <2>5. Unanswered(c)' = Unanswered(c)
    BY <1>1, <2>2, <2>3, <2>4, SetsOfCpus DEF Unanswered
  <2>6. snd'[c] # "out"
    BY <1>6, Zenon
  <2> QED  BY <1>1, <1>6, <1>9, <1>10, <2>1, <2>5, Zenon DEF Accounted
<1> QED  BY <1>7, <1>8, <1>14, <1>15, Zenon DEF IpiInv

\* ipi_trigger finds the bit clear.
LEMMA TestInv ==
    ASSUME IpiInv, NEW c \in Cpu, Sender(c, "test", "or"),
           UNCHANGED <<mbox, pending, targets, try, handler>>
    PROVE  IpiInv'
<1>1. /\ IpiTypeOK /\ HandlersHold /\ SendersSend /\ HadOnce /\ Accounted
  BY Zenon DEF IpiInv
<1>2. /\ hdl' = hdl /\ msg' = msg /\ slot' = slot /\ snd[c] = "test"
      /\ snd' = [snd EXCEPT ![c] = "or"]
  BY Zenon DEF handler, Sender
<1>3. /\ snd'[c] = "or" /\ \A x \in Cpu : x # c => snd'[x] = snd[x]
  BY <1>1, <1>2, Zenon DEF IpiTypeOK
<1>4. IpiTypeOK'
  BY <1>1, <1>2, Zenon DEF IpiTypeOK
<1>5. \A x \in Cpu : /\ snd'[x] \in {"out", "wait"} <=> snd[x] \in {"out", "wait"}
                     /\ snd'[x] \in {"test", "or"} <=> snd[x] \in {"test", "or"}
                     /\ snd'[x] = "out" => snd[x] = "out"
  BY <1>2
<1>6. HandlersHold' /\ SendersSend'
  BY <1>1, <1>2, <1>5, Zenon DEF HandlersHold, SendersSend
<1>7. \A x \in Cpu : Unsent(x)' = Unsent(x) /\ Handled(x)' = Handled(x)
  BY <1>2, <1>5, Zenon DEF Unsent, Handled, ci
<1>8. HadOnce' /\ Accounted'
  BY <1>1, <1>5, <1>7, Unmoved, Zenon
<1> QED  BY <1>4, <1>6, <1>8, Zenon DEF IpiInv

\* ipi_trigger is done with a target, and the sender goes on.
LEMMA TriggeredInv ==
    ASSUME IpiInv, NEW c \in Cpu, snd[c] \in {"test", "or"},
           Sender(c, snd[c], IF targets[c] \ {ci(c)} = {} THEN "wait" ELSE "put"),
           targets' = [targets EXCEPT ![c] = targets[c] \ {ci(c)}],
           UNCHANGED <<mbox, pending, try, handler>>
    PROVE  IpiInv'
<1>1. /\ IpiTypeOK /\ HandlersHold /\ SendersSend /\ HadOnce /\ Accounted
  BY Zenon DEF IpiInv
<1>2. /\ hdl' = hdl /\ msg' = msg /\ slot' = slot
      /\ snd' = [snd EXCEPT ![c] = IF targets[c] \ {ci(c)} = {} THEN "wait" ELSE "put"]
  BY Zenon DEF handler, Sender
<1>3. /\ snd'[c] = (IF targets[c] \ {ci(c)} = {} THEN "wait" ELSE "put")
      /\ targets'[c] = targets[c] \ {ci(c)} /\ targets[c] \in SUBSET Cpu
      /\ \A x \in Cpu : x # c => snd'[x] = snd[x] /\ targets'[x] = targets[x]
  BY <1>1, <1>2, Zenon DEF IpiTypeOK
<1>4. IpiTypeOK'
  BY <1>1, <1>2, Zenon DEF IpiTypeOK
<1>5. /\ snd'[c] \notin {"test", "or"} /\ snd'[c] # "out"
      /\ snd'[c] \in {"out", "wait"} <=> targets[c] \ {ci(c)} = {}
  BY <1>3, Zenon
<1>6. HandlersHold' /\ SendersSend'
  BY <1>1, <1>2, <1>3, <1>5, Zenon DEF HandlersHold, SendersSend
<1>7. \A x \in Cpu : Handled(x)' = Handled(x)
  BY <1>2, Zenon DEF Handled
<1>8. ASSUME NEW x \in Cpu, x # c PROVE Unsent(x)' = Unsent(x)
  BY <1>3, <1>8, Zenon DEF Unsent, ci
<1>9. Unsent(c)' = Unsent(c)
  BY <1>3, Zenon DEF Unsent
<1>10. HadOnce' /\ Accounted'
  BY <1>1, <1>3, <1>7, <1>8, <1>9, Unmoved, Zenon
<1> QED  BY <1>4, <1>6, <1>10, Zenon DEF IpiInv

\* ipi_wait returns when the counter is zero, and so nobody has the message.
LEMMA WaitInv ==
    ASSUME IpiInv, NEW c \in Cpu, ipi_wait(c)
    PROVE  IpiInv'
<1>1. /\ IpiTypeOK /\ HandlersHold /\ SendersSend /\ HadOnce /\ Accounted
  BY Zenon DEF IpiInv
<1>2. /\ hdl' = hdl /\ msg' = msg /\ slot' = slot /\ mbox' = mbox /\ pending' = pending
      /\ targets' = targets /\ try' = try
      /\ snd[c] = "wait" /\ snd' = [snd EXCEPT ![c] = "out"] /\ pending[c] = 0
  BY Zenon DEF handler, Sender, ipi_wait
<1>3. /\ snd'[c] = "out" /\ \A x \in Cpu : x # c => snd'[x] = snd[x]
  BY <1>1, <1>2, Zenon DEF IpiTypeOK
<1>4. IpiTypeOK'
  BY <1>1, <1>2, Zenon DEF IpiTypeOK
<1>5. \A x \in Cpu : /\ snd'[x] \in {"out", "wait"} <=> snd[x] \in {"out", "wait"}
                     /\ snd'[x] \in {"test", "or"} <=> snd[x] \in {"test", "or"}
  BY <1>2
<1>6. HandlersHold' /\ SendersSend'
  BY <1>1, <1>2, <1>5, Zenon DEF HandlersHold, SendersSend
<1>7. \A x \in Cpu : Unsent(x)' = Unsent(x) /\ Handled(x)' = Handled(x)
  BY <1>2, <1>5, Zenon DEF Unsent, Handled, ci
<1>8. Unanswered(c) = 0
  BY <1>1, <1>2, Zenon DEF Accounted
<1>9. HadOnce' /\ Accounted'
  BY <1>1, <1>2, <1>3, <1>7, <1>8, Unmoved, Zenon
<1> QED  BY <1>4, <1>6, <1>9, Zenon DEF IpiInv

\* The handler starts, or ends, or finds an empty slot.
LEMMA HandlerInv ==
    ASSUME IpiInv, NEW c \in Cpu, hdl[c] # "func", NEW to \in {"off", "swap", "get"},
           hdl' = [hdl EXCEPT ![c] = to], slot' \in [Cpu -> Nat \ {0}],
           UNCHANGED <<mbox, msg, pending, sender>>
    PROVE  IpiInv'
<1>1. /\ IpiTypeOK /\ HandlersHold /\ SendersSend /\ HadOnce /\ Accounted
  BY Zenon DEF IpiInv
<1>2. /\ snd' = snd /\ targets' = targets /\ try' = try
  BY Zenon DEF sender
<1>3. /\ hdl'[c] = to /\ \A x \in Cpu : x # c => hdl'[x] = hdl[x]
  BY <1>1, Zenon DEF IpiTypeOK
<1>4. IpiTypeOK'
  BY <1>1, <1>2, Zenon DEF IpiTypeOK
<1>5. \A x \in Cpu : hdl'[x] = "func" <=> hdl[x] = "func"
  BY <1>3, Zenon
<1>6. HandlersHold' /\ SendersSend'
  BY <1>1, <1>2, <1>5, Zenon DEF HandlersHold, SendersSend
<1>7. \A x \in Cpu : Unsent(x)' = Unsent(x) /\ Handled(x)' = Handled(x)
  BY <1>2, Zenon DEF Unsent, Handled, ci
<1>8. HadOnce' /\ Accounted'
  BY <1>1, <1>2, <1>7, Unmoved, Zenon
<1> QED  BY <1>4, <1>6, <1>8, Zenon DEF IpiInv

\* ipi_msg_cpu_handler looks at a slot: a message that is there moves to the
\* handler.
LEMMA GetInv ==
    ASSUME IpiInv, NEW c \in Cpu, hdl[c] = "get", NEW n \in Slot, n = slot[c],
           hdl' = [hdl EXCEPT ![c] = IF msg'[c] = NoMsg THEN "get" ELSE "func"],
           slot' = [slot EXCEPT ![c] = @ + 1],
           msg' = [msg EXCEPT ![c] = mbox[c][n]],
           mbox' = [mbox EXCEPT ![c][n] = NoMsg],
           UNCHANGED <<pending, sender>>
    PROVE  IpiInv'
<1>1. /\ IpiTypeOK /\ HandlersHold /\ SendersSend /\ HadOnce /\ Accounted
  BY Zenon DEF IpiInv
<1>2. /\ snd' = snd /\ targets' = targets /\ try' = try
  BY Zenon DEF sender
<1>3. /\ msg[c] = NoMsg /\ msg'[c] = mbox[c][n] /\ mbox[c][n] \in Cpu \cup {NoMsg}
      /\ \A e \in Cpu : e # c => msg'[e] = msg[e] /\ hdl'[e] = hdl[e]
      /\ hdl'[c] = IF msg'[c] = NoMsg THEN "get" ELSE "func"
  <2>1. hdl[c] # "func"
    BY Zenon
  <2>2. msg[c] = NoMsg
    BY <1>1, Zenon DEF HandlersHold
  <2>3. /\ msg'[c] = mbox[c][n] /\ \A e \in Cpu : e # c => msg'[e] = msg[e]
    BY <1>1, Zenon DEF IpiTypeOK
  <2>4. /\ hdl'[c] = IF msg'[c] = NoMsg THEN "get" ELSE "func"
        /\ \A e \in Cpu : e # c => hdl'[e] = hdl[e]
    BY <1>1, Zenon DEF IpiTypeOK
  <2>5. mbox[c][n] \in Cpu \cup {NoMsg}
    BY <1>1 DEF IpiTypeOK
  <2> QED  BY <2>2, <2>3, <2>4, <2>5, Zenon
<1>4. /\ mbox'[c][n] = NoMsg
      /\ \A e \in Cpu : \A s \in Slot : e # c \/ s # n => mbox'[e][s] = mbox[e][s]
  BY <1>1, Zenon DEF IpiTypeOK
<1>5. IpiTypeOK'
  <2>1. mbox' \in [Cpu -> [Slot -> Cpu \cup {NoMsg}]]
    <3>1. mbox[c] \in [Slot -> Cpu \cup {NoMsg}]
      BY <1>1, Zenon DEF IpiTypeOK
    <3>2. [mbox[c] EXCEPT ![n] = NoMsg] \in [Slot -> Cpu \cup {NoMsg}]
      BY <3>1, Zenon
    <3>3. mbox' = [mbox EXCEPT ![c] = [mbox[c] EXCEPT ![n] = NoMsg]]
      BY Zenon
    <3> QED  BY <1>1, <3>2, Zenon DEF IpiTypeOK
  <2>2. msg' \in [Cpu -> Cpu \cup {NoMsg}]
    BY <1>1, <1>3, Zenon DEF IpiTypeOK
  <2>3. hdl' \in [Cpu -> {"off", "swap", "get", "func"}]
    BY <1>1, Zenon DEF IpiTypeOK
  <2>4. slot' \in [Cpu -> Nat \ {0}]
    <3>1. slot \in [Cpu -> Nat \ {0}]
      BY <1>1, Zenon DEF IpiTypeOK
    <3> QED  BY <3>1
  <2> QED  BY <1>1, <1>2, <2>1, <2>2, <2>4, Zenon DEF IpiTypeOK
<1>6. HandlersHold' /\ SendersSend'
  <2>1. hdl'[c] = "func" <=> msg'[c] # NoMsg
    BY <1>3, Zenon
  <2>2. HandlersHold'
    <3>1. \A e \in Cpu : e # c => (hdl'[e] = "func" <=> msg'[e] # NoMsg)
      BY <1>1, <1>3, ZenonT(30) DEF HandlersHold
    <3> QED  BY <2>1, <3>1, Zenon DEF HandlersHold
  <2>3. SendersSend'
    BY <1>1, <1>2, Zenon DEF SendersSend
  <2> QED  BY <2>2, <2>3, Zenon
<1>7. \A x \in Cpu : Unsent(x)' = Unsent(x)
  BY <1>2, Zenon DEF Unsent, ci
<1>8. ASSUME NEW x \in Cpu, x # mbox[c][n] PROVE InMbox(x)' = InMbox(x) /\ Handled(x)' = Handled(x)
  <2>1. x # NoMsg
    BY IpiAssumption, Zenon
  <2>2. \A e \in Cpu : \A s \in Slot : mbox'[e][s] = x <=> mbox[e][s] = x
    BY <1>4, <1>8, <2>1, Zenon
  <2>3. \A e \in Cpu : msg'[e] = x <=> msg[e] = x
    BY <1>3, <1>8, <2>1, Zenon
  <2> QED  BY <2>2, <2>3, Zenon DEF InMbox, Handled
<1>9. ASSUME NEW x \in Cpu, x = mbox[c][n]
      PROVE  /\ c \in InMbox(x) /\ InMbox(x)' = InMbox(x) \ {c}
             /\ c \notin Handled(x) /\ Handled(x)' = Handled(x) \cup {c} /\ c \notin Unsent(x)
  <2>1. x # NoMsg
    BY IpiAssumption, Zenon
  <2>2. c \in InMbox(x)
    BY <1>9, Zenon DEF InMbox
  <2>3. c \notin Handled(x) /\ c \notin Unsent(x)
    BY <1>1, <2>2, Zenon DEF HadOnce, Apart
  <2>4. \A s \in Slot : mbox'[c][s] # x
    <3>1. \A s \in Slot : mbox[c][s] = x => s = n
      BY <1>1, <1>9, Zenon DEF HadOnce, OneSlot
    <3> QED  BY <1>4, <2>1, <3>1, Zenon
  <2>5. \A e \in Cpu : (\E s \in Slot : mbox'[e][s] = x) <=> (\E s \in Slot : mbox[e][s] = x) /\ e # c
    BY <1>4, <2>4, Zenon
  <2>6. InMbox(x)' = InMbox(x) \ {c}
    BY <2>5, Zenon DEF InMbox
  <2>7. \A e \in Cpu : msg'[e] = x <=> msg[e] = x \/ e = c
    BY <1>3, <1>9, Zenon
  <2>8. Handled(x)' = Handled(x) \cup {c}
    BY <2>7, Zenon DEF Handled
  <2> QED  BY <2>2, <2>3, <2>6, <2>8, Zenon
<1>10. HadOnce'
  <2>1. OneSlot'
    <3> SUFFICES ASSUME NEW x \in Cpu, NEW e \in Cpu, NEW s \in Slot, NEW t \in Slot,
                        mbox'[e][s] = x, mbox'[e][t] = x
                 PROVE  s = t
      BY Zenon DEF OneSlot
    <3>1. x # NoMsg
      BY IpiAssumption, Zenon
    <3>2. mbox[e][s] = x /\ mbox[e][t] = x
      BY <1>4, <3>1, Zenon
    <3> QED  BY <1>1, <3>2, Zenon DEF HadOnce, OneSlot
  <2>2. ASSUME NEW x \in Cpu, NEW e \in Cpu PROVE Apart(x, e)'
    <3>1. Apart(x, e)
      BY <1>1, Zenon DEF HadOnce
    <3>2. CASE x = mbox[c][n]
      BY <1>7, <1>9, <3>1, <3>2, Zenon DEF Apart
    <3>3. CASE x # mbox[c][n]
      BY <1>7, <1>8, <3>1, <3>3, Zenon DEF Apart
    <3> QED  BY <3>2, <3>3, Zenon
  <2> QED  BY <2>1, <2>2, Zenon DEF HadOnce
<1>11. Accounted'
  <2> SUFFICES ASSUME NEW x \in Cpu
               PROVE  /\ pending[x] = Unanswered(x)'
                      /\ snd[x] = "out" => InMbox(x)' = {} /\ Handled(x)' = {}
    BY <1>2, Zenon DEF Accounted
  <2>1. /\ pending[x] = Unanswered(x)
        /\ snd[x] = "out" => InMbox(x) = {} /\ Handled(x) = {}
    BY <1>1, Zenon DEF Accounted
  <2>2. CASE x = mbox[c][n]
    <3>1. snd[x] # "out"
      BY <1>9, <2>1, <2>2, Zenon
    <3>2. Cardinality(InMbox(x)') = Cardinality(InMbox(x)) - 1
      BY <1>1, <1>9, <2>2, SetsOfCpus, CountLess, Zenon
    <3>3. Cardinality(Handled(x)') = Cardinality(Handled(x)) + 1
      BY <1>1, <1>9, <2>2, SetsOfCpus, CountMore, Zenon
    <3>4. Cardinality(Unsent(x)') = Cardinality(Unsent(x))
      BY <1>7, Zenon
    <3>5. Unanswered(x)' = Unanswered(x)
      BY <1>1, <3>2, <3>3, <3>4, SetsOfCpus DEF Unanswered
    <3> QED  BY <2>1, <3>1, <3>5, Zenon
  <2>3. CASE x # mbox[c][n]
    BY <1>7, <1>8, <2>1, <2>3, Zenon DEF Unanswered
  <2> QED  BY <2>2, <2>3, Zenon
<1> QED  BY <1>5, <1>6, <1>10, <1>11, Zenon DEF IpiInv

\* The handler answers: the counter of the message goes down, and the handler
\* has no message.
LEMMA AckInv ==
    ASSUME IpiInv, NEW c \in Cpu, Ack(c)
    PROVE  IpiInv'
<1> DEFINE m == msg[c]
<1>1. /\ IpiTypeOK /\ HandlersHold /\ SendersSend /\ HadOnce /\ Accounted
  BY Zenon DEF IpiInv
<1>2. /\ snd' = snd /\ targets' = targets /\ try' = try /\ mbox' = mbox /\ slot' = slot
      /\ hdl[c] = "func" /\ hdl' = [hdl EXCEPT ![c] = "get"]
      /\ pending' = [pending EXCEPT ![m] = @ - 1] /\ msg' = [msg EXCEPT ![c] = NoMsg]
  BY Zenon DEF sender, Ack, Handler
<1>3. m \in Cpu
  BY <1>1, <1>2, Zenon DEF IpiTypeOK, HandlersHold
<1>4. /\ msg'[c] = NoMsg /\ \A e \in Cpu : e # c => msg'[e] = msg[e] /\ hdl'[e] = hdl[e]
      /\ hdl'[c] = "get" /\ pending[m] \in Int
      /\ pending'[m] = pending[m] - 1 /\ \A x \in Cpu : x # m => pending'[x] = pending[x]
  BY <1>1, <1>2, <1>3, Zenon DEF IpiTypeOK
<1>5. IpiTypeOK'
  <2>1. pending' \in [Cpu -> Int]
    <3>1. pending \in [Cpu -> Int]
      BY <1>1, Zenon DEF IpiTypeOK
    <3>2. pending' = [pending EXCEPT ![m] = pending[m] - 1] /\ pending[m] - 1 \in Int
      BY <1>2, <1>4
    <3> QED  BY <3>1, <3>2, Zenon
  <2>2. msg' \in [Cpu -> Cpu \cup {NoMsg}] /\ hdl' \in [Cpu -> {"off", "swap", "get", "func"}]
    BY <1>1, <1>2, Zenon DEF IpiTypeOK
  <2> QED  BY <1>1, <1>2, <2>1, Zenon DEF IpiTypeOK
<1>6. HandlersHold' /\ SendersSend'
  <2>1. hdl'[c] # "func"
    BY <1>4, Zenon
  <2>2. HandlersHold'
    BY <1>1, <1>4, Zenon DEF HandlersHold
  <2>3. SendersSend'
    BY <1>1, <1>2, Zenon DEF SendersSend
  <2> QED  BY <2>2, <2>3, Zenon
<1>7. \A x \in Cpu : Unsent(x)' = Unsent(x) /\ InMbox(x)' = InMbox(x)
  BY <1>2, Zenon DEF Unsent, ci, InMbox
<1>8. \A x \in Cpu : \A e \in Cpu : msg'[e] = x <=> msg[e] = x /\ e # c
  BY <1>4, IpiAssumption, Zenon
<1>9. \A x \in Cpu : Handled(x)' = Handled(x) \ {c}
  BY <1>8, Zenon DEF Handled
<1>10. \A x \in Cpu : c \in Handled(x) <=> x = m
  BY Zenon DEF Handled
<1>11. HadOnce'
  <2>1. OneSlot'
    BY <1>1, <1>2, Zenon DEF HadOnce, OneSlot
  <2>2. ASSUME NEW x \in Cpu, NEW e \in Cpu PROVE Apart(x, e)'
    <3>1. Apart(x, e)
      BY <1>1, Zenon DEF HadOnce
    <3>2. Unsent(x)' = Unsent(x) /\ InMbox(x)' = InMbox(x) /\ Handled(x)' \subseteq Handled(x)
      BY <1>7, <1>9, Zenon
    <3> QED  BY <3>1, <3>2, Zenon DEF Apart
  <2> QED  BY <2>1, <2>2, Zenon DEF HadOnce
<1>12. Accounted'
  <2> HIDE DEF m
  <2> SUFFICES ASSUME NEW x \in Cpu
               PROVE  /\ pending'[x] = Unanswered(x)'
                      /\ snd[x] = "out" => InMbox(x)' = {} /\ Handled(x)' = {}
    BY <1>2, Zenon DEF Accounted
  <2>1. /\ pending[x] = Unanswered(x)
        /\ snd[x] = "out" => InMbox(x) = {} /\ Handled(x) = {}
    BY <1>1, Zenon DEF Accounted
  <2>2. snd[x] = "out" => InMbox(x)' = {} /\ Handled(x)' = {}
    BY <1>7, <1>9, <2>1, Zenon
  <2>3. CASE x = m
    <3>1. Cardinality(Handled(x)') = Cardinality(Handled(x)) - 1
      BY <1>1, <1>9, <1>10, <2>3, SetsOfCpus, CountLess, Zenon
    <3>2. Cardinality(Unsent(x)') = Cardinality(Unsent(x)) /\ Cardinality(InMbox(x)') = Cardinality(InMbox(x))
      BY <1>7, Zenon
    <3>3. pending'[x] = pending[x] - 1
      BY <1>4, <2>3, Zenon
    <3>4. Unanswered(x)' = Unanswered(x) - 1
      BY <1>1, <3>1, <3>2, SetsOfCpus DEF Unanswered
    <3> QED  BY <2>1, <2>2, <3>3, <3>4, Zenon
  <2>4. CASE x # m
    <3>1. Handled(x)' = Handled(x)
      BY <1>9, <1>10, <2>4, Zenon
    <3>2. Unanswered(x)' = Unanswered(x)
      BY <1>7, <3>1, Zenon DEF Unanswered
    <3> QED  BY <1>4, <2>1, <2>2, <2>4, <3>2, Zenon
  <2> QED  BY <2>3, <2>4, Zenon
<1> QED  BY <1>5, <1>6, <1>11, <1>12, Zenon DEF IpiInv

\* Every step of a sender and of a handler keeps the invariant.
LEMMA IpiStep == IpiInv /\ [IpiNext]_ipivars => IpiInv'
<1>1. ASSUME IpiInv, UNCHANGED ipivars PROVE IpiInv'
  <2>1. /\ IpiTypeOK /\ HandlersHold /\ SendersSend /\ HadOnce /\ Accounted
    BY <1>1, Zenon DEF IpiInv
  <2>2. UNCHANGED <<mbox, pending, snd, targets, try, hdl, slot, msg>>
    BY <1>1, Zenon DEF ipivars, sender, handler
  <2>3. IpiTypeOK' /\ HandlersHold' /\ SendersSend'
    BY <2>1, <2>2, Zenon DEF IpiTypeOK, HandlersHold, SendersSend
  <2>4. \A x \in Cpu : Unsent(x)' = Unsent(x) /\ Handled(x)' = Handled(x)
    BY <2>2, Zenon DEF Unsent, Handled, ci
  <2>5. HadOnce' /\ Accounted'
    BY <2>1, <2>2, <2>4, Unmoved, Zenon
  <2> QED  BY <2>3, <2>5, Zenon DEF IpiInv
<1>2. ASSUME IpiInv, NEW c \in Cpu, NEW T \in SUBSET (Cpu \ {c}), ipi_multicast(c, T) PROVE IpiInv'
  BY <1>2, MulticastInv, Zenon
<1>3. ASSUME IpiInv, NEW c \in Cpu, put_msg(c) PROVE IpiInv'
  BY <1>3, TryInv, PutInv, Zenon DEF put_msg
<1>4. ASSUME IpiInv, NEW c \in Cpu, ipi_trigger(c) PROVE IpiInv'
  <2> DEFINE left == targets[c] \ {ci(c)}
             on == IF left = {} THEN "wait" ELSE "put"
  <2>1. CASE Sender(c, "test", "or") /\ UNCHANGED <<synchpend, ipi, targets>>
    BY <1>4, <2>1, TestInv, Zenon DEF ipi_trigger
  <2>2. ASSUME NEW p \in {"test", "or"}, Sender(c, p, on), targets' = [targets EXCEPT ![c] = left]
        PROVE  IpiInv'
    <3>1. snd[c] = p
      BY <2>2, Zenon DEF Sender
    <3> QED  BY <1>4, <2>2, <3>1, TriggeredInv, Zenon DEF ipi_trigger
  <2> QED  BY <1>4, <2>1, <2>2, Zenon DEF ipi_trigger
<1>5. ASSUME IpiInv, NEW c \in Cpu, ipi_wait(c) PROVE IpiInv'
  BY <1>5, WaitInv, Zenon
<1>6. ASSUME IpiInv, NEW c \in Cpu, TakeIpi(c) \/ TakePending(c) PROVE IpiInv'
  <2>1. slot \in [Cpu -> Nat \ {0}]
    BY <1>6, Zenon DEF IpiInv, IpiTypeOK
  <2>2. 1 \in Nat \ {0} /\ "off" # "func" /\ "swap" # "func"
    OBVIOUS
  <2>3. slot' \in [Cpu -> Nat \ {0}]
    BY <1>6, <2>1, <2>2, Zenon DEF TakeIpi, TakePending
  <2>4. hdl[c] # "func" /\ \E to \in {"off", "swap", "get"} : hdl' = [hdl EXCEPT ![c] = to]
    BY <1>6, Zenon DEF TakeIpi, TakePending, Handler
  <2>5. UNCHANGED <<mbox, msg, pending, sender>>
    BY <1>6, Zenon DEF TakeIpi, TakePending
  <2> QED  BY <1>6, <2>3, <2>4, <2>5, HandlerInv, Zenon
<1>7. ASSUME IpiInv, NEW c \in Cpu, Get(c) PROVE IpiInv'
  <2>1. slot \in [Cpu -> Nat \ {0}] /\ hdl[c] = "get" /\ UNCHANGED <<pending, sender>>
    BY <1>7, Zenon DEF IpiInv, IpiTypeOK, Get, Handler
  <2>2. CASE slot[c] > IPI_MSG_MAX /\ Handler(c, "get", "off") /\ UNCHANGED <<mbox, slot, msg>>
    <3>1. hdl[c] # "func"
      BY <2>1, Zenon
    <3> QED  BY <1>7, <2>1, <2>2, HandlerInv, Zenon DEF Handler
  <2>3. CASE slot[c] <= IPI_MSG_MAX /\ ~(slot[c] > IPI_MSG_MAX)
    <3>1. slot[c] \in Slot
      BY <2>1, <2>3 DEF Slot
    <3> QED  BY <1>7, <2>3, <3>1, GetInv, Zenon DEF Get, Handler
  <2> QED  BY <1>7, <2>1, <2>2, <2>3, IpiAssumption DEF Get
<1>8. ASSUME IpiInv, NEW c \in Cpu, Ack(c) PROVE IpiInv'
  BY <1>8, AckInv, Zenon
<1> QED  BY <1>1, <1>2, <1>3, <1>4, <1>5, <1>6, <1>7, <1>8, Zenon DEF IpiNext, Send, Handle

\* Interprocessor interrupts: for any CPUs, any number of slots and any number
\* of messages, a message is answered once for each of its targets, and when
\* its sender returns from ipi_wait nobody knows of it any more.
THEOREM MessagesAnswered == IpiSpec => []AnsweredOnce
<1>1. IpiSpec => []IpiInv
  BY IpiInitInv, IpiStep, PTL DEF IpiSpec
<1> QED  BY <1>1, InvAnswered, PTL

=============================================================================
