------------------------ MODULE BridgeMembersProofs -------------------------
(***************************************************************************)
(* Proofs about passive serialization, on its own and under the list of    *)
(* the members of a bridge, for any CPUs, LWPs, members and updates.       *)
(***************************************************************************)
EXTENDS BridgeMembers, FiniteSetTheorems, TLAPS

-----------------------------------------------------------------------------
(* Passive serialization.  A CPU that scans is outside every read section, *)
(* so the sections that were open when an update began are all on CPUs     *)
(* that the update has not seen yet; once it has seen all, in its first    *)
(* round, there are none.                                                  *)

\* What is still open is open now, on a CPU that is not scanning.
OpenIsRead == /\ \A p \in Psz : before[p] \subseteq reading
              /\ \A c \in reading : sw[c] = "off"

\* The CPUs that an update in its first round has seen have left the sections
\* that it waits for; in the second round, and afterwards, there are none.
Rounds == /\ Cpu # {} => psz_queue0 \cap psz_queue1 = {}
          /\ \A p \in psz_queue0 : before[p] \cap psz_pass[p] = {}
          /\ \A p \in psz_queue0 \cup psz_queue1 : psz_target[p] = Cpu
          /\ \A p \in psz_queue1 : before[p] = {}
          /\ \A p \in Psz : psz_target[p] = {} => before[p] = {}
          /\ \A p \in Psz : upd[p] = "idle" => psz_target[p] = {}
          /\ \A p \in Psz \ (psz_queue0 \cup psz_queue1) : psz_target[p] = {}

\* The type invariant without the counter.
Types == /\ psz_queue0 \subseteq Psz /\ psz_queue1 \subseteq Psz
         /\ psz_target \in [Psz -> SUBSET Cpu]
         /\ psz_pass \in [Psz -> SUBSET Cpu]
         /\ upd \in [Psz -> {"idle", "xcall", "wait"}]
         /\ xcall \in [Psz -> SUBSET Cpu]
         /\ sw \in [Cpu -> {"off", "scan"}]
         /\ reading \subseteq Cpu
         /\ before \in [Psz -> SUBSET Cpu]

IInv == Types /\ OpenIsRead /\ Rounds

-----------------------------------------------------------------------------
\* The initial states of pserialize_init satisfy the invariant.
LEMMA InitIInv == PszInit => IInv
BY DEF PszInit, IInv, Types, OpenIsRead, Rounds

\* Queueing an update in pserialize_perform keeps the invariant.
LEMMA PerformIInv == ASSUME IInv, NEW p \in Psz, Perform(p) PROVE IInv'
<1> USE DEF IInv, Perform
<1>1. Cpu = {} \/ p \notin psz_queue0 \cup psz_queue1
  BY Zenon DEF Rounds
<1>2. Types'
  BY Zenon DEF Types
<1>3. OpenIsRead'
  BY DEF OpenIsRead
<1>4. Rounds'
  <2>1. before'[p] = reading /\ \A q \in Psz \ {p} : before'[q] = before[q]
    BY Zenon DEF Types
  <2>2. psz_pass'[p] = {} /\ \A q \in Psz \ {p} : psz_pass'[q] = psz_pass[q]
    BY Zenon DEF Types
  <2>3. psz_target'[p] = Cpu /\ \A q \in Psz \ {p} : psz_target'[q] = psz_target[q]
    BY Zenon DEF Types
  <2>4. upd'[p] = "xcall" /\ \A q \in Psz \ {p} : upd'[q] = upd[q]
    BY Zenon DEF Types
  <2>5. CASE Cpu = {}
    BY DEF Rounds, Types
  <2>6. CASE Cpu # {} /\ p \notin psz_queue0 \cup psz_queue1
    BY <2>1 DEF Rounds, Types
  <2> QED BY <1>1, <2>5, <2>6, Zenon
<1> QED BY <1>2, <1>3, <1>4, Zenon

\* A scan of the queues in pserialize_switchpoint keeps the invariant.
LEMMA ScanIInv == ASSUME IInv, NEW c \in Cpu, Scan(c) PROVE IInv'
<1> DEFINE one == {p \in psz_queue1 : Passed(p, c)}
           zero == {p \in psz_queue0 : Passed(p, c)}
<1>1. \A p \in Psz : c \notin before[p]
  BY Zenon DEF IInv, OpenIsRead, Scan
<1>2. \A p \in zero : before[p] = {}
  BY <1>1 DEF IInv, Types, Rounds, Passed
<1>3. /\ psz_queue0' = psz_queue0 \ zero
      /\ psz_queue1' = (psz_queue1 \ one) \cup zero
      /\ psz_pass' = [p \in Psz |->
            IF p \in one \cup zero THEN {}
            ELSE IF p \in psz_queue0 \cup psz_queue1
                 THEN psz_pass[p] \cup {c} ELSE psz_pass[p]]
      /\ psz_target' = [p \in Psz |-> IF p \in one THEN {} ELSE psz_target[p]]
      /\ sw' = [sw EXCEPT ![c] = "off"]
      /\ UNCHANGED <<upd, xcall, reading, before>>
  BY Zenon DEF Scan, Third
<1>4. one \subseteq psz_queue1 /\ zero \subseteq psz_queue0
  OBVIOUS
<1> HIDE DEF one, zero
<1>5. Types'
  BY <1>3, <1>4, Zenon DEF IInv, Types
<1>6. OpenIsRead'
  BY <1>3 DEF IInv, OpenIsRead
<1>7. Rounds'
  <2>1. psz_queue0' \cap psz_queue1' = {}
    BY <1>3, Zenon DEF IInv, Rounds
  <2>2. \A p \in psz_queue0' : before'[p] \cap psz_pass'[p] = {}
    BY <1>1, <1>3 DEF IInv, Types, Rounds
  <2>3. \A p \in psz_queue0' \cup psz_queue1' : psz_target'[p] = Cpu
    BY <1>3, <1>4, Zenon DEF IInv, Types, Rounds
  <2>4. \A p \in psz_queue1' : before'[p] = {}
    BY <1>2, <1>3, Zenon DEF IInv, Rounds
  <2>5. \A p \in Psz : psz_target'[p] = {} => before'[p] = {}
    BY <1>3, <1>4, Zenon DEF IInv, Rounds
  <2>6. \A p \in Psz : upd'[p] = "idle" => psz_target'[p] = {}
    BY <1>3, Zenon DEF IInv, Rounds
  <2>7. \A p \in Psz \ (psz_queue0' \cup psz_queue1') : psz_target'[p] = {}
    BY <1>3, Zenon DEF IInv, Rounds
  <2> QED BY <2>1, <2>2, <2>3, <2>4, <2>5, <2>6, <2>7, Zenon DEF Rounds
<1> QED BY <1>5, <1>6, <1>7, Zenon DEF IInv

\* Every step of a reader, of pserialize_perform and of
\* pserialize_switchpoint keeps the invariant.
LEMMA NextIInv == IInv /\ [PszNext]_pszvars => IInv'
<1> SUFFICES ASSUME IInv, [PszNext]_pszvars PROVE IInv'
  OBVIOUS
<1>1. ASSUME NEW p \in Psz, Perform(p) PROVE IInv'
  BY <1>1, PerformIInv, Zenon
<1>2. ASSUME NEW p \in Psz, Broadcast(p) PROVE IInv'
  BY <1>2, Zenon DEF Broadcast, pszobj, IInv, Types, OpenIsRead, Rounds
<1>3. ASSUME NEW p \in Psz, Check(p) PROVE IInv'
  BY <1>3, Zenon DEF Check, pszobj, IInv, Types, OpenIsRead, Rounds
<1>4. ASSUME NEW c \in Cpu, pserialize_read_enter(c) PROVE IInv'
  BY <1>4 DEF pserialize_read_enter, MaySwitch, pszobj, IInv, Types, OpenIsRead, Rounds
<1>5. ASSUME NEW c \in Cpu, pserialize_read_exit(c) PROVE IInv'
  BY <1>5 DEF pserialize_read_exit, pszobj, IInv, Types, OpenIsRead, Rounds
<1>6. ASSUME NEW c \in Cpu, Switch(c) PROVE IInv'
  BY <1>6 DEF Switch, Test, MaySwitch, pszobj, IInv, Types, OpenIsRead, Rounds
<1>7. ASSUME NEW c \in Cpu, NEW p \in Psz, Softint(c, p) PROVE IInv'
  BY <1>7 DEF Softint, Test, MaySwitch, pszobj, IInv, Types, OpenIsRead, Rounds
<1>8. ASSUME NEW c \in Cpu, Scan(c) PROVE IInv'
  BY <1>8, ScanIInv, Zenon
<1>9. CASE UNCHANGED pszvars
  BY <1>9, Zenon DEF pszvars, pszobj, IInv, Types, OpenIsRead, Rounds
<1> QED
  BY <1>1, <1>2, <1>3, <1>4, <1>5, <1>6, <1>7, <1>8, <1>9, Zenon DEF PszNext,
     Updater

\* The invariant holds throughout.
THEOREM Invariance == PszSpec => []IInv
BY InitIInv, NextIInv, PTL DEF PszSpec

-----------------------------------------------------------------------------
\* pserialize_perform returns in a step that finds its targets all seen.
LEMMA GraceStep ==
    IInv /\ [PszNext]_pszvars
        => [\A p \in Psz : upd[p] # "idle" /\ upd'[p] = "idle" => before[p] = {}]_pszvars
<1> SUFFICES ASSUME IInv, PszNext, NEW p \in Psz, upd[p] # "idle", upd'[p] = "idle"
             PROVE  before[p] = {}
  OBVIOUS
<1>1. \E q \in Psz : Check(q) /\ q = p
  BY Zenon DEF PszNext, Updater, Perform, Broadcast, Check,
     pserialize_read_enter, pserialize_read_exit, Switch, Softint, Scan, IInv,
     Types
<1> QED BY <1>1 DEF Check, IInv, Rounds

\* pserialize_perform returns only when the read sections that were open
\* when it was called have ended.
THEOREM GraceHolds == PszSpec => GracePeriod
BY GraceStep, Invariance, PTL DEF PszSpec, GracePeriod

-----------------------------------------------------------------------------
\* The counter that pserialize_switchpoint tests without the lock.
Counted == psz_work_todo = Cardinality(psz_queue0 \cup psz_queue1)

\* Every step keeps the counter right.
LEMMA NextCounted ==
    ASSUME IsFiniteSet(Psz), Cpu # {}, IInv, Counted, [PszNext]_pszvars
    PROVE  Counted'
<1> DEFINE Q == psz_queue0 \cup psz_queue1
<1>0. IsFiniteSet(Q)
  BY FS_Subset, Zenon DEF IInv, Types
<1>1. ASSUME NEW p \in Psz, Perform(p) PROVE Counted'
  <2>1. p \notin Q
    BY <1>1, Zenon DEF Perform, IInv, Rounds
  <2>2. Q' = Q \cup {p} /\ psz_work_todo' = psz_work_todo + 1
    BY <1>1, Zenon DEF Perform
  <2>3. Cardinality(Q \cup {p}) = Cardinality(Q) + 1
    BY <1>0, <2>1, FS_AddElement, Zenon
  <2> QED BY <2>2, <2>3, Zenon DEF Counted
<1>2. ASSUME NEW c \in Cpu, Scan(c) PROVE Counted'
  <2> DEFINE one == {p \in psz_queue1 : Passed(p, c)}
             zero == {p \in psz_queue0 : Passed(p, c)}
  <2>1. /\ psz_queue0' = psz_queue0 \ zero
        /\ psz_queue1' = (psz_queue1 \ one) \cup zero
        /\ psz_work_todo' = psz_work_todo - Cardinality(one)
    BY <1>2, Zenon DEF Scan, Third
  <2>2. one \subseteq psz_queue1 /\ zero \subseteq psz_queue0
    OBVIOUS
  <2> HIDE DEF one, zero
  <2>3. Q' = Q \ one /\ Q \cap one = one
    BY <2>1, <2>2, Zenon DEF IInv, Rounds
  <2>4. Cardinality(Q \ one) = Cardinality(Q) - Cardinality(Q \cap one)
    BY <1>0, FS_Difference, Zenon
  <2> QED BY <2>1, <2>3, <2>4, Zenon DEF Counted
<1>3. ASSUME UNCHANGED <<psz_queue0, psz_queue1, psz_work_todo>> PROVE Counted'
  BY <1>3, Zenon DEF Counted
<1> QED
  BY <1>1, <1>2, <1>3, Zenon DEF PszNext, Updater, Broadcast, Check,
     pserialize_read_enter, pserialize_read_exit, Switch, Softint, pszobj,
     pszvars

\* The queues, the counter that is tested without the lock and the targets
\* agree: no update is passed by, and none is done twice.  (Some CPU runs,
\* and finitely many pserialize_t objects exist.)
THEOREM QueuesHold == IsFiniteSet(Psz) /\ Cpu # {} => (PszSpec => []QueuesAgree)
<1> SUFFICES ASSUME IsFiniteSet(Psz), Cpu # {} PROVE PszSpec => []QueuesAgree
  OBVIOUS
<1>1. PszInit => Counted
  BY FS_EmptySet, Zenon DEF PszInit, Counted
<1>2. IInv /\ Counted /\ [PszNext]_pszvars => Counted'
  BY NextCounted, Zenon
<1>3. IInv /\ Counted => QueuesAgree
  BY Zenon DEF IInv, Rounds, Counted, QueuesAgree
<1> QED BY <1>1, <1>2, <1>3, Invariance, PTL DEF PszSpec

-----------------------------------------------------------------------------
(* The members of a bridge.  A walk along the list meets only members that *)
(* are on it, or that were taken off it after its read section had begun;  *)
(* their deleter waits for that section, still with BRIDGE_LOCK.  So who   *)
(* acquires a reference does so before psref_target_destroy begins, and no *)
(* CPU that has denied having one gets one later.                          *)

\* A broadcast goes on from a member that may be off the list, so it is safe
\* only when a single LWP deletes (see the run bridge_broadcast).
OneDeletes == \A d, e \in Lwp : role[d] = "delete" /\ role[e] = "delete" => d = e
Calm == (\A l \in Lwp : role[l] # "broadcast") \/ OneDeletes

\* Where an LWP is that has a reference, or has just given it back; and
\* where it is while it deletes.
Referring == {"held", "hold", "again", "released", "removed"}
Reading == {"section", "found"} \cup Referring
Deleting == {"unlinked", "perform", "destroy"}

MTypes == /\ PR!TypeOK
          /\ ple_next \in [Member \cup {Null} -> Member \cup {Null}]
          /\ state \in [Member -> {"linked", "unlinked", "free"}]
          /\ bip_lock \in Lwp \cup {Null}
          /\ role \in [Lwp -> Role]
          /\ pc \in [Lwp -> Reading \cup Deleting \cup {"out", "freed"}]
          /\ cpu \in [Lwp -> Cpu \cup {Null}]
          /\ bif \in [Lwp -> Member \cup {Null}]

\* A reader is bound to a CPU, which knows of its read section; it is on the
\* list of that CPU as long as it has its reference.
Reader(l) ==
    /\ pc[l] \in Reading => role[l] \in {"lookup", "broadcast"} /\ cpu[l] \in Cpu
    /\ pc[l] \in {"again", "released"} => role[l] = "broadcast"
    /\ pc[l] \in InSection => cpu[l] \in reading
    /\ pc[l] \in Reading \ {"section"} => bif[l] # Null
    /\ pc[l] \in {"held", "hold", "again"} => <<l, bif[l]>> \in pcpu_head[cpu[l]]

\* No CPU has two LWPs that do not let it go.
Apart == \A l, k \in Lwp : Pinned(l) /\ Pinned(k) /\ cpu[l] = cpu[k] => l = k

\* Each member that is off the list has its deleter, and BRIDGE_LOCK is held
\* until the read sections have ended.
Deleters ==
    /\ \A d \in Lwp : /\ pc[d] \in Deleting => /\ role[d] = "delete" /\ bif[d] # Null
                                               /\ state[bif[d]] = "unlinked"
                      /\ pc[d] \in {"unlinked", "perform"} <=> bip_lock = d
                      /\ pc[d] \in {"out", "freed"} => bif[d] = Null
    /\ \A d, e \in Lwp : pc[d] \in Deleting /\ pc[e] \in Deleting /\ bif[d] = bif[e]
                            => d = e
    /\ \A m \in Member : state[m] = "unlinked"
                            => \E d \in Lwp : bif[d] = m /\ pc[d] \in Deleting

\* The deleter of m still has BRIDGE_LOCK.
Early(m) == \E d \in Lwp : bif[d] = m /\ pc[d] \in {"unlinked", "perform"}

\* From a member that is on the list, or that a reader may go on from, the
\* next pointer leads to one that is on it.
Leads(m) == ple_next[m] # Null => state[ple_next[m]] = "linked"
Followed(m) == state[m] = "linked" \/ Early(m) \/ (OneDeletes /\ state[m] = "unlinked")
Points == Leads(Null) /\ \A m \in Member : Followed(m) => Leads(m)

\* The list has no cycle: its next pointers go along a strict order.
Along(R) ==
    /\ \A m \in Member : <<m, m>> \notin R
    /\ \A a, b, c \in Member : <<a, b>> \in R /\ <<b, c>> \in R => <<a, c>> \in R
    /\ \A m \in Member : state[m] = "linked" /\ ple_next[m] # Null
                            => <<m, ple_next[m]>> \in R
Ordered == \E R \in SUBSET (Member \X Member) : Along(R)

\* A reader without a reference is at a member that is on the list, or that
\* was taken off it after its read section had begun.
Visible(l) ==
    pc[l] \in {"section", "found"} /\ bif[l] # Null =>
        \/ state[bif[l]] = "linked"
        \/ \E d \in Lwp : /\ bif[d] = bif[l]
                          /\ \/ pc[d] = "unlinked"
                             \/ pc[d] = "perform" /\ cpu[l] \in before[iflist]

\* A target begins to be destroyed after that.
Targets ==
    /\ \A m \in Member : state[m] = "linked" \/ Early(m)
            => dst[m] = "idle" /\ prt_class[m] /\ ~prt_draining[m]
    /\ \A m \in Member : state[m] = "free" => dst[m] \in {"idle", "done"}

\* What psreffed_p has found out: nobody refers to a member from a CPU that
\* has denied it, and in the end nobody does.
Drained ==
    \A l \in Lwp : pc[l] \in Referring =>
        /\ state[bif[l]] # "free"
        /\ dst[bif[l]] # "done"
        /\ dst[bif[l]] = "polling" /\ ~ret[bif[l]] => cpu[l] \in asked[bif[l]]

RInv == IInv /\ MTypes /\ (\A l \in Lwp : Reader(l)) /\ Apart
BInv == /\ RInv /\ Calm /\ (\A l \in Lwp : Visible(l))
        /\ Deleters /\ Points /\ Ordered /\ Targets /\ Drained

-----------------------------------------------------------------------------
\* In the initial states of a bridge nobody reads.
LEMMA InitRInv == Init => RInv
<1> SUFFICES ASSUME Init PROVE RInv
  OBVIOUS
<1> USE BridgeAssumption
<1>1. IInv
  BY InitIInv, Zenon DEF Init
<1>2. MTypes
  BY Zenon DEF Init, PR!Init, MTypes, PR!TypeOK
<1>3. Apart /\ \A l \in Lwp : Reader(l)
  BY Zenon DEF Init, Apart, Reader, Reading, Referring, InSection, Pinned
<1> QED BY <1>1, <1>2, <1>3, Zenon DEF RInv

\* And there are no members.
LEMMA InitBInv == Init /\ Calm => BInv
<1> SUFFICES ASSUME Init, Calm PROVE BInv
  OBVIOUS
<1> USE BridgeAssumption
<1>1. RInv
  BY InitRInv, Zenon
<1>2. \A l \in Lwp : Visible(l)
  BY Zenon DEF Init, Visible
<1>3. Deleters
  BY Zenon DEF Init, Deleters, Deleting
<1>4. Points
  BY Zenon DEF Init, Points, Leads
<1>5. Along({})
  BY Zenon DEF Init, Along
<1>6. Targets /\ Drained
  BY Zenon DEF Init, PR!Init, Targets, Drained, Early, Referring
<1> QED BY <1>1, <1>2, <1>3, <1>4, <1>5, <1>6, Zenon DEF BInv, Ordered

\* Every step of the bridge is one of passive serialization, or leaves it alone.
LEMMA PszSteps == RInv /\ [Next]_vars => [PszNext]_pszvars
<1> SUFFICES ASSUME RInv, [Next]_vars PROVE [PszNext]_pszvars
  OBVIOUS
<1> USE DEF PszNext
<1>1. ASSUME NEW l \in Lwp, Read(l) PROVE [PszNext]_pszvars
  BY <1>1, Zenon DEF Read, Found, bridge_acquire_member, Exit, Reenter,
     Remove, Notify, RInv, Reader, Reading, Referring
<1>2. ASSUME NEW l \in Lwp, Delete(l) PROVE [PszNext]_pszvars
  BY <1>2, BridgeAssumption, Zenon DEF Delete, BRIDGE_PSZ_PERFORM, Unlock,
     Free, Relock
<1>3. ASSUME NEW l \in Lwp, NEW c \in Cpu,
             Enter(l, c) \/ \E m \in Member : bridge_lookup_member_if(l, c, m)
      PROVE  [PszNext]_pszvars
  BY <1>3, Zenon DEF Enter, bridge_lookup_member_if
<1>4. ASSUME NEW d \in Lwp, NEW m \in Member, Unlink(d, m) PROVE [PszNext]_pszvars
  BY <1>4, Zenon DEF Unlink
<1>5. ASSUME NEW m \in Member, bridge_ioctl_add(m) \/ Destroyer(m)
      PROVE  [PszNext]_pszvars
  BY <1>5, Zenon DEF bridge_ioctl_add, Destroyer
<1>6. CASE Performing
  BY <1>6, BridgeAssumption, Zenon DEF Performing
<1>7. ASSUME NEW c \in Cpu, \/ CpuSwitches(c) \/ CpuScans(c) \/ CpuSoftint(c)
                            \/ \E m \in Member : XcThread(c, m)
      PROVE  [PszNext]_pszvars
  BY <1>7, BridgeAssumption, Zenon DEF CpuSwitches, CpuScans, CpuSoftint,
     XcThread
<1>8. CASE UNCHANGED vars
  BY <1>8, Zenon DEF vars
<1> QED BY <1>1, <1>2, <1>3, <1>4, <1>5, <1>6, <1>7, <1>8, Zenon DEF Next

\* The steps of a reader keep readers where they are known to be.
LEMMA ReadRInv == ASSUME RInv, IInv', NEW l \in Lwp, Read(l) PROVE RInv'
<1> USE DEF RInv, Goto
<1>1. CASE Found(l)
  <2>1. MTypes'
    BY <1>1 DEF Found, MTypes, PR!TypeOK, prefvars, members, Reading
  <2>2. (\A k \in Lwp : Reader(k))' /\ Apart'
    <3>1. ASSUME NEW k \in Lwp PROVE Reader(k)'
      <4>1. CASE k = l
        BY <1>1, <4>1, Zenon DEF Found, MTypes, Reader, Reading, InSection,
           pszvars
      <4>2. CASE k # l
        BY <1>1, <4>2, Zenon DEF Found, MTypes, Reader, pszvars, prefvars
      <4> QED BY <4>1, <4>2, Zenon
    <3>2. Apart'
      BY <1>1 DEF Found, MTypes, Apart, Pinned, InSection
    <3> QED BY <3>1, <3>2, Zenon
  <2> QED BY <2>1, <2>2, Zenon
<1>2. CASE bridge_acquire_member(l)
  <2>1. MTypes'
    <3>1. cpu[l] \in Cpu /\ bif[l] \in Member
      BY <1>2, Zenon DEF bridge_acquire_member, MTypes, Reader, Reading
    <3> QED BY <1>2, <3>1 DEF bridge_acquire_member, PR!psref_acquire, PR!drain, MTypes,
            PR!TypeOK, members, Reading, Referring
  <2>2. (\A k \in Lwp : Reader(k))' /\ Apart'
    BY <1>2 DEF bridge_acquire_member, PR!psref_acquire, MTypes, PR!TypeOK,
       Reader, Apart, Pinned, Reading, InSection, pszvars
  <2> QED BY <2>1, <2>2, Zenon
<1>3. CASE Exit(l)
  <2>1. MTypes'
    BY <1>3, Zenon DEF Exit, MTypes, PR!TypeOK, prefvars, members, Reading,
       Referring
  <2>2. (\A k \in Lwp : Reader(k))' /\ Apart'
    BY <1>3 DEF Exit, pserialize_read_exit, MTypes, Reader, Apart, Pinned, Reading,
       Referring, InSection, prefvars
  <2> QED BY <2>1, <2>2, Zenon
<1>4. CASE Reenter(l)
  <2>1. MTypes'
    BY <1>4, Zenon DEF Reenter, MTypes, PR!TypeOK, prefvars, members, Reading,
       Referring
  <2>2. (\A k \in Lwp : Reader(k))' /\ Apart'
    BY <1>4 DEF Reenter, Runs, pserialize_read_enter, MTypes, Reader, Apart,
       Pinned, Reading, Referring, prefvars
  <2> QED BY <2>1, <2>2, Zenon
<1>5. CASE Remove(l)
  <2>1. MTypes'
    BY <1>5, Zenon DEF Remove, PR!LIST_REMOVE, PR!drain, MTypes, PR!TypeOK,
       members, Reading, Referring
  <2>2. (\A k \in Lwp : Reader(k))' /\ Apart'
    BY <1>5 DEF Remove, Runs, PR!LIST_REMOVE, MTypes, Reader, Apart, Pinned,
       Reading, Referring, InSection, pszvars
  <2> QED BY <2>1, <2>2, Zenon
<1>6. CASE Notify(l)
  <2>1. MTypes'
    BY <1>6 DEF Notify, PR!Notify, PR!lists, MTypes, PR!TypeOK, members, Reading
  <2>2. (\A k \in Lwp : Reader(k))' /\ Apart'
    <3>1. ASSUME NEW k \in Lwp PROVE Reader(k)'
      <4>1. CASE k = l
        BY <1>6, <4>1, Zenon DEF Notify, MTypes, Reader, Reading, Referring,
           InSection, pszvars
      <4>2. CASE k # l
        BY <1>6, <4>2 DEF Notify, PR!Notify, PR!lists, MTypes, Reader, pszvars
      <4> QED BY <4>1, <4>2, Zenon
    <3>2. Apart'
      BY <1>6 DEF Notify, MTypes, Apart, Pinned, InSection
    <3> QED BY <3>1, <3>2, Zenon
  <2> QED BY <2>1, <2>2, Zenon
<1> QED BY <1>1, <1>2, <1>3, <1>4, <1>5, <1>6, Zenon DEF Read

\* So does entering a read section.
LEMMA EnterRInv ==
    ASSUME RInv, IInv', NEW l \in Lwp, NEW c \in Cpu,
           Enter(l, c) \/ \E m \in Member : bridge_lookup_member_if(l, c, m)
    PROVE  RInv'
<1> USE BridgeAssumption DEF RInv, Goto, Enter, bridge_lookup_member_if
<1>1. MTypes'
  BY DEF MTypes, PR!TypeOK, prefvars, members, Reading
<1>2. (\A k \in Lwp : Reader(k))' /\ Apart'
  BY DEF pserialize_read_enter, MTypes, Reader, Apart, Pinned, Reading,
     Referring, prefvars
<1> QED BY <1>1, <1>2, Zenon

\* So do the steps of an LWP that adds or deletes a member.
LEMMA DeleteRInv ==
    ASSUME RInv, IInv',
           \/ \E d \in Lwp : Delete(d) \/ \E m \in Member : Unlink(d, m)
           \/ \E m \in Member : bridge_ioctl_add(m)
    PROVE  RInv'
<1> USE BridgeAssumption DEF RInv, Goto
<1>1. ASSUME NEW d \in Lwp, Delete(d) PROVE RInv'
  <2>1. MTypes'
    BY <1>1, ZenonT(30) DEF Delete, BRIDGE_PSZ_PERFORM, Unlock, PR!Drain, PR!lists, Free, Relock,
       MTypes, PR!TypeOK, prefvars, members, Reading, Deleting
  <2>2. (\A k \in Lwp : Reader(k))' /\ Apart'
    BY <1>1 DEF Delete, BRIDGE_PSZ_PERFORM, Perform, Unlock, PR!Drain, PR!lists, Free,
       Relock, MTypes, Reader, Apart, Pinned, Reading, Referring, InSection, prefvars,
       pszvars
  <2> QED BY <2>1, <2>2, Zenon
<1>2. ASSUME NEW d \in Lwp, NEW m \in Member, Unlink(d, m) PROVE RInv'
  <2>1. PSLIST_WRITER_REMOVE(m) \in [Member \cup {Null} -> Member \cup {Null}]
    BY Zenon DEF PSLIST_WRITER_REMOVE, MTypes
  <2>2. MTypes'
    BY <1>2, <2>1, Zenon DEF Unlink, MTypes, PR!TypeOK, prefvars, Deleting
  <2>3. (\A k \in Lwp : Reader(k))' /\ Apart'
    BY <1>2 DEF Unlink, Reader, Apart, Pinned, Reading, Referring, InSection,
       prefvars, pszvars
  <2> QED BY <2>2, <2>3, Zenon
<1>3. ASSUME NEW m \in Member, bridge_ioctl_add(m) PROVE RInv'
  <2>1. MTypes'
    BY <1>3, Zenon DEF bridge_ioctl_add, PR!psref_target_init, PR!lists,
       MTypes, PR!TypeOK, lwps
  <2>2. (\A k \in Lwp : Reader(k))' /\ Apart'
    <3>1. UNCHANGED <<reading, pcpu_head, role, pc, cpu, bif>>
      BY <1>3, Zenon DEF bridge_ioctl_add, PR!psref_target_init, PR!lists,
         lwps, pszvars
    <3> QED BY <3>1, Zenon DEF Reader, Apart, Pinned
  <2> QED BY <2>1, <2>2, Zenon
<1> QED BY <1>1, <1>2, <1>3, Zenon

\* So do the steps of passive serialization and of passive references in
\* between.
LEMMA BetweenRInv ==
    ASSUME RInv, IInv',
           \/ Performing \/ UNCHANGED vars
           \/ \E c \in Cpu : \/ CpuSwitches(c) \/ CpuScans(c) \/ CpuSoftint(c)
                             \/ \E m \in Member : XcThread(c, m)
           \/ \E m \in Member : Destroyer(m)
    PROVE  RInv'
<1> USE DEF RInv
<1>1. CASE Performing \/ \E c \in Cpu : CpuSwitches(c) \/ CpuScans(c) \/ CpuSoftint(c)
  <2>1. UNCHANGED <<reading, prefvars, members, bip_lock, lwps>>
    BY <1>1, Zenon DEF Performing, Updater, Broadcast, Check, CpuSwitches,
       Switch, CpuScans, Scan, CpuSoftint, Softint
  <2> QED BY <2>1, Zenon DEF MTypes, PR!TypeOK, Reader, Apart, Pinned,
    prefvars, members, lwps
<1>2. ASSUME NEW m \in Member, Destroyer(m) \/ \E c \in Cpu : XcThread(c, m) PROVE RInv'
  <2>1. PR!TypeOK' /\ UNCHANGED <<reading, pcpu_head, members, bip_lock, lwps>>
    <3>1. \A c \in Cpu : PR!Answer(c, m) \in BOOLEAN
      BY Zenon DEF PR!Answer
    <3>2. CASE \E c \in Cpu : XcThread(c, m)
      BY <3>1, <3>2 DEF XcThread, PR!psreffed_p_xc, PR!lists, MTypes, PR!TypeOK, pszvars
    <3>3. CASE Destroyer(m)
      <4>1. CASE PR!Poll(m)
        BY <3>3, <4>1, Zenon DEF Destroyer, PR!Poll, PR!lists, MTypes,
           PR!TypeOK, pszvars
      <4>2. CASE PR!Polled(m)
        BY <3>3, <4>2, Zenon DEF Destroyer, PR!Polled, PR!lists, MTypes,
           PR!TypeOK, pszvars
      <4>3. CASE PR!Timeout(m)
        BY <3>3, <4>3, Zenon DEF Destroyer, PR!Timeout, PR!lists, MTypes,
           PR!TypeOK, pszvars
      <4> QED BY <3>3, <4>1, <4>2, <4>3, Zenon DEF Destroyer
    <3> QED BY <1>2, <3>2, <3>3, Zenon
  <2> QED BY <2>1, Zenon DEF MTypes, Reader, Apart, Pinned, members, lwps
<1>3. CASE UNCHANGED vars
  BY <1>3, Zenon DEF vars, pszvars, MTypes, PR!TypeOK, Reader, Apart, Pinned,
     prefvars, members, lwps
<1> QED BY <1>1, <1>2, <1>3, Zenon

\* Every step keeps readers where they are known to be.
LEMMA NextRInv == RInv /\ [Next]_vars => RInv'
<1> SUFFICES ASSUME RInv, [Next]_vars PROVE RInv'
  OBVIOUS
<1>1. IInv'
  BY PszSteps, NextIInv, Zenon DEF RInv
<1> QED BY <1>1, ReadRInv, EnterRInv, DeleteRInv, BetweenRInv, Zenon DEF Next

\* Under the list of members too, pserialize_perform returns only when the
\* read sections that were open when it was called have ended.
THEOREM MembersGrace == Spec => GracePeriod
<1>1. Init => RInv
  BY InitRInv, Zenon
<1>2. RInv => IInv
  BY Zenon DEF RInv
<1> QED BY <1>1, <1>2, NextRInv, PszSteps, GraceStep, PTL DEF Spec, GracePeriod

\* Who has found a member is at it until the reference is given back.
LEMMA AtMember ==
    ASSUME RInv, NEW l \in Lwp, pc[l] \in Referring \cup {"found"} PROVE bif[l] \in Member
<1>1. pc[l] \in Reading \ {"section"}
  BY Zenon DEF Reading, Referring
<1> QED BY <1>1, Zenon DEF RInv, Reader, MTypes

\* A step of a reader, who is no deleter, leaves alone what is known of the
\* list and of the deleters.
LEMMA ReaderFrame ==
    ASSUME BInv, RInv', NEW l \in Lwp, NEW p, NEW b,
           pc[l] \in Reading \cup {"out"}, role[l] # "delete",
           p \in Reading \cup {"out"}, p = "out" => b = Null,
           pc' = [pc EXCEPT ![l] = p], bif' = [bif EXCEPT ![l] = b],
           UNCHANGED <<members, bip_lock, role>>
    PROVE  /\ Calm' /\ Deleters' /\ Points' /\ Ordered'
           /\ \A m \in Member : Early(m)' = Early(m)
<1>1. \A k \in Lwp \ {l} : pc'[k] = pc[k] /\ bif'[k] = bif[k]
  BY DEF MTypes
<1>2. pc'[l] = p /\ bif'[l] = b
  BY Zenon DEF RInv, MTypes
<1>3. \A k \in Lwp : pc[k] \in Deleting => k # l /\ pc'[k] = pc[k] /\ bif'[k] = bif[k]
  BY DEF Deleting, Reading, Referring
<1>4. \A k \in Lwp : pc'[k] \in Deleting => k # l /\ pc'[k] = pc[k] /\ bif'[k] = bif[k]
  BY DEF Deleting, Reading, Referring
<1>5. \A m \in Member : Early(m)' = Early(m)
  BY <1>3, <1>4, Zenon DEF Early, Deleting
<1>6. Calm' /\ (OneDeletes' <=> OneDeletes)
  BY Zenon DEF BInv, Calm, OneDeletes
<1>7. Deleters'
  <2>1. ASSUME NEW d \in Lwp
        PROVE  /\ pc'[d] \in Deleting => /\ role'[d] = "delete" /\ bif'[d] # Null
                                         /\ state'[bif'[d]] = "unlinked"
               /\ pc'[d] \in {"unlinked", "perform"} <=> bip_lock' = d
               /\ pc'[d] \in {"out", "freed"} => bif'[d] = Null
    BY <1>2 DEF BInv, Deleters, members, Deleting, Reading, Referring
  <2> QED BY <2>1 DEF BInv, Deleters, members
<1>8. Points'
  BY <1>5, <1>6, Zenon DEF BInv, Points, Followed, Leads, members
<1>9. Ordered'
  BY Zenon DEF BInv, Ordered, Along, members
<1> QED BY <1>5, <1>6, <1>7, <1>8, <1>9, Zenon

\* The targets are as they were if no target but one that is waited for is
\* looked at again.
LEMMA TargetsFrame ==
    ASSUME BInv, \A m \in Member : Early(m)' = Early(m),
           \A m \in Member : dst'[m] = dst[m] \/ (dst[m] = "wait" /\ dst'[m] = "poll"),
           UNCHANGED <<members, prt_class, prt_draining>>
    PROVE  Targets'
BY Zenon DEF BInv, Targets, members

\* The steps of a reader keep the invariant.
LEMMA ReadBInv == ASSUME BInv, RInv', NEW l \in Lwp, Read(l) PROVE BInv'
<1> USE DEF Goto
<1>0. pc[l] \in Reading => role[l] # "delete" /\ cpu[l] \in Cpu
  BY Zenon DEF BInv, RInv, Reader
<1>1. CASE Found(l)
  <2>1. PICK p, b : /\ pc' = [pc EXCEPT ![l] = p] /\ bif' = [bif EXCEPT ![l] = b]
                    /\ p \in {"section", "found"}
                    /\ b = bif[l] \/ b = ple_next[bif[l]]
    BY <1>1 DEF Found, RInv, MTypes
  <2>2. /\ Calm' /\ Deleters' /\ Points' /\ Ordered'
        /\ \A m \in Member : Early(m)' = Early(m)
    BY <1>0, <1>1, <2>1, ReaderFrame, Zenon DEF Found, Reading
  <2>3. Targets'
    BY <1>1, <2>2, TargetsFrame, Zenon DEF Found, prefvars
  <2>4. ASSUME NEW k \in Lwp PROVE Visible(k)'
    <3>1. CASE k # l
      BY <1>1, <3>1 DEF Found, BInv, RInv, MTypes, Visible, pszvars, members
    <3>2. CASE k = l /\ b = bif[l]
      BY <1>1, <2>1, <3>2 DEF Found, BInv, Visible, pszvars, members
    <3>3. CASE k = l /\ b = ple_next[bif[l]]
      <4>1. bif[l] \in Member /\ Followed(bif[l])
        BY <1>1, ZenonT(30) DEF Found, BInv, RInv, MTypes, Visible, Followed, Early
      <4>2. b # Null => state'[b] = "linked"
        BY <1>1, <3>3, <4>1, Zenon DEF Found, BInv, Points, Leads, members
      <4> QED BY <2>1, <3>3, <4>2, Zenon DEF RInv, MTypes, Visible
    <3> QED BY <2>1, <3>1, <3>2, <3>3, Zenon
  <2>5. Drained'
    BY <1>1 DEF Found, BInv, RInv, MTypes, Drained, Referring, prefvars,
       members
  <2> QED BY <2>2, <2>3, <2>4, <2>5, Zenon DEF BInv
<1>2. CASE bridge_acquire_member(l)
  <2>1. /\ Calm' /\ Deleters' /\ Points' /\ Ordered'
        /\ \A m \in Member : Early(m)' = Early(m)
    <3>1. bif' = [bif EXCEPT ![l] = bif[l]]
      BY <1>2, Zenon DEF bridge_acquire_member, RInv, MTypes
    <3> QED BY <1>0, <1>2, <3>1, ReaderFrame, Zenon DEF bridge_acquire_member,
      Reading, Referring
  <2>2. Targets'
    BY <1>2, <2>1, TargetsFrame, Zenon DEF bridge_acquire_member,
       PR!psref_acquire, PR!drain
  <2>3. \A k \in Lwp : Visible(k)'
    BY <1>2 DEF bridge_acquire_member, BInv, Visible, pszvars, members
  <2>4. state[bif[l]] # "free" /\ dst[bif[l]] = "idle"
    <3>1. bif[l] \in Member /\ (state[bif[l]] = "linked" \/ Early(bif[l]))
      BY <1>2, AtMember, BridgeAssumption, Zenon DEF bridge_acquire_member,
         BInv, Visible, Early
    <3>2. Early(bif[l]) => state[bif[l]] = "unlinked"
      BY DEF BInv, Early, Deleters, Deleting
    <3> QED BY <3>1, <3>2, Zenon DEF BInv, Targets
  <2>5. Drained'
    BY <1>2, <2>4 DEF bridge_acquire_member, PR!psref_acquire, PR!drain, BInv,
       Drained, members
  <2> QED BY <2>1, <2>2, <2>3, <2>5, Zenon DEF BInv
<1>3. CASE Exit(l)
  <2>1. PICK p : /\ pc' = [pc EXCEPT ![l] = p]
                 /\ \/ pc[l] = "held" /\ p = "hold"
                    \/ pc[l] = "section" /\ p = "out" /\ bif[l] = Null
    BY <1>3, Zenon DEF Exit
  <2>2. /\ Calm' /\ Deleters' /\ Points' /\ Ordered'
        /\ \A m \in Member : Early(m)' = Early(m)
    <3>1. bif' = [bif EXCEPT ![l] = bif[l]]
      BY <1>3, Zenon DEF Exit, RInv, MTypes
    <3> QED BY <1>0, <1>3, <3>1, ReaderFrame, Zenon DEF Exit, Reading,
      Referring
  <2>3. Targets'
    BY <1>3, <2>2, TargetsFrame, ZenonT(30) DEF Exit, prefvars
  <2>4. \A k \in Lwp : Visible(k)'
    <3>1. \A k \in Lwp \ {l} : pc[k] \in {"section", "found"} => cpu[k] # cpu[l]
      BY <2>1, Zenon DEF BInv, RInv, Apart, Pinned, InSection
    <3> QED BY <1>3, <3>1, BridgeAssumption DEF Exit, pserialize_read_exit,
      BInv, RInv, MTypes, Visible, members
  <2>5. Drained'
    BY <1>3 DEF Exit, BInv, RInv, MTypes, Drained, Referring, prefvars,
       members
  <2> QED BY <2>2, <2>3, <2>4, <2>5, Zenon DEF BInv
<1>4. CASE Reenter(l)
  <2>1. /\ Calm' /\ Deleters' /\ Points' /\ Ordered'
        /\ \A m \in Member : Early(m)' = Early(m)
    <3>1. bif' = [bif EXCEPT ![l] = bif[l]]
      BY <1>4, Zenon DEF Reenter, RInv, MTypes
    <3> QED BY <1>4, <3>1, ReaderFrame, Zenon DEF Reenter, Reading, Referring
  <2>2. Targets'
    BY <1>4, <2>1, TargetsFrame, Zenon DEF Reenter, prefvars
  <2>3. \A k \in Lwp : Visible(k)'
    BY <1>4 DEF Reenter, pserialize_read_enter, BInv, Visible, members
  <2>4. Drained'
    BY <1>4 DEF Reenter, BInv, MTypes, Drained, Referring, prefvars, members
  <2> QED BY <2>1, <2>2, <2>3, <2>4, Zenon DEF BInv
<1>5. CASE Remove(l)
  <2>1. PICK p : /\ pc' = [pc EXCEPT ![l] = p] /\ p \in {"removed", "released"}
                 /\ pc[l] \in {"hold", "again"}
    BY <1>5, Zenon DEF Remove
  <2>2. /\ Calm' /\ Deleters' /\ Points' /\ Ordered'
        /\ \A m \in Member : Early(m)' = Early(m)
    <3>1. bif' = [bif EXCEPT ![l] = bif[l]]
      BY <1>5, Zenon DEF Remove, RInv, MTypes
    <3> QED BY <1>0, <1>5, <3>1, ReaderFrame, Zenon DEF Remove, Reading,
      Referring
  <2>3. Targets'
    BY <1>5, <2>2, TargetsFrame, ZenonT(30) DEF Remove, PR!LIST_REMOVE, PR!drain
  <2>4. \A k \in Lwp : Visible(k)'
    BY <1>5 DEF Remove, BInv, RInv, MTypes, Visible, pszvars, members
  <2>5. Drained'
    BY <1>5 DEF Remove, PR!LIST_REMOVE, PR!drain, BInv, RInv, MTypes, Drained,
       Referring, members
  <2> QED BY <2>2, <2>3, <2>4, <2>5, Zenon DEF BInv
<1>6. CASE Notify(l)
  <2>1. PICK p, b : /\ pc' = [pc EXCEPT ![l] = p] /\ bif' = [bif EXCEPT ![l] = b]
                    /\ \/ pc[l] = "removed" /\ p = "out" /\ b = Null
                       \/ pc[l] = "released" /\ p = "section" /\ b = ple_next[bif[l]]
    BY <1>6, Zenon DEF Notify
  <2>2. \A m \in Member : dst'[m] = dst[m] \/ (dst[m] = "wait" /\ dst'[m] = "poll")
    BY <1>6, Zenon DEF Notify, PR!Notify
  <2>3. /\ Calm' /\ Deleters' /\ Points' /\ Ordered'
        /\ \A m \in Member : Early(m)' = Early(m)
    BY <1>0, <1>6, ReaderFrame, Zenon DEF Notify, Reading, Referring
  <2>4. Targets'
    BY <1>6, <2>3, TargetsFrame, Zenon DEF Notify, PR!Notify
  <2>5. ASSUME NEW k \in Lwp PROVE Visible(k)'
    <3>1. CASE k # l
      BY <1>6, <3>1 DEF Notify, BInv, RInv, MTypes, Visible, pszvars, members
    <3>2. CASE k = l /\ p = "out"
      BY <2>1, <3>2, Zenon DEF RInv, MTypes, Visible
    <3>3. CASE k = l /\ p = "section"
      <4>1. pc[l] = "released" /\ b = ple_next[bif[l]]
        BY <2>1, <3>3, Zenon
      <4>2. bif[l] \in Member /\ OneDeletes /\ state[bif[l]] # "free"
        BY <4>1, Zenon DEF BInv, RInv, MTypes, Reader, Reading, Referring,
           Calm, Drained
      <4>3. b # Null => state'[b] = "linked"
        BY <1>6, <4>1, <4>2 DEF Notify, BInv, RInv, MTypes, Points, Leads, Followed, members
      <4> QED BY <2>1, <3>3, <4>3, Zenon DEF RInv, MTypes, Visible
    <3> QED BY <2>1, <3>1, <3>2, <3>3, ZenonT(30)
  <2>6. Drained'
    <3>1. ASSUME NEW k \in Lwp, pc'[k] \in Referring
          PROVE  /\ pc[k] \in Referring /\ cpu'[k] = cpu[k]
                 /\ bif'[k] = bif[k] /\ bif[k] \in Member
      <4>1. k # l /\ pc'[k] = pc[k] /\ bif'[k] = bif[k]
        BY <2>1, <3>1, Zenon DEF RInv, MTypes, Referring
      <4> QED BY <1>6, <3>1, <4>1, AtMember, Zenon DEF Notify, BInv, RInv,
        MTypes
    <3> QED BY <1>6, <3>1, Zenon DEF Notify, PR!Notify, BInv, Drained, members
  <2> QED BY <2>3, <2>4, <2>5, <2>6, Zenon DEF BInv
<1> QED BY <1>1, <1>2, <1>3, <1>4, <1>5, <1>6, Zenon DEF Read

\* So does entering a read section.
LEMMA EnterBInv ==
    ASSUME BInv, RInv', NEW l \in Lwp, NEW c \in Cpu,
           Enter(l, c) \/ \E m \in Member : bridge_lookup_member_if(l, c, m)
    PROVE  BInv'
<1> USE DEF Goto
<1>1. PICK p, b : /\ pc' = [pc EXCEPT ![l] = p] /\ bif' = [bif EXCEPT ![l] = b]
                  /\ p \in {"section", "found"}
                  /\ b # Null => b \in Member /\ state[b] = "linked"
  BY DEF Enter, bridge_lookup_member_if, BInv, RInv, MTypes, Points, Leads
<1>2. /\ pc[l] = "out" /\ role[l] # "delete"
      /\ cpu' = [cpu EXCEPT ![l] = c]
      /\ UNCHANGED <<before, prefvars, members, bip_lock, role>>
  BY Zenon DEF Enter, bridge_lookup_member_if, pserialize_read_enter
<1>3. /\ Calm' /\ Deleters' /\ Points' /\ Ordered'
      /\ \A m \in Member : Early(m)' = Early(m)
  BY <1>1, <1>2, ReaderFrame, Zenon DEF Reading
<1>4. Targets'
  BY <1>2, <1>3, TargetsFrame, ZenonT(30) DEF prefvars
<1>5. \A k \in Lwp : Visible(k)'
  BY <1>1, <1>2 DEF BInv, RInv, MTypes, Visible, members
<1>6. Drained'
  BY <1>1, <1>2 DEF BInv, Drained, Referring, prefvars, members
<1> QED BY <1>3, <1>4, <1>5, <1>6, Zenon DEF BInv

\* Taking a member off the list keeps the invariant.
LEMMA UnlinkBInv ==
    ASSUME BInv, RInv', NEW d \in Lwp, NEW m \in Member, Unlink(d, m) PROVE BInv'
<1> USE BridgeAssumption DEF Goto
<1>1. /\ role[d] = "delete" /\ pc[d] = "out" /\ bip_lock = Null /\ state[m] = "linked"
      /\ pc'[d] = "unlinked" /\ \A k \in Lwp \ {d} : pc'[k] = pc[k]
      /\ bif'[d] = m /\ \A k \in Lwp \ {d} : bif'[k] = bif[k]
      /\ state'[m] = "unlinked" /\ \A n \in Member \ {m} : state'[n] = state[n]
      /\ bip_lock' = d
      /\ UNCHANGED <<before, prefvars, role, cpu>>
  BY DEF Unlink, RInv, MTypes, pszvars
<1>2. \A n \in Member \cup {Null} :
        ple_next'[n] = IF ple_next[n] = m /\ (n = Null \/ state[n] = "linked")
                       THEN ple_next[m] ELSE ple_next[n]
  BY ZenonT(30) DEF Unlink, PSLIST_WRITER_REMOVE, RInv, MTypes
<1>3. \A k \in Lwp : pc[k] \notin {"unlinked", "perform"}
  BY <1>1 DEF BInv, Deleters
<1>4. PICK R \in SUBSET (Member \X Member) : Along(R)
  BY Zenon DEF BInv, Ordered
<1>5. ple_next[m] # m
  BY <1>1, <1>4, Zenon DEF Along
<1>6. Calm' /\ (OneDeletes' <=> OneDeletes)
  BY <1>1, Zenon DEF BInv, Calm, OneDeletes
<1>7. \A l \in Lwp : Visible(l)'
  <2>1. ASSUME NEW l \in Lwp, pc'[l] \in {"section", "found"}, bif'[l] # Null
        PROVE  state[bif[l]] = "linked" /\ bif'[l] = bif[l] /\ bif[l] \in Member
    BY <1>1, <1>3, <2>1 DEF BInv, RInv, MTypes, Visible
  <2> QED BY <1>1, <2>1 DEF Visible
<1>8. Deleters'
  <2>1. ASSUME NEW k \in Lwp, pc[k] \in Deleting PROVE k # d /\ bif[k] # m
    BY <1>1, <2>1, ZenonT(30) DEF BInv, Deleters
  <2>2. ASSUME NEW k \in Lwp
        PROVE  /\ pc'[k] \in Deleting => /\ role'[k] = "delete" /\ bif'[k] # Null
                                         /\ state'[bif'[k]] = "unlinked"
               /\ pc'[k] \in {"unlinked", "perform"} <=> bip_lock' = k
               /\ pc'[k] \in {"out", "freed"} => bif'[k] = Null
    BY <1>1, SMTT(30) DEF BInv, RInv, MTypes, Deleters
  <2>3. \A j, k \in Lwp : pc'[j] \in Deleting /\ pc'[k] \in Deleting /\ bif'[j] = bif'[k]
                            => j = k
    BY <1>1 DEF BInv, Deleters
  <2>4. ASSUME NEW n \in Member, state'[n] = "unlinked"
        PROVE  \E k \in Lwp : bif'[k] = n /\ pc'[k] \in Deleting
    BY <1>1, <2>4 DEF BInv, Deleters, Deleting
  <2> QED BY <2>2, <2>3, <2>4, Zenon DEF Deleters
<1>9. Points'
  <2>1. Leads(m) /\ Leads(Null)
    BY <1>1, ZenonT(30) DEF BInv, Points, Followed
  <2>2. ASSUME NEW n \in Member \cup {Null}, n = Null \/ state[n] = "linked" PROVE Leads(n)'
    BY <1>1, <1>2, <1>5, <2>2 DEF BInv, RInv, MTypes, Points, Followed, Leads
  <2>3. ASSUME NEW n \in Member, Followed(n)' PROVE state[n] = "linked"
    <3>1. CASE Early(n)'
      BY <1>1, <1>3, <3>1, ZenonT(30) DEF Early
    <3>2. CASE OneDeletes' /\ state'[n] = "unlinked" /\ n # m
      BY <1>1, <3>2 DEF BInv, Deleters, OneDeletes
    <3> QED BY <1>1, <2>3, <3>1, <3>2, Zenon DEF Followed
  <2> QED BY <2>2, <2>3, Zenon DEF Points
<1>10. Along(R)'
  <2>1. ASSUME NEW n \in Member, state'[n] = "linked", ple_next'[n] # Null
        PROVE  <<n, ple_next'[n]>> \in R
    <3>1. n # m /\ state[n] = "linked"
      BY <1>1, <2>1, Zenon
    <3>2. CASE ple_next[n] = m
      <4>1. ple_next'[n] = ple_next[m] /\ <<n, m>> \in R
        BY <1>2, <1>4, <3>1, <3>2, Zenon DEF Along
      <4>2. ple_next[m] \in Member /\ <<m, ple_next[m]>> \in R
        BY <1>1, <1>4, <2>1, <4>1 DEF Along
      <4> QED BY <1>4, <4>1, <4>2, Zenon DEF Along
    <3>3. CASE ple_next[n] # m
      BY <1>2, <1>4, <2>1, <3>1, <3>3, ZenonT(30) DEF Along
    <3> QED BY <3>2, <3>3, Zenon
  <2> QED BY <1>4, <2>1, Zenon DEF Along
<1>11. Targets'
  <2>1. \A n \in Member : Early(n)' => n = m
    BY <1>1, <1>3, ZenonT(30) DEF Early
  <2> QED BY <1>1, <2>1 DEF BInv, Targets, prefvars
<1>12. Drained'
  <2>1. ASSUME NEW k \in Lwp, pc'[k] \in Referring
        PROVE  k # d /\ pc[k] \in Referring /\ bif'[k] = bif[k] /\ bif[k] \in Member
    BY <1>1, <2>1, AtMember, Zenon DEF BInv, Referring
  <2> QED BY <1>1, <2>1 DEF BInv, Drained, prefvars
<1> QED BY <1>6, <1>7, <1>8, <1>9, <1>10, <1>11, <1>12, ZenonT(30) DEF BInv,
  Ordered

\* What an LWP looks at, and what a next pointer points to, is a member.
LEMMA MemberOrNull ==
    ASSUME RInv
    PROVE  /\ \A l \in Lwp : bif[l] # Null => bif[l] \in Member
           /\ \A n \in Member \cup {Null} : ple_next[n] # Null => ple_next[n] \in Member
BY Zenon DEF RInv, MTypes

\* Adding a member at the head of the list keeps the invariant: nobody is at
\* its memory.
LEMMA AddBInv == ASSUME BInv, RInv', NEW m \in Member, bridge_ioctl_add(m) PROVE BInv'
<1>0. Null \notin Member
  BY BridgeAssumption, ZenonT(30)
<1>1. /\ state[m] = "free" /\ bip_lock = Null
      /\ state'[m] = "linked" /\ \A n \in Member \ {m} : state'[n] = state[n]
      /\ ple_next'[m] = ple_next[Null] /\ ple_next'[Null] = m
      /\ \A n \in Member \ {m} : ple_next'[n] = ple_next[n]
      /\ prt_class'[m] /\ ~prt_draining'[m] /\ dst'[m] = "idle"
      /\ \A n \in Member \ {m} : /\ prt_class'[n] = prt_class[n] /\ dst'[n] = dst[n]
                                 /\ prt_draining'[n] = prt_draining[n]
      /\ UNCHANGED <<before, asked, ret, bip_lock, role, pc, cpu, bif>>
  BY BridgeAssumption DEF BInv, bridge_ioctl_add, PR!psref_target_init, RInv, MTypes, PR!TypeOK,
     pszvars, lwps
<1>2. \A l \in Lwp : pc[l] \in Deleting => state[bif[l]] = "unlinked"
  BY ZenonT(30) DEF BInv, Deleters
<1>3. \A n \in Member : Early(n)' = Early(n) /\ (Early(n) => n # m)
  BY <1>1, <1>2, Zenon DEF Early, Deleting
<1>4. Calm' /\ (OneDeletes' <=> OneDeletes)
  BY <1>1, Zenon DEF BInv, Calm, OneDeletes
<1>5. /\ \A l \in Lwp : bif[l] # Null => bif[l] \in Member
      /\ \A n \in Member \cup {Null} : ple_next[n] # Null => ple_next[n] \in Member
  BY MemberOrNull, Zenon DEF BInv
<1>6. \A l \in Lwp : Visible(l)'
  <2>1. \A l \in Lwp : Visible(l)
    BY Zenon DEF BInv
  <2>2. ASSUME NEW n \in Member, state[n] = "linked" PROVE state'[n] = "linked"
    BY <1>1, <2>2, Zenon
  <2> QED BY <1>1, <1>5, <2>1, <2>2, Zenon DEF Visible
<1>7. Deleters'
  <2>1. Deleters
    BY Zenon DEF BInv
  <2>2. ASSUME NEW l \in Lwp, pc[l] \in Deleting
        PROVE  bif[l] \in Member /\ state'[bif[l]] = "unlinked"
    <3>1. bif[l] \in Member /\ bif[l] # m
      BY <1>1, <1>2, <1>5, <2>1, <2>2, Zenon DEF Deleters
    <3> QED BY <1>1, <1>2, <2>2, <3>1, Zenon
  <2>3. ASSUME NEW n \in Member, state'[n] = "unlinked" PROVE state[n] = "unlinked"
    BY <1>1, <2>3, Zenon
  <2> QED BY <1>1, <2>1, <2>2, <2>3, ZenonT(30) DEF Deleters
<1>8. Points
  BY Zenon DEF BInv
<1>9. Points'
  <2>1. ASSUME NEW n \in Member \cup {Null}, Leads(n), ple_next[n] # Null
        PROVE  ple_next[n] # m /\ state'[ple_next[n]] = "linked"
    BY <1>1, <1>5, <2>1, Zenon DEF Leads
  <2>2. Leads(Null)' /\ Leads(m)'
    BY <1>1, <1>8, <2>1, Zenon DEF Points, Leads
  <2>3. ASSUME NEW n \in Member \ {m}, Followed(n)' PROVE Leads(n)'
    <3>1. Followed(n)
      BY <1>1, <1>3, <1>4, <2>3, Zenon DEF Followed
    <3>2. Leads(n)
      BY <1>8, <3>1, Zenon DEF Points
    <3>3. ple_next'[n] = ple_next[n]
      BY <1>1, Zenon
    <3> QED BY <2>1, <3>2, <3>3, Zenon DEF Leads
  <2> QED BY <2>2, <2>3, Zenon DEF Points
<1>10. Ordered'
  <2>1. PICK R \in SUBSET (Member \X Member) : Along(R)
    BY Zenon DEF BInv, Ordered
  <2>2. PICK S \in SUBSET (Member \X Member) :
            \A a, b \in Member : <<a, b>> \in S <=> b # m /\ (a = m \/ <<a, b>> \in R)
    <3> DEFINE T == {e \in Member \X Member : e[2] # m /\ (e[1] = m \/ e \in R)}
    <3>1. \A a, b \in Member : <<a, b>> \in T <=> b # m /\ (a = m \/ <<a, b>> \in R)
      OBVIOUS
    <3>2. T \in SUBSET (Member \X Member)
      OBVIOUS
    <3> QED BY <3>1, <3>2, Zenon
  <2>3. ASSUME NEW n \in Member, state[n] = "linked" PROVE ple_next[n] # m
    <3>1. Leads(n)
      BY <1>8, <2>3, Zenon DEF Points, Followed
    <3> QED BY <1>0, <1>1, <3>1, Zenon DEF Leads
  <2>4. ple_next[Null] # m
    BY <1>0, <1>1, <1>8, Zenon DEF Points, Leads
  <2>5. ASSUME NEW n \in Member, state'[n] = "linked", ple_next'[n] # Null
        PROVE  <<n, ple_next'[n]>> \in S
    <3>1. ple_next'[n] \in Member
      BY <2>5, Zenon DEF RInv, MTypes
    <3>2. CASE n = m
      BY <1>1, <2>2, <2>4, <3>1, <3>2, Zenon
    <3>3. CASE n # m
      <4>1. ple_next'[n] = ple_next[n] /\ state[n] = "linked"
        BY <1>1, <2>5, <3>3, Zenon
      <4>2. <<n, ple_next[n]>> \in R
        BY <2>1, <2>5, <4>1, Zenon DEF Along
      <4> QED BY <2>2, <2>3, <3>1, <4>1, <4>2, Zenon
    <3> QED BY <3>2, <3>3, Zenon
  <2>6. \A a \in Member : <<a, a>> \notin S
    BY <2>1, <2>2, Zenon DEF Along
  <2>7. \A a, b, c \in Member : <<a, b>> \in S /\ <<b, c>> \in S => <<a, c>> \in S
    BY <2>1, <2>2, Zenon DEF Along
  <2>8. Along(S)'
    BY <2>5, <2>6, <2>7, Zenon DEF Along
  <2> QED BY <2>2, <2>8, Zenon DEF Ordered
<1>11. Targets'
  <2>1. Targets
    BY Zenon DEF BInv
  <2>2. ASSUME NEW n \in Member, n # m, state'[n] = "linked" \/ Early(n)'
        PROVE  dst'[n] = "idle" /\ prt_class'[n] /\ ~prt_draining'[n]
    <3>1. state[n] = "linked" \/ Early(n)
      BY <1>1, <1>3, <2>2, Zenon
    <3> QED BY <1>1, <2>1, <2>2, <3>1, ZenonT(30) DEF Targets
  <2>3. ASSUME NEW n \in Member, state'[n] = "free" PROVE dst'[n] \in {"idle", "done"}
    <3>1. n # m /\ state[n] = "free"
      BY <1>1, <2>3, Zenon
    <3> QED BY <1>1, <2>1, <3>1, Zenon DEF Targets
  <2> QED BY <1>1, <2>2, <2>3, Zenon DEF Targets
<1>12. Drained'
  BY <1>1, AtMember DEF BInv, Drained
<1> QED BY <1>4, <1>6, <1>7, <1>9, <1>10, <1>11, <1>12, Zenon DEF BInv

\* A reader stays where it may be as long as neither it nor a deleter that has
\* BRIDGE_LOCK moves on.
LEMMA StillVisible ==
    ASSUME \A k \in Lwp : Visible(k), UNCHANGED <<before, state, cpu, bif>>,
           \A k \in Lwp : /\ pc'[k] \in {"section", "found"} => pc[k] = pc'[k]
                          /\ pc[k] \in {"unlinked", "perform"} => pc'[k] = pc[k]
    PROVE  \A k \in Lwp : Visible(k)'
<1> SUFFICES ASSUME NEW l \in Lwp, pc'[l] \in {"section", "found"}, bif[l] # Null
             PROVE  \/ state[bif[l]] = "linked"
                    \/ \E k \in Lwp : /\ bif[k] = bif[l]
                                      /\ \/ pc'[k] = "unlinked"
                                         \/ pc'[k] = "perform" /\ cpu[l] \in before[iflist]
  BY ZenonT(30) DEF Visible
<1>1. \/ state[bif[l]] = "linked"
      \/ \E k \in Lwp : /\ bif[k] = bif[l]
                        /\ \/ pc[k] = "unlinked"
                           \/ pc[k] = "perform" /\ cpu[l] \in before[iflist]
  BY Zenon DEF Visible
<1> QED BY <1>1, Zenon

\* The steps of the LWP that deletes, once the member is off the list, keep
\* the invariant.
LEMMA DeleteBInv == ASSUME BInv, RInv', NEW d \in Lwp, Delete(d) PROVE BInv'
<1> USE DEF Goto
<1>0. Null \notin Member /\ Null \notin Lwp
  BY BridgeAssumption, Zenon
<1>1. CASE BRIDGE_PSZ_PERFORM(d)
  <2>1. /\ pc[d] = "unlinked"
        /\ pc'[d] = "perform" /\ \A k \in Lwp \ {d} : pc'[k] = pc[k]
        /\ before'[iflist] = reading
        /\ UNCHANGED <<prefvars, members, bip_lock, role, cpu, bif>>
    BY <1>1 DEF BRIDGE_PSZ_PERFORM, Perform, RInv, MTypes, IInv, Types
  <2>2. \A m \in Member : Early(m)' = Early(m)
    BY <2>1, Zenon DEF Early
  <2>3. Calm' /\ (OneDeletes' <=> OneDeletes)
    BY <2>1, ZenonT(30) DEF BInv, Calm, OneDeletes
  <2>4. \A l \in Lwp : Visible(l)'
    <3>1. ASSUME NEW l \in Lwp, pc'[l] \in {"section", "found"}
          PROVE  pc[l] = pc'[l] /\ cpu[l] \in reading
      BY <2>1, <3>1, Zenon DEF BInv, RInv, Reader, InSection
    <3>2. \A k \in Lwp : pc[k] # "perform"
      BY <2>1, Zenon DEF BInv, Deleters
    <3> QED BY <2>1, <3>1 DEF BInv, Visible, members
  <2>5. Deleters'
    BY <2>1 DEF BInv, Deleters, Deleting, members
  <2>6. Points' /\ Ordered'
    BY <2>1, <2>2, <2>3, Zenon DEF BInv, Points, Leads, Followed, Ordered,
       Along, members
  <2>7. Targets'
    BY <2>1, <2>2, TargetsFrame, Zenon DEF prefvars
  <2>8. Drained'
    BY <2>1, Zenon DEF BInv, Drained, Referring, prefvars, members
  <2> QED BY <2>3, <2>4, <2>5, <2>6, <2>7, <2>8, Zenon DEF BInv
<1>2. CASE Unlock(d)
  <2>1. /\ pc[d] = "perform" /\ upd[iflist] = "idle" /\ dst[bif[d]] = "idle"
        /\ pc'[d] = "destroy" /\ \A k \in Lwp \ {d} : pc'[k] = pc[k]
        /\ bip_lock' = Null
        /\ UNCHANGED <<before, prt_class, asked, ret, members, role, cpu, bif>>
    BY <1>2, ZenonT(30) DEF Unlock, PR!Drain, RInv, MTypes, pszvars
  <2>2. bif[d] \in Member /\ state[bif[d]] = "unlinked"
    BY <2>1 DEF BInv, RInv, MTypes, Deleters, Deleting
  <2>3. /\ dst'[bif[d]] = "poll"
        /\ \A m \in Member \ {bif[d]} : /\ dst'[m] = dst[m]
                                        /\ prt_draining'[m] = prt_draining[m]
    BY <1>2 DEF Unlock, PR!Drain, RInv, MTypes, PR!TypeOK
  <2>4. before[iflist] = {}
    BY <2>1, BridgeAssumption, Zenon DEF BInv, RInv, IInv, Rounds
  <2>5. \A m \in Member : ~Early(m)'
    <3>1. Deleters
      BY Zenon DEF BInv
    <3>2. ASSUME NEW k \in Lwp, pc'[k] \in {"unlinked", "perform"} PROVE FALSE
      <4>1. k # d /\ pc[k] \in {"unlinked", "perform"}
        BY <2>1, <3>2, Zenon
      <4>2. bip_lock = k /\ bip_lock = d
        BY <2>1, <3>1, <4>1, Zenon DEF Deleters
      <4> QED BY <4>1, <4>2, Zenon
    <3> QED BY <2>1, <3>2, Zenon DEF Early
  <2>6. Calm' /\ (OneDeletes' <=> OneDeletes)
    BY <2>1, ZenonT(30) DEF BInv, Calm, OneDeletes
  <2>7. \A l \in Lwp : Visible(l)'
    <3>1. \A k \in Lwp : pc[k] # "unlinked"
      BY <2>1 DEF BInv, Deleters
    <3> QED BY <2>1, <2>4 DEF BInv, Visible, members
  <2>8. Deleters'
    <3>1. Deleters /\ UNCHANGED <<role, bif, state>>
      BY <2>1, Zenon DEF BInv, members
    <3>2. \A k \in Lwp : pc'[k] \in Deleting <=> pc[k] \in Deleting
      BY <2>1, Zenon DEF Deleting
    <3>3. ASSUME NEW k \in Lwp
          PROVE  pc'[k] \notin {"unlinked", "perform"} /\ bip_lock' # k
      <4>1. pc[k] \in {"unlinked", "perform"} => k = d
        <5>1. \A j \in Lwp : pc[j] \in {"unlinked", "perform"} <=> bip_lock = j
          BY <3>1, Zenon DEF Deleters
        <5> QED BY <2>1, <5>1, Zenon
      <4> QED BY <1>0, <2>1, <4>1, Zenon
    <3>4. ASSUME NEW k \in Lwp, pc'[k] \in {"out", "freed"} PROVE bif[k] = Null
      BY <2>1, <3>1, <3>4, Zenon DEF Deleters
    <3> QED BY <3>1, <3>2, <3>3, <3>4, Zenon DEF Deleters
  <2>9. Points' /\ Ordered'
    BY <2>1, <2>5, <2>6, Zenon DEF BInv, Points, Leads, Followed, Ordered,
       Along, members
  <2>10. Targets'
    BY <2>1, <2>2, <2>3, <2>5, Zenon DEF BInv, Targets, members
  <2>11. Drained'
    <3>1. ASSUME NEW k \in Lwp, pc'[k] \in Referring
          PROVE  pc[k] \in Referring /\ bif[k] \in Member
      BY <2>1, <3>1, AtMember, Zenon DEF BInv, Referring
    <3> QED BY <2>1, <2>3, <3>1, Zenon DEF BInv, Drained, members
  <2> QED BY <2>6, <2>7, <2>8, <2>9, <2>10, <2>11, Zenon DEF BInv
<1>3. CASE Free(d)
  <2> DEFINE m == bif[d]
  <2>1. /\ pc[d] = "destroy" /\ dst[m] = "done"
        /\ pc'[d] = "freed" /\ \A k \in Lwp \ {d} : pc'[k] = pc[k]
        /\ bif'[d] = Null /\ \A k \in Lwp \ {d} : bif'[k] = bif[k]
        /\ UNCHANGED <<before, prefvars, bip_lock, role, cpu>>
    BY <1>3, SMTT(30) DEF Free, RInv, MTypes, pszvars
  <2>2. m \in Member /\ state[m] = "unlinked"
    BY <2>1 DEF BInv, RInv, MTypes, Deleters, Deleting
  <2>3. /\ state'[m] = "free" /\ \A n \in Member \ {m} : state'[n] = state[n]
        /\ ple_next'[m] = Null
        /\ \A n \in (Member \cup {Null}) \ {m} : ple_next'[n] = ple_next[n]
    BY <1>3, SMTT(30) DEF Free, RInv, MTypes
  <2>4. \A k \in Lwp \ {d} : pc[k] \in Deleting => bif[k] # m
    BY <2>1 DEF BInv, Deleters, Deleting
  <2>5. \A n \in Member : (Early(n)' => Early(n)) /\ (Early(n) => n # m)
    BY <2>1, <2>4, Zenon DEF Early, Deleting
  <2>6. Calm' /\ (OneDeletes' <=> OneDeletes)
    BY <2>1, Zenon DEF BInv, Calm, OneDeletes
  <2>7. \A l \in Lwp : Visible(l)'
    <3>1. ASSUME NEW l \in Lwp, pc'[l] \in {"section", "found"}, bif'[l] # Null
          PROVE  /\ l # d /\ pc[l] = pc'[l] /\ bif[l] = bif'[l]
                 /\ bif[l] \in Member /\ bif[l] # m /\ Visible(l)
      <4>1. l # d /\ pc[l] = pc'[l] /\ bif[l] = bif'[l]
        BY <2>1, <3>1, Zenon
      <4>2. bif[l] \in Member /\ Visible(l)
        BY <3>1, <4>1, MemberOrNull, Zenon DEF BInv
      <4>3. \A k \in Lwp : pc[k] \in {"unlinked", "perform"} => bif[k] # m
        BY <2>1, <2>4, Zenon DEF Deleting
      <4> QED BY <2>2, <3>1, <4>1, <4>2, <4>3, Zenon DEF Visible
    <3>2. \A k \in Lwp : pc[k] \in {"unlinked", "perform"} => pc'[k] = pc[k] /\ bif'[k] = bif[k]
      BY <2>1, Zenon
    <3>3. \A n \in Member \ {m} : state[n] = "linked" => state'[n] = "linked"
      BY <2>3, Zenon
    <3>4. ASSUME NEW l \in Lwp, pc'[l] \in {"section", "found"}, bif'[l] # Null
          PROVE  \/ state'[bif'[l]] = "linked"
                 \/ \E k \in Lwp : /\ bif'[k] = bif'[l]
                                   /\ \/ pc'[k] = "unlinked"
                                      \/ pc'[k] = "perform" /\ cpu'[l] \in before'[iflist]
      <4>1. /\ pc[l] \in {"section", "found"} /\ bif[l] # Null /\ bif[l] = bif'[l]
            /\ bif[l] \in Member \ {m}
        BY <3>1, <3>4, Zenon
      <4>2. CASE state[bif[l]] = "linked"
        BY <3>3, <4>1, <4>2, Zenon
      <4>3. \/ state[bif[l]] = "linked"
            \/ \E k \in Lwp : /\ bif[k] = bif[l]
                              /\ \/ pc[k] = "unlinked"
                                 \/ pc[k] = "perform" /\ cpu[l] \in before[iflist]
        BY <3>1, <3>4, <4>1, Zenon DEF Visible
      <4>4. CASE state[bif[l]] # "linked"
        <5>1. PICK k \in Lwp : /\ bif[k] = bif[l]
                               /\ \/ pc[k] = "unlinked"
                                  \/ pc[k] = "perform" /\ cpu[l] \in before[iflist]
          BY <4>3, <4>4, Zenon
        <5>2. pc'[k] = pc[k] /\ bif'[k] = bif'[l] /\ cpu' = cpu /\ before' = before
          BY <2>1, <3>2, <4>1, <5>1, Zenon
        <5> QED BY <5>1, <5>2, Zenon
      <4> QED BY <4>2, <4>4, Zenon
    <3> QED BY <3>4, Zenon DEF Visible
  <2>8. Deleters'
    <3>0. Deleters
      BY Zenon DEF BInv
    <3>1. ASSUME NEW k \in Lwp, pc'[k] \in Deleting
          PROVE  /\ k # d /\ pc[k] = pc'[k] /\ bif[k] = bif'[k] /\ bif[k] \in Member
                 /\ state'[bif[k]] = "unlinked"
      <4>1. k # d /\ pc[k] = pc'[k] /\ bif[k] = bif'[k]
        BY <2>1, <3>1, Zenon DEF Deleting
      <4>2. bif[k] \in Member /\ bif[k] # m /\ state[bif[k]] = "unlinked"
        BY <2>4, <3>0, <3>1, <4>1, MemberOrNull, Zenon DEF BInv, Deleters
      <4> QED BY <2>3, <4>1, <4>2, Zenon
    <3>2. ASSUME NEW k \in Lwp
          PROVE  /\ pc'[k] \in Deleting => /\ role'[k] = "delete" /\ bif'[k] # Null
                                           /\ state'[bif'[k]] = "unlinked"
                 /\ pc'[k] \in {"unlinked", "perform"} <=> bip_lock' = k
                 /\ pc'[k] \in {"out", "freed"} => bif'[k] = Null
      <4>1. CASE k = d
        BY <2>1, <3>0, <4>1, Zenon DEF Deleters, Deleting
      <4>2. CASE k # d
        <5>1. pc'[k] = pc[k] /\ bif'[k] = bif[k] /\ role' = role /\ bip_lock' = bip_lock
          BY <2>1, <4>2, Zenon
        <5> QED BY <3>0, <3>1, <5>1, ZenonT(30) DEF Deleters
      <4> QED BY <4>1, <4>2, Zenon
    <3>3. \A j, k \in Lwp : pc'[j] \in Deleting /\ pc'[k] \in Deleting /\ bif'[j] = bif'[k]
                              => j = k
      BY <3>0, <3>1, Zenon DEF Deleters
    <3>4. ASSUME NEW n \in Member, state'[n] = "unlinked"
          PROVE  \E k \in Lwp : bif'[k] = n /\ pc'[k] \in Deleting
      <4>1. n # m /\ state[n] = "unlinked"
        BY <2>3, <3>4, Zenon
      <4>2. PICK k \in Lwp : bif[k] = n /\ pc[k] \in Deleting
        BY <3>0, <4>1, Zenon DEF Deleters
      <4> QED BY <2>1, <4>1, <4>2, Zenon
    <3> QED BY <3>2, <3>3, <3>4, Zenon DEF Deleters
  <2>9. Points'
    <3>1. \A n \in Member \cup {Null} : Leads(n) => Leads(n)'
      BY <2>2, <2>3 DEF RInv, MTypes, Leads
    <3>2. \A n \in Member : Followed(n)' => Followed(n)
      BY <2>3, <2>5, <2>6, Zenon DEF Followed
    <3> QED BY <3>1, <3>2, Zenon DEF BInv, Points
  <2>10. Ordered'
    BY <2>3, Zenon DEF BInv, Ordered, Along
  <2>11. Targets'
    <3>1. Targets /\ UNCHANGED <<dst, prt_class, prt_draining>>
      BY <2>1, Zenon DEF BInv, prefvars
    <3>2. ASSUME NEW n \in Member, state'[n] = "linked" \/ Early(n)'
          PROVE  state[n] = "linked" \/ Early(n)
      BY <2>3, <2>5, <3>2, Zenon
    <3>3. ASSUME NEW n \in Member, state'[n] = "free" PROVE n = m \/ state[n] = "free"
      BY <2>3, <3>3, ZenonT(30)
    <3> QED BY <2>1, <3>1, <3>2, <3>3, Zenon DEF Targets
  <2>12. Drained'
    <3>1. ASSUME NEW k \in Lwp, pc'[k] \in Referring
          PROVE  pc[k] \in Referring /\ bif'[k] = bif[k] /\ bif[k] \in Member /\ bif[k] # m
      BY <2>1, <3>1, AtMember, ZenonT(30) DEF BInv, Drained, Referring
    <3> QED BY <2>1, <2>3, <3>1 DEF BInv, Drained, prefvars
  <2> QED BY <2>6, <2>7, <2>8, <2>9, <2>10, <2>11, <2>12, ZenonT(30) DEF BInv
<1>4. CASE Relock(d)
  <2>1. /\ pc[d] = "freed" /\ bif[d] = Null
        /\ pc'[d] = "out" /\ \A k \in Lwp \ {d} : pc'[k] = pc[k]
        /\ UNCHANGED <<before, prefvars, members, bip_lock, role, cpu, bif>>
    BY <1>4 DEF Relock, BInv, RInv, MTypes, Deleters, pszvars
  <2>2. \A m \in Member : Early(m)' = Early(m)
    BY <2>1, Zenon DEF Early
  <2>3. Calm' /\ (OneDeletes' <=> OneDeletes)
    BY <2>1, Zenon DEF BInv, Calm, OneDeletes
  <2>4. \A l \in Lwp : Visible(l)'
    <3>1. \A l \in Lwp : Visible(l)
      BY Zenon DEF BInv
    <3>2. \A k \in Lwp : /\ pc'[k] \in {"section", "found"} => pc[k] = pc'[k]
                         /\ pc[k] \in {"unlinked", "perform"} => pc'[k] = pc[k]
      BY <2>1, Zenon
    <3>3. UNCHANGED <<before, state, cpu, bif>>
      BY <2>1, ZenonT(30) DEF members
    <3> QED BY <3>1, <3>2, <3>3, StillVisible, Zenon
  <2>5. Deleters'
    BY <2>1 DEF BInv, Deleters, Deleting, members
  <2>6. Points' /\ Ordered'
    BY <2>1, <2>2, <2>3, Zenon DEF BInv, Points, Leads, Followed, Ordered,
       Along, members
  <2>7. Targets'
    BY <2>1, <2>2, TargetsFrame, Zenon DEF prefvars
  <2>8. Drained'
    BY <2>1, Zenon DEF BInv, Drained, Referring, prefvars, members
  <2> QED BY <2>3, <2>4, <2>5, <2>6, <2>7, <2>8, Zenon DEF BInv
<1> QED BY <1>1, <1>2, <1>3, <1>4, Zenon DEF Delete

\* The steps of passive serialization leave alone what is known of members.
LEMMA PszBInv ==
    ASSUME BInv, RInv', UNCHANGED <<before, prefvars, members, bip_lock, lwps>> PROVE BInv'
<1>1. \A m \in Member : Early(m)' = Early(m)
  BY Zenon DEF Early, lwps
<1>2. Calm' /\ (OneDeletes' <=> OneDeletes)
  BY Zenon DEF BInv, Calm, OneDeletes, lwps
<1>3. Deleters' /\ \A l \in Lwp : Visible(l)'
  BY DEF BInv, Visible, Deleters, members, lwps
<1>4. Points' /\ Ordered'
  BY <1>1, <1>2, Zenon DEF BInv, Points, Leads, Followed, Ordered, Along,
     members
<1>5. Targets' /\ Drained'
  BY <1>1, TargetsFrame, Zenon DEF BInv, Drained, prefvars, members, lwps
<1> QED BY <1>2, <1>3, <1>4, <1>5, Zenon DEF BInv

\* The steps of psref_target_destroy and the answers of the CPUs keep the
\* invariant.
LEMMA DestroyBInv ==
    ASSUME BInv, RInv', NEW m \in Member, Destroyer(m) \/ \E c \in Cpu : XcThread(c, m)
    PROVE  BInv'
<1>0. UNCHANGED <<before, members, bip_lock, lwps, prt_draining>>
  BY Zenon DEF Destroyer, XcThread, PR!Poll, PR!Polled, PR!Timeout,
     PR!psreffed_p_xc, pszvars
<1>1. \A n \in Member : Early(n)' = Early(n)
  BY <1>0, Zenon DEF Early, lwps
<1>2. Calm' /\ (OneDeletes' <=> OneDeletes)
  BY <1>0, ZenonT(30) DEF BInv, Calm, OneDeletes, lwps
<1>3. Deleters' /\ \A l \in Lwp : Visible(l)'
  BY <1>0 DEF BInv, Visible, Deleters, members, lwps
<1>4. Points' /\ Ordered'
  BY <1>0, <1>1, <1>2, Zenon DEF BInv, Points, Leads, Followed, Ordered,
     Along, members
<1>5. \A l \in Lwp : pc[l] \in Referring => bif[l] \in Member /\ cpu[l] \in Cpu
  BY AtMember, Zenon DEF BInv, RInv, Reader, Reading
<1>6. CASE Destroyer(m)
  <2>1. /\ dst[m] \notin {"idle", "done"}
        /\ \A n \in Member \ {m} : /\ dst'[n] = dst[n] /\ prt_class'[n] = prt_class[n]
                                   /\ asked'[n] = asked[n] /\ ret'[n] = ret[n]
    BY <1>6 DEF Destroyer, PR!Poll, PR!Polled, PR!Timeout, RInv, MTypes,
       PR!TypeOK
  <2>2. \/ dst'[m] = "polling" /\ asked'[m] = Cpu
        \/ dst'[m] \in {"wait", "poll"}
        \/ dst'[m] = "done" /\ dst[m] = "polling" /\ ~ret[m] /\ asked[m] = {}
    BY <1>6, Zenon DEF Destroyer, PR!Poll, PR!Polled, PR!Timeout, RInv,
       MTypes, PR!TypeOK
  <2>3. Targets'
    BY <1>0, <1>1, <2>1, Zenon DEF BInv, Targets, members
  <2>4. Drained'
    BY <1>0, <1>5, <2>1, <2>2, Zenon DEF BInv, Drained, members, lwps
  <2> QED BY <1>2, <1>3, <1>4, <2>3, <2>4, ZenonT(30) DEF BInv
<1>7. ASSUME NEW c \in Cpu, XcThread(c, m) PROVE BInv'
  <2>1. /\ asked'[m] = asked[m] \ {c} /\ ret'[m] = PR!Answer(c, m)
        /\ \A n \in Member \ {m} : asked'[n] = asked[n] /\ ret'[n] = ret[n]
        /\ UNCHANGED <<dst, prt_class>>
    <3>1. /\ ret' = [ret EXCEPT ![m] = PR!Answer(c, m)]
          /\ asked' = [asked EXCEPT ![m] = asked[m] \ {c}] /\ UNCHANGED <<dst, prt_class>>
      BY <1>7, Zenon DEF XcThread, PR!psreffed_p_xc
    <3>2. DOMAIN asked = Member /\ DOMAIN ret = Member
      BY Zenon DEF BInv, RInv, MTypes, PR!TypeOK
    <3> QED BY <3>1, <3>2, Zenon
  <2>2. Targets'
    BY <1>0, <1>1, <2>1, TargetsFrame, Zenon
  <2>3. ASSUME NEW l \in Lwp, pc[l] \in Referring, bif[l] = m, cpu[l] = c PROVE ret'[m]
    <3>1. pc[l] = "hold"
      BY <1>7, <2>3, Zenon DEF XcThread, Pinned, InSection, Referring
    <3>2. <<l, m>> \in pcpu_head[c]
      BY <2>3, <3>1, Zenon DEF BInv, RInv, Reader
    <3>3. PR!Held(c, m)
      BY <3>2, Zenon DEF PR!Held
    <3> QED BY <2>1, <3>3, Zenon DEF PR!Answer
  <2>4. ~ret'[m] => ~ret[m]
    BY <2>1, Zenon DEF PR!Answer
  <2>5. Drained'
    <3>1. ASSUME NEW l \in Lwp, pc[l] \in Referring
          PROVE  dst[bif[l]] = "polling" /\ ~ret'[bif[l]] => cpu[l] \in asked'[bif[l]]
      BY <1>5, <2>1, <2>3, <2>4, <3>1, Zenon DEF BInv, Drained
    <3> QED BY <1>0, <2>1, <3>1, Zenon DEF BInv, Drained, members, lwps
  <2> QED BY <1>2, <1>3, <1>4, <2>2, <2>5, Zenon DEF BInv
<1> QED BY <1>6, <1>7, Zenon

\* Every step keeps the invariant.
LEMMA NextBInv == BInv /\ [Next]_vars => BInv'
<1> SUFFICES ASSUME BInv, [Next]_vars PROVE BInv'
  OBVIOUS
<1>1. RInv'
  BY NextRInv, Zenon DEF BInv
<1>2. CASE Performing \/ \E c \in Cpu : CpuSwitches(c) \/ CpuScans(c) \/ CpuSoftint(c)
  <2>1. UNCHANGED <<before, prefvars, members, bip_lock, lwps>>
    BY <1>2, Zenon DEF Performing, Updater, Broadcast, Check, CpuSwitches,
       Switch, CpuScans, Scan, CpuSoftint, Softint
  <2> QED BY <1>1, <2>1, PszBInv, Zenon
<1>3. CASE UNCHANGED vars
  BY <1>1, <1>3, PszBInv, Zenon DEF vars, pszvars
<1> QED
  BY <1>1, <1>2, <1>3, ReadBInv, EnterBInv, DeleteBInv, UnlinkBInv, AddBInv,
     DestroyBInv, Zenon DEF Next

\* The invariant of the members of a bridge holds throughout, if nobody
\* broadcasts or a single LWP deletes.
THEOREM MembersInvariance == Spec /\ Calm => []BInv
BY InitBInv, NextBInv, PTL DEF Spec

\* Nobody looks at a member that has been freed, if nobody broadcasts or a
\* single LWP deletes.
THEOREM MembersSafe == Spec /\ Calm => []NoUseAfterFree
<1>1. BInv => NoUseAfterFree
  <2> SUFFICES ASSUME BInv, NEW l \in Lwp, bif[l] # Null PROVE state[bif[l]] # "free"
    BY Zenon DEF NoUseAfterFree
  <2>1. CASE pc[l] \in Referring
    BY <2>1, ZenonT(30) DEF BInv, Drained
  <2>2. CASE pc[l] \in {"section", "found"}
    BY <2>2 DEF BInv, Visible, Deleters, Deleting
  <2>3. CASE pc[l] \in Deleting
    BY <2>3, Zenon DEF BInv, Deleters
  <2> QED BY <2>1, <2>2, Zenon DEF BInv, RInv, MTypes, Deleters, Reading
<1> QED BY <1>1, MembersInvariance, PTL

\* psref_acquire never meets a target that is being destroyed, if nobody
\* broadcasts or a single LWP deletes.
THEOREM AcquireSafe == Spec /\ Calm => []AcquireMeetsLive
<1>1. BInv => AcquireMeetsLive
  <2> SUFFICES ASSUME BInv, NEW l \in Lwp, pc[l] = "found"
               PROVE  prt_class[bif[l]] /\ ~prt_draining[bif[l]]
    BY Zenon DEF AcquireMeetsLive
  <2>1. bif[l] \in Member
    BY AtMember, Zenon DEF BInv
  <2>2. state[bif[l]] = "linked" \/ Early(bif[l])
    BY <2>1, BridgeAssumption, Zenon DEF BInv, Visible, Early
  <2> QED BY <2>1, <2>2, Zenon DEF BInv, Targets
<1> QED BY <1>1, MembersInvariance, PTL
=============================================================================
