--------------------------- MODULE BridgeMembers ----------------------------
(***************************************************************************)
(* The members of a bridge, sys/net/if_bridge.c: a list that is read under *)
(* passive serialization (Pserialize), whose elements are kept in use      *)
(* outside a read section by passive references (Psref).  Deleting one     *)
(* takes it off the list, waits for the read sections that may have seen   *)
(* it, waits for the references, and only then frees it.                   *)
(***************************************************************************)
EXTENDS Pserialize

CONSTANTS
    Member,         \* the memory of the struct bridge_iflist objects
    Lwp,            \* the LWPs at work, each with one psref
    iflist,         \* the pserialize_t of the bridge, bip_psz
    Null            \* NULL, and the head of the list

ASSUME BridgeAssumption == iflist \in Psz /\ Null \notin Member \cup Lwp \cup Cpu

VARIABLES
    pcpu_head, prt_draining, prt_class, dst, asked, ret,
    ple_next,       \* bif_next.ple_next; that of Null is plh_first
    state,          \* "linked", "unlinked" or "free"
    bip_lock,       \* the LWP that holds BRIDGE_LOCK
    role,           \* what each LWP does
    pc, cpu, bif    \* where it is, its CPU if bound, and its member

PR == INSTANCE Psref WITH Target <- Member, Ref <- Lwp

prefvars == <<pcpu_head, prt_draining, prt_class, dst, asked, ret>>
members == <<ple_next, state>>
lwps == <<role, pc, cpu, bif>>
vars == <<pszvars, prefvars, members, bip_lock, lwps>>

\* What an LWP does with the list: look one member up at a time, send to all
\* of them, delete one at a time, or nothing.
Role == {"lookup", "broadcast", "delete", "none"}

Init == /\ PszInit /\ PR!Init
        /\ ple_next = [m \in Member \cup {Null} |-> Null]
        /\ state = [m \in Member |-> "free"]
        /\ bip_lock = Null
        /\ role \in [Lwp -> Role]
        /\ pc = [l \in Lwp |-> "out"]
        /\ cpu = [l \in Lwp |-> Null]
        /\ bif = [l \in Lwp |-> Null]

-----------------------------------------------------------------------------
(* What may run on a CPU                                                   *)

InSection == {"section", "found", "held", "again", "released"}

\* l has its CPU to itself: it reads, or it is between taking its reference
\* off the list and looking at the target.  (There it may be preempted only
\* if sched_kpreempt_pri is set lower than kern_runq.c sets it.)
Pinned(l) == pc[l] \in InSection \cup {"removed"}

\* l may take a step on its CPU.
Runs(l) == /\ sw[cpu[l]] = "off"
           /\ \A k \in Lwp \ {l} : cpu[k] = cpu[l] => ~Pinned(k)

-----------------------------------------------------------------------------
(* bridge_lookup_member, bridge_broadcast, bridge_release_member           *)

Goto(l, p) == pc' = [pc EXCEPT ![l] = p]

\* BRIDGE_PSZ_RENTER on CPU c, and the first step of the walk
Enter(l, c) ==
    /\ pc[l] = "out" /\ role[l] \in {"lookup", "broadcast"}
    /\ \A k \in Lwp : cpu[k] = c => ~Pinned(k)
    /\ pserialize_read_enter(c)
    /\ Goto(l, "section")
    /\ cpu' = [cpu EXCEPT ![l] = c]
    /\ bif' = [bif EXCEPT ![l] = ple_next[Null]]
    /\ UNCHANGED <<prefvars, members, bip_lock, role>>

\* The member is found through member_ifp->if_bridgeif instead.
bridge_lookup_member_if(l, c, m) ==
    /\ pc[l] = "out" /\ role[l] = "lookup" /\ state[m] = "linked"
    /\ \A k \in Lwp : cpu[k] = c => ~Pinned(k)
    /\ pserialize_read_enter(c)
    /\ Goto(l, "found")
    /\ cpu' = [cpu EXCEPT ![l] = c]
    /\ bif' = [bif EXCEPT ![l] = m]
    /\ UNCHANGED <<prefvars, members, bip_lock, role>>

\* BRIDGE_IFLIST_READER_FOREACH: a look-up stops at any member, a broadcast
\* takes every one; the others are walked over.
Found(l) ==
    /\ pc[l] = "section" /\ bif[l] # Null
    /\ \/ Goto(l, "found") /\ UNCHANGED bif
       \/ /\ role[l] = "lookup"
          /\ bif' = [bif EXCEPT ![l] = ple_next[bif[l]]]
          /\ UNCHANGED pc
    /\ UNCHANGED <<pszvars, prefvars, members, bip_lock, role, cpu>>

\* bridge_acquire_member
bridge_acquire_member(l) ==
    /\ pc[l] = "found"
    /\ PR!psref_acquire(l, cpu[l], bif[l])
    /\ Goto(l, "held")
    /\ UNCHANGED <<pszvars, members, bip_lock, role, cpu, bif>>

\* BRIDGE_PSZ_REXIT, with a member in hand or at the end of the list
Exit(l) ==
    /\ \/ pc[l] = "held" /\ Goto(l, "hold") /\ UNCHANGED cpu
       \/ /\ pc[l] = "section" /\ bif[l] = Null /\ Goto(l, "out")
          /\ cpu' = [cpu EXCEPT ![l] = Null]
    /\ pserialize_read_exit(cpu[l])
    /\ UNCHANGED <<prefvars, members, bip_lock, role, bif>>

\* A broadcast is in a read section again when it lets a member go.
Reenter(l) ==
    /\ pc[l] = "hold" /\ role[l] = "broadcast" /\ Runs(l)
    /\ pserialize_read_enter(cpu[l])
    /\ Goto(l, "again")
    /\ UNCHANGED <<prefvars, members, bip_lock, role, cpu, bif>>

\* psref_release
Remove(l) ==
    /\ \/ pc[l] = "hold" /\ role[l] = "lookup" /\ Runs(l) /\ Goto(l, "removed")
       \/ pc[l] = "again" /\ Goto(l, "released")
    /\ PR!LIST_REMOVE(l, cpu[l], bif[l])
    /\ UNCHANGED <<pszvars, members, bip_lock, role, cpu, bif>>

Notify(l) ==
    /\ \/ /\ pc[l] = "removed" /\ Runs(l)
          /\ Goto(l, "out")
          /\ bif' = [bif EXCEPT ![l] = Null]
          /\ cpu' = [cpu EXCEPT ![l] = Null]
       \/ /\ pc[l] = "released"
          /\ Goto(l, "section")
          /\ bif' = [bif EXCEPT ![l] = ple_next[bif[l]]]
          /\ UNCHANGED cpu
    /\ PR!Notify(bif[l])
    /\ UNCHANGED <<pszvars, members, bip_lock, role>>

-----------------------------------------------------------------------------
(* bridge_ioctl_add, bridge_ioctl_del and bridge_delete_member             *)

\* psref_target_init and PSLIST_WRITER_INSERT_HEAD
bridge_ioctl_add(m) ==
    /\ state[m] = "free" /\ bip_lock = Null
    /\ PR!psref_target_init(m)
    /\ ple_next' = [ple_next EXCEPT ![m] = ple_next[Null], ![Null] = m]
    /\ state' = [state EXCEPT ![m] = "linked"]
    /\ UNCHANGED <<pszvars, bip_lock, lwps>>

\* PSLIST_WRITER_REMOVE leaves the next pointer of what it removes.
PSLIST_WRITER_REMOVE(m) ==
    [n \in DOMAIN ple_next |->
        IF ple_next[n] = m /\ (n = Null \/ state[n] = "linked")
        THEN ple_next[m] ELSE ple_next[n]]

Unlink(d, m) ==
    /\ role[d] = "delete" /\ pc[d] = "out" /\ bip_lock = Null /\ state[m] = "linked"
    /\ bip_lock' = d
    /\ ple_next' = PSLIST_WRITER_REMOVE(m)
    /\ state' = [state EXCEPT ![m] = "unlinked"]
    /\ Goto(d, "unlinked")
    /\ bif' = [bif EXCEPT ![d] = m]
    /\ UNCHANGED <<pszvars, prefvars, role, cpu>>

BRIDGE_PSZ_PERFORM(d) ==
    /\ pc[d] = "unlinked"
    /\ Perform(iflist)
    /\ Goto(d, "perform")
    /\ UNCHANGED <<prefvars, members, bip_lock, role, cpu, bif>>

\* BRIDGE_UNLOCK, and psref_target_destroy begins.
\* (The variant does not wait for the read sections.)
UnlockEarly(d) ==
    /\ pc[d] = "perform"
    /\ PR!Drain(bif[d])
    /\ bip_lock' = Null
    /\ Goto(d, "destroy")
    /\ UNCHANGED <<pszvars, members, role, cpu, bif>>
Unlock(d) ==
    /\ pc[d] = "perform" /\ upd[iflist] = "idle"
    /\ PR!Drain(bif[d])
    /\ bip_lock' = Null
    /\ Goto(d, "destroy")
    /\ UNCHANGED <<pszvars, members, role, cpu, bif>>

\* PSLIST_ENTRY_DESTROY and kmem_free
Free(d) ==
    /\ pc[d] = "destroy" /\ dst[bif[d]] = "done"
    /\ state' = [state EXCEPT ![bif[d]] = "free"]
    /\ ple_next' = [ple_next EXCEPT ![bif[d]] = Null]
    /\ Goto(d, "freed")
    /\ bif' = [bif EXCEPT ![d] = Null]
    /\ UNCHANGED <<pszvars, prefvars, bip_lock, role, cpu>>

\* BRIDGE_LOCK of bridge_delete_member and BRIDGE_UNLOCK of its caller
Relock(d) ==
    /\ pc[d] = "freed" /\ bip_lock = Null
    /\ Goto(d, "out")
    /\ UNCHANGED <<pszvars, prefvars, members, bip_lock, role, cpu, bif>>

-----------------------------------------------------------------------------
(* The steps of the components in between                                  *)

Performing ==
    /\ Updater(iflist)
    /\ UNCHANGED <<prefvars, members, bip_lock, lwps>>

CpuSwitches(c) ==
    /\ Switch(c)
    /\ UNCHANGED <<prefvars, members, bip_lock, lwps>>

CpuSoftint(c) ==
    /\ Softint(c, iflist)
    /\ UNCHANGED <<prefvars, members, bip_lock, lwps>>

CpuScans(c) ==
    /\ Scan(c)
    /\ UNCHANGED <<prefvars, members, bip_lock, lwps>>

\* The thread of low priority cross calls has to get the CPU.
XcThread(c, m) ==
    /\ sw[c] = "off" /\ \A l \in Lwp : cpu[l] = c => ~Pinned(l)
    /\ PR!psreffed_p_xc(c, m)
    /\ UNCHANGED <<pszvars, members, bip_lock, lwps>>

Destroyer(m) ==
    /\ PR!Poll(m) \/ PR!Polled(m) \/ PR!Timeout(m)
    /\ UNCHANGED <<pszvars, members, bip_lock, lwps>>

Read(l) == \/ Found(l) \/ bridge_acquire_member(l) \/ Exit(l) \/ Reenter(l)
           \/ Remove(l) \/ Notify(l)

Delete(l) == BRIDGE_PSZ_PERFORM(l) \/ Unlock(l) \/ Free(l) \/ Relock(l)

Next == \/ \E l \in Lwp : Read(l) \/ Delete(l)
        \/ \E l \in Lwp, c \in Cpu : \/ Enter(l, c)
                                     \/ \E m \in Member : bridge_lookup_member_if(l, c, m)
        \/ \E d \in Lwp, m \in Member : Unlink(d, m)
        \/ \E m \in Member : bridge_ioctl_add(m) \/ Destroyer(m)
        \/ Performing
        \/ \E c \in Cpu : \/ CpuSwitches(c) \/ CpuScans(c) \/ CpuSoftint(c)
                          \/ \E m \in Member : XcThread(c, m)

Spec == Init /\ [][Next]_vars

\* Read sections end, bound LWPs get their CPU again and again, and so do
\* the software interrupt and the thread of the cross calls; the LWP that
\* deletes takes its steps, and its timed wait ends.
Fairness == /\ \A l \in Lwp : SF_vars(Read(l)) /\ WF_vars(Delete(l))
            /\ \A m \in Member : WF_vars(Destroyer(m))
            /\ WF_vars(Performing)
            /\ \A c \in Cpu : /\ WF_vars(CpuScans(c))
                              /\ SF_vars(CpuSoftint(c))
                              /\ SF_vars(\E m \in Member : XcThread(c, m))

-----------------------------------------------------------------------------
(* Properties                                                              *)

TypeOK == /\ PszTypeOK /\ PR!TypeOK
          /\ ple_next \in [Member \cup {Null} -> Member \cup {Null}]
          /\ state \in [Member -> {"linked", "unlinked", "free"}]
          /\ bip_lock \in Lwp \cup {Null}
          /\ role \in [Lwp -> Role]
          /\ pc \in [Lwp -> InSection \cup {"out", "hold", "removed",
                            "unlinked", "perform", "destroy", "freed"}]
          /\ cpu \in [Lwp -> Cpu \cup {Null}]
          /\ bif \in [Lwp -> Member \cup {Null}]

\* Nobody looks at a member that has been freed: neither in the walk along
\* the list, nor with a reference, nor when psref_release looks at the
\* target of the reference it has just taken off the list.
NoUseAfterFree == \A l \in Lwp : bif[l] # Null => state[bif[l]] # "free"

\* psref_acquire never meets a target that is being destroyed.
AcquireMeetsLive ==
    \A l \in Lwp : pc[l] = "found" => prt_class[bif[l]] /\ ~prt_draining[bif[l]]

\* A member that is being deleted is freed in the end, however often the
\* list is read meanwhile.  (Stated for one LWP that deletes beside one that
\* reads: with several, they take turns.)
OneEach == \E l \in Lwp : role[l] = "none"
DeletionEnds ==
    OneEach /\ (\E m \in Member : state[m] = "unlinked")
        ~> \A m \in Member : state[m] # "unlinked"
=============================================================================
