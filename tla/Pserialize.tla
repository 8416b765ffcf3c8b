----------------------------- MODULE Pserialize -----------------------------
(***************************************************************************)
(* Passive serialization, sys/kern/subr_pserialize.c: read sections that   *)
(* take no lock, and pserialize_perform, which returns when every read     *)
(* section that was open has ended.  A CPU in a read section is at         *)
(* splsoftserial: it neither switches nor takes a software interrupt, so a *)
(* trip of a CPU through pserialize_switchpoint ends what it was reading.  *)
(*                                                                         *)
(* The high priority cross call that pserialize_perform makes is taken to  *)
(* be what XcallHigh shows it is: xc_wait returns when the function has    *)
(* run, from a software interrupt, on every CPU.                           *)
(***************************************************************************)
EXTENDS Integers, FiniteSets

CONSTANTS
    Cpu,            \* kcpuset_running
    Psz             \* the pserialize_t objects, each with its updater

VARIABLES
    psz_queue0,     \* updates that have seen 0 checkpoints
    psz_queue1,     \* those that have seen 1; psz_queue2 is always empty
                    \* when psz_lock is let go
    psz_work_todo,  \* how many updates are queued
    psz_target,     \* psz->psz_target
    psz_pass,       \* psz->psz_pass
    upd,            \* where each updater is in pserialize_perform
    xcall,          \* the CPUs that have its cross call still to run
    sw,             \* where each CPU is in pserialize_switchpoint
    reading,        \* the CPUs that are in a read section
    before          \* those in a section that was open when it was called

pszobj == <<psz_queue0, psz_queue1, psz_work_todo, psz_target, psz_pass>>
pszvars == <<pszobj, upd, xcall, sw, reading, before>>

PszInit == /\ psz_queue0 = {} /\ psz_queue1 = {} /\ psz_work_todo = 0
           /\ psz_target = [p \in Psz |-> {}]
           /\ psz_pass = [p \in Psz |-> {}]
           /\ upd = [p \in Psz |-> "idle"]
           /\ xcall = [p \in Psz |-> {}]
           /\ sw = [c \in Cpu |-> "off"]
           /\ reading = {}
           /\ before = [p \in Psz |-> {}]

-----------------------------------------------------------------------------
(* The readers                                                             *)

\* A CPU that reads takes no software interrupt and does not switch.
\* (In the variant pserialize_read_enter does not raise the level.)
MaySwitchReading(c) == sw[c] = "off"
MaySwitch(c) == sw[c] = "off" /\ c \notin reading

pserialize_read_enter(c) ==
    /\ MaySwitch(c)
    /\ reading' = reading \cup {c}
    /\ UNCHANGED <<pszobj, upd, xcall, sw, before>>

pserialize_read_exit(c) ==
    /\ c \in reading
    /\ reading' = reading \ {c}
    /\ before' = [p \in Psz |-> before[p] \ {c}]
    /\ UNCHANGED <<pszobj, upd, xcall, sw>>

-----------------------------------------------------------------------------
(* pserialize_perform                                                      *)

Perform(p) ==
    /\ upd[p] = "idle"
    /\ psz_target' = [psz_target EXCEPT ![p] = Cpu]
    /\ psz_pass' = [psz_pass EXCEPT ![p] = {}]
    /\ psz_queue0' = psz_queue0 \cup {p}
    /\ psz_work_todo' = psz_work_todo + 1
    /\ upd' = [upd EXCEPT ![p] = "xcall"]
    /\ before' = [before EXCEPT ![p] = reading]
    /\ UNCHANGED <<psz_queue1, xcall, sw, reading>>

\* xc_broadcast
Broadcast(p) ==
    /\ upd[p] = "xcall"
    /\ xcall' = [xcall EXCEPT ![p] = Cpu]
    /\ upd' = [upd EXCEPT ![p] = "wait"]
    /\ UNCHANGED <<pszobj, sw, reading, before>>

\* xc_wait and kpause have returned: done, or once more.
Check(p) ==
    /\ upd[p] = "wait" /\ xcall[p] = {}
    /\ upd' = [upd EXCEPT ![p] = IF psz_target[p] = {} THEN "idle" ELSE "xcall"]
    /\ UNCHANGED <<pszobj, xcall, sw, reading, before>>

-----------------------------------------------------------------------------
(* pserialize_switchpoint                                                  *)

\* "No need to lock in order to test psz_work_todo": the test, with psz_lock
\* still to be taken when there is work.
Test(c) == sw' = [sw EXCEPT ![c] = IF psz_work_todo = 0 THEN "off" ELSE "scan"]

\* A trip through mi_switch ends in a switch point.
Switch(c) ==
    /\ MaySwitch(c)
    /\ Test(c)
    /\ UNCHANGED <<pszobj, upd, xcall, reading, before>>

\* So does the software interrupt that runs the function of a cross call.
Softint(c, p) ==
    /\ MaySwitch(c)
    /\ c \in xcall[p]
    /\ xcall' = [xcall EXCEPT ![p] = @ \ {c}]
    /\ Test(c)
    /\ UNCHANGED <<pszobj, upd, reading, before>>

\* Update p has now seen every CPU: kcpuset_match(psz_pass, psz_target).
Passed(p, c) == psz_pass[p] \cup {c} = psz_target[p]

\* The third queue: those that have been seen twice are done.
Third(done) ==
    /\ psz_target' = [p \in Psz |-> IF p \in done THEN {} ELSE psz_target[p]]
    /\ psz_work_todo' = psz_work_todo - Cardinality(done)

\* With psz_lock: the second queue before the first, so that an update takes
\* one step at a time, and then the third.
Scan(c) ==
    /\ sw[c] = "scan"
    /\ LET one == {p \in psz_queue1 : Passed(p, c)}
           zero == {p \in psz_queue0 : Passed(p, c)}
       IN  /\ psz_queue0' = psz_queue0 \ zero
           /\ psz_queue1' = (psz_queue1 \ one) \cup zero
           /\ psz_pass' = [p \in Psz |->
                IF p \in one \cup zero THEN {}
                ELSE IF p \in psz_queue0 \cup psz_queue1
                     THEN psz_pass[p] \cup {c} ELSE psz_pass[p]]
           /\ Third(one)
    /\ sw' = [sw EXCEPT ![c] = "off"]
    /\ UNCHANGED <<upd, xcall, reading, before>>

-----------------------------------------------------------------------------
Updater(p) == Broadcast(p) \/ Check(p)

PszNext == \/ \E p \in Psz : Perform(p) \/ Updater(p)
           \/ \E c \in Cpu : \/ pserialize_read_enter(c)
                             \/ pserialize_read_exit(c)
                             \/ Switch(c)
                             \/ Scan(c)
                             \/ \E p \in Psz : Softint(c, p)

PszSpec == PszInit /\ [][PszNext]_pszvars

-----------------------------------------------------------------------------
(* Properties                                                              *)

PszTypeOK == /\ psz_queue0 \subseteq Psz /\ psz_queue1 \subseteq Psz
             /\ psz_work_todo \in Nat
             /\ psz_target \in [Psz -> SUBSET Cpu]
             /\ psz_pass \in [Psz -> SUBSET Cpu]
             /\ upd \in [Psz -> {"idle", "xcall", "wait"}]
             /\ xcall \in [Psz -> SUBSET Cpu]
             /\ sw \in [Cpu -> {"off", "scan"}]
             /\ reading \subseteq Cpu
             /\ before \in [Psz -> SUBSET Cpu]

\* pserialize_perform does not return while a read section is open that was
\* open when it was called, whatever other updates are in progress.
GracePeriod ==
    [][\A p \in Psz : upd[p] # "idle" /\ upd'[p] = "idle" => before[p] = {}]_pszvars

\* An update is in the queues, and counted for the unlocked test, for as
\* long as it has CPUs left to see; so none is passed by, or done twice.
QueuesAgree ==
    /\ psz_queue0 \cap psz_queue1 = {}
    /\ psz_work_todo = Cardinality(psz_queue0 \cup psz_queue1)
    /\ \A p \in Psz : p \in psz_queue0 \cup psz_queue1 <=> psz_target[p] # {}
    /\ \A p \in Psz : upd[p] = "idle" => psz_target[p] = {}
=============================================================================
