-------------------------------- MODULE Ipi ---------------------------------
(***************************************************************************)
(* Synchronous interprocessor interrupts, sys/kern/subr_ipi.c: a CPU puts  *)
(* a message, which is on its stack, into the mailboxes of others, marks   *)
(* IPI_SYNCH_ID as pending there, interrupts them, and spins until the     *)
(* message has been answered.  There are no locks.  Handlers run on top of *)
(* what the CPU does.  A message is known by the CPU that sends it.  IPIs  *)
(* of other numbers are in Softint.                                        *)
(***************************************************************************)
EXTENDS Integers, FiniteSets, Cpus

CONSTANTS
    IPI_MSG_MAX,    \* the slots of a mailbox
    MaxSend,        \* bound: how many messages are sent altogether
    NoMsg           \* NULL, in a slot

VARIABLES
    synchpend,      \* the CPUs with the bit of IPI_SYNCH_ID set
    ipi,            \* the CPUs with an interrupt on its way
    mbox,           \* the slots of their mailboxes
    pending,        \* the counter in each message
    snd,            \* where the sender of each message is
    targets,        \* the CPUs it has still to send to
    try,            \* the slot it tries
    hdl,            \* where the handler of each CPU is
    slot, msg,      \* the slot it is at, and the message it took from there
    sent            \* the number of messages sent

sender == <<snd, targets, try, sent>>
handler == <<hdl, slot, msg>>
ipivars == <<synchpend, ipi, mbox, pending, sender, handler>>

Slot == 1 .. IPI_MSG_MAX

\* CPUs are known by their numbers; a mailbox has a slot at least.
ASSUME IpiAssumption == /\ Cpu \subseteq Nat /\ IsFiniteSet(Cpu) /\ NoMsg \notin Cpu
                        /\ IPI_MSG_MAX \in Nat \ {0} /\ MaxSend \in Nat

IpiInit == /\ synchpend = {} /\ ipi = {}
           /\ mbox = [c \in Cpu |-> [s \in Slot |-> NoMsg]]
           /\ pending = [c \in Cpu |-> 0]
           /\ snd = [c \in Cpu |-> "out"] /\ targets = [c \in Cpu |-> {}]
           /\ try = [c \in Cpu |-> 1]
           /\ hdl = [c \in Cpu |-> "off"]
           /\ slot = [c \in Cpu |-> 1] /\ msg = [c \in Cpu |-> NoMsg]
           /\ sent = 0

Sender(c, from, to) ==
    /\ snd[c] = from /\ hdl[c] = "off"
    /\ snd' = [snd EXCEPT ![c] = to]

-----------------------------------------------------------------------------
(* ipi_unicast, ipi_multicast and ipi_broadcast, to the other CPUs T.  (The*)
(* function is called on the sender's own CPU as well, if it is a target.) *)

ipi_multicast(c, T) ==
    /\ sent < MaxSend /\ Sender(c, "out", IF T = {} THEN "wait" ELSE "put")
    /\ pending' = [pending EXCEPT ![c] = Cardinality(T)]
    /\ targets' = [targets EXCEPT ![c] = T]
    /\ sent' = sent + 1
    /\ UNCHANGED <<synchpend, ipi, mbox, try, handler>>

\* CPU_INFO_FOREACH
ci(c) == CHOOSE t \in targets[c] : \A u \in targets[c] : t <= u

\* A slot that is free is taken by compare-and-swap; when none is, it starts
\* again.
\* (The variant does not look whether it is free.)
TakenNever(c) == FALSE
Taken(c) == mbox[ci(c)][try[c]] # NoMsg
put_msg(c) ==
    /\ \/ /\ Sender(c, "put", "put") /\ Taken(c)
          /\ try' = [try EXCEPT ![c] = (@ % IPI_MSG_MAX) + 1]
          /\ UNCHANGED mbox
       \/ /\ Sender(c, "put", "test") /\ ~Taken(c)
          /\ mbox' = [mbox EXCEPT ![ci(c)][try[c]] = c]
          /\ try' = [try EXCEPT ![c] = 1]
    /\ UNCHANGED <<synchpend, ipi, pending, targets, sent, handler>>

\* ipi_trigger: if the bit is not set, it is set and the CPU interrupted.
\* After the last CPU ipi_wait is called.
ipi_trigger(c) ==
    LET left == targets[c] \ {ci(c)}
        on == IF left = {} THEN "wait" ELSE "put"
    IN  /\ \/ /\ Sender(c, "test", "or") /\ ci(c) \notin synchpend
              /\ UNCHANGED <<synchpend, ipi, targets>>
           \/ /\ Sender(c, "test", on) /\ ci(c) \in synchpend
              /\ targets' = [targets EXCEPT ![c] = left]
              /\ UNCHANGED <<synchpend, ipi>>
           \/ /\ Sender(c, "or", on)
              /\ synchpend' = synchpend \cup {ci(c)}
              /\ ipi' = ipi \cup {ci(c)}
              /\ targets' = [targets EXCEPT ![c] = left]
        /\ UNCHANGED <<mbox, pending, try, sent, handler>>

ipi_wait(c) ==
    /\ Sender(c, "wait", "out") /\ pending[c] = 0
    /\ UNCHANGED <<synchpend, ipi, mbox, pending, targets, try, sent, handler>>

-----------------------------------------------------------------------------
(* ipi_cpu_handler and ipi_msg_cpu_handler                                 *)

Handler(c, from, to) == hdl[c] = from /\ hdl' = [hdl EXCEPT ![c] = to]

TakeIpi(c) ==
    /\ c \in ipi /\ Handler(c, "off", "swap")
    /\ ipi' = ipi \ {c}
    /\ UNCHANGED <<synchpend, mbox, pending, sender, slot, msg>>

\* ipi_cpu_handler: what is pending is taken, before the mailbox is looked at.
\* (The variant leaves the bit set.)
SwapNot(c) == synchpend
Swap(c) == synchpend \ {c}
TakePending(c) ==
    /\ Handler(c, "swap", IF c \in synchpend THEN "get" ELSE "off")
    /\ synchpend' = Swap(c)
    /\ slot' = [slot EXCEPT ![c] = 1]
    /\ UNCHANGED <<ipi, mbox, pending, sender, msg>>

\* The message of a slot, if there is one, is taken; after the last slot the
\* handler is done.
Get(c) ==
    /\ \/ /\ slot[c] > IPI_MSG_MAX /\ Handler(c, "get", "off")
          /\ UNCHANGED <<mbox, slot, msg>>
       \/ /\ slot[c] <= IPI_MSG_MAX
          /\ slot' = [slot EXCEPT ![c] = @ + 1]
          /\ msg' = [msg EXCEPT ![c] = mbox[c][slot[c]]]
          /\ mbox' = [mbox EXCEPT ![c][slot[c]] = NoMsg]
          /\ Handler(c, "get", IF msg'[c] = NoMsg THEN "get" ELSE "func")
    /\ UNCHANGED <<synchpend, ipi, pending, sender>>

\* The function has been called, and the message is answered.
Ack(c) ==
    /\ Handler(c, "func", "get")
    /\ pending' = [pending EXCEPT ![msg[c]] = @ - 1]
    /\ msg' = [msg EXCEPT ![c] = NoMsg]
    /\ UNCHANGED <<synchpend, ipi, mbox, sender, slot>>

-----------------------------------------------------------------------------
Send(c) == put_msg(c) \/ ipi_trigger(c) \/ ipi_wait(c)

Handle(c) == TakeIpi(c) \/ TakePending(c) \/ Get(c) \/ Ack(c)

IpiNext == \E c \in Cpu : \/ Send(c) \/ Handle(c)
                          \/ \E T \in SUBSET (Cpu \ {c}) : ipi_multicast(c, T)

IpiSpec == IpiInit /\ [][IpiNext]_ipivars

\* The CPUs run, and take the interrupts.
IpiFairness == \A c \in Cpu : WF_ipivars(Send(c)) /\ WF_ipivars(Handle(c))

-----------------------------------------------------------------------------
(* Properties                                                              *)

\* The mailboxes a message is in, and the handlers that have taken it
InMbox(x) == {c \in Cpu : \E s \in Slot : mbox[c][s] = x}
Handled(x) == {c \in Cpu : msg[c] = x}

\* A message is answered once for each target: the counter is the number of
\* CPUs it has still to go to, is waiting at, or is being handled by.  So no
\* CPU knows of a message whose sender has returned, and whose stack is gone.
AnsweredOnce ==
    \A x \in Cpu :
        /\ pending[x] = Cardinality(targets[x]) + Cardinality(InMbox(x))
                        + Cardinality(Handled(x)) - (IF snd[x] \in {"test", "or"} THEN 1 ELSE 0)
        /\ snd[x] = "out" => InMbox(x) \cup Handled(x) = {}

\* ipi_wait returns although bits are tested before they are set, mailboxes
\* are full, and CPUs send to each other at the same time.
WaitReturns == \A c \in Cpu : snd[c] # "out" ~> snd[c] = "out"
=============================================================================
