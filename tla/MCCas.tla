------------------------------- MODULE MCCas --------------------------------
(***************************************************************************)
(* Small instances of the algorithms whose state is words that are updated *)
(* by compare-and-swap and other atomic operations, and so are open to     *)
(* whoever has read them being late: adaptive mutexes, the lockless queue  *)
(* and interprocessor interrupts.  A behaviour is one of one of them; the  *)
(* others rest in their initial state.                                     *)
(***************************************************************************)
EXTENDS Mutex, Ipi

CONSTANTS Producer, nitems, Width, MaxItem, Null

VARIABLES
    part,       \* which of them
    pcq_pc, pcq_items, ppc, item, v, cpc, cv, citem, notified, offered,
    rejected, taken

Queue == INSTANCE Pcq

ASSUME Queue!PcqAssumption

pcqvars == <<pcq_pc, pcq_items, ppc, item, v, cpc, cv, citem, notified,
             offered, rejected, taken>>

MCInit == /\ part \in {"mutex", "pcq", "ipi"}
          /\ Init /\ Queue!Init /\ IpiInit
          /\ part # "mutex" => \A l \in Lwp : oncpu[l]

\* The producers have nothing left to offer, or the CPUs to send.
AllOffered == /\ \/ part = "pcq" /\ offered = MaxItem
                 \/ part = "ipi" /\ sent = MaxSend
              /\ UNCHANGED <<part, vars, pcqvars, ipivars>>

MCNext == \/ part = "mutex" /\ Next /\ UNCHANGED <<part, pcqvars, ipivars>>
          \/ part = "pcq" /\ Queue!Next /\ UNCHANGED <<part, vars, ipivars>>
          \/ part = "ipi" /\ IpiNext /\ UNCHANGED <<part, vars, pcqvars>>
          \/ AllOffered

MCSpec == /\ MCInit /\ [][MCNext]_<<part, vars, pcqvars, ipivars>>
          /\ \/ part = "mutex" /\ Fairness
             \/ part = "pcq" /\ Queue!Fairness
             \/ part = "ipi" /\ IpiFairness

\* Pcq: the queue is a bounded FIFO, and what is offered is turned away or got.
IsFifo == Queue!IsFifo
ItemsArrive == Queue!ItemsArrive
=============================================================================
