--------------------------------- MODULE Pcq --------------------------------
(***************************************************************************)
(* The lockless producer/consumer queue of sys/kern/subr_pcq.c: any number *)
(* of producers in pcq_put and one consumer in pcq_get, on memory that is  *)
(* sequentially consistent (the barriers in the code order its accesses).  *)
(*                                                                         *)
(* The two indices share a word of 2 * Width bits, which is updated by     *)
(* compare-and-swap.  Each producer notifies the consumer when it is done, *)
(* as pcq_get asks of it.                                                  *)
(***************************************************************************)
EXTENDS Integers, Sequences, FiniteSets, SequencesExt

CONSTANTS
    Producer,   \* the LWPs that call pcq_put
    nitems,     \* pcq->pcq_nitems
    Width,      \* the bits for an index, 16 in the code
    MaxItem,    \* bound: how many items are put altogether
    Null        \* NULL

\* nitems is at most PCQ_MAXLEN.
PcqAssumption ==
    /\ nitems \in 1 .. 2^Width - 1
    /\ MaxItem \in Nat /\ Null \notin Nat

VARIABLES
    pcq_pc,     \* pcq->pcq_pc
    pcq_items,  \* pcq->pcq_items
    ppc,        \* where each producer is
    item,       \* the item it puts
    v,          \* its copy of pcq_pc
    cpc,        \* where the consumer is
    cv,         \* its copy of pcq_pc
    citem,      \* the item it has found
    notified,   \* whether the consumer has been notified since it woke
    offered,    \* how many items have been offered to pcq_put
    rejected,   \* the items that pcq_put returned false for
    taken       \* the items pcq_get returned

vars == <<pcq_pc, pcq_items, ppc, item, v, cpc, cv, citem, notified, offered,
          rejected, taken>>
pvars == <<ppc, item, v, offered, rejected>>
cvars == <<cpc, cv, citem, taken>>

-----------------------------------------------------------------------------
\* pcq_split and pcq_combine
P(w) == w % 2^Width
C(w) == w \div 2^Width
pcq_combine(p, c) == p + c * 2^Width

pcq_advance(i) == IF i + 1 = nitems THEN 0 ELSE i + 1

Init == /\ pcq_pc = 0
        /\ pcq_items = [i \in 0 .. nitems - 1 |-> Null]
        /\ ppc = [l \in Producer |-> "idle"]
        /\ item = [l \in Producer |-> Null]
        /\ v = [l \in Producer |-> 0]
        /\ cpc = "wait" /\ cv = 0 /\ citem = Null
        /\ notified = FALSE
        /\ offered = 0 /\ rejected = {} /\ taken = << >>

-----------------------------------------------------------------------------
(* pcq_put                                                                 *)

Offer(l) ==
    /\ ppc[l] = "idle"
    /\ offered < MaxItem
    /\ offered' = offered + 1
    /\ item' = [item EXCEPT ![l] = offered + 1]
    /\ ppc' = [ppc EXCEPT ![l] = "load"]
    /\ UNCHANGED <<pcq_pc, pcq_items, v, notified, rejected, cvars>>

IsFull(w) == pcq_advance(P(w)) = C(w)

\* Load the indices; give up if the queue is full.
Load(l) ==
    /\ ppc[l] = "load"
    /\ \/ /\ IsFull(pcq_pc)
          /\ rejected' = rejected \cup {item[l]}
          /\ item' = [item EXCEPT ![l] = Null]
          /\ ppc' = [ppc EXCEPT ![l] = "idle"]
          /\ UNCHANGED v
       \/ /\ ~IsFull(pcq_pc)
          /\ v' = [v EXCEPT ![l] = pcq_pc]
          /\ ppc' = [ppc EXCEPT ![l] = "cas"]
          /\ UNCHANGED <<item, rejected>>
    /\ UNCHANGED <<pcq_pc, pcq_items, notified, offered, cvars>>

\* Claim the slot, or start again if the indices have changed.
PutCas(l) ==
    /\ ppc[l] = "cas"
    /\ IF pcq_pc = v[l]
       THEN /\ pcq_pc' = pcq_combine(pcq_advance(P(v[l])), C(v[l]))
            /\ ppc' = [ppc EXCEPT ![l] = "store"]
       ELSE /\ ppc' = [ppc EXCEPT ![l] = "load"]
            /\ UNCHANGED pcq_pc
    /\ UNCHANGED <<pcq_items, item, v, notified, offered, rejected, cvars>>

Store(l) ==
    /\ ppc[l] = "store"
    /\ pcq_items' = [pcq_items EXCEPT ![P(v[l])] = item[l]]
    /\ ppc' = [ppc EXCEPT ![l] = "notify"]
    /\ item' = [item EXCEPT ![l] = Null]
    /\ v' = [v EXCEPT ![l] = 0]
    /\ UNCHANGED <<pcq_pc, notified, offered, rejected, cvars>>

\* The wake-up of the consumer, by the caller.
Notify(l) ==
    /\ ppc[l] = "notify"
    /\ notified' = TRUE
    /\ ppc' = [ppc EXCEPT ![l] = "idle"]
    /\ UNCHANGED <<pcq_pc, pcq_items, item, v, offered, rejected, cvars>>

-----------------------------------------------------------------------------
(* pcq_get, called until it returns NULL each time the consumer is woken   *)

Wake ==
    /\ cpc = "wait"
    /\ notified
    /\ notified' = FALSE
    /\ cpc' = "get"
    /\ UNCHANGED <<pcq_pc, pcq_items, pvars, cv, citem, taken>>

GetLoad ==
    /\ cpc = "get"
    /\ cv' = pcq_pc
    /\ cpc' = IF P(pcq_pc) = C(pcq_pc) THEN "wait" ELSE "fetch"
    /\ UNCHANGED <<pcq_pc, pcq_items, pvars, notified, citem, taken>>

\* NULL: raced with a producer that is not done.
GetFetch ==
    /\ cpc = "fetch"
    /\ citem' = pcq_items[C(cv)]
    /\ cpc' = IF citem' = Null THEN "wait" ELSE "clear"
    /\ UNCHANGED <<pcq_pc, pcq_items, pvars, notified, cv, taken>>

GetClear ==
    /\ cpc = "clear"
    /\ pcq_items' = [pcq_items EXCEPT ![C(cv)] = Null]
    /\ cpc' = "cas"
    /\ UNCHANGED <<pcq_pc, pvars, notified, cv, citem, taken>>

\* (The variant tries again with the same indices.)
GetReloadNot == UNCHANGED cv
GetReload == cv' = pcq_pc

\* Advance c, loading the indices again until they have not changed.
\* (The variant tries only once.)
GetCasOnce ==
    /\ cpc = "cas"
    /\ pcq_pc' = IF pcq_pc = cv THEN pcq_combine(P(cv), pcq_advance(C(cv)))
                                ELSE pcq_pc
    /\ taken' = Append(taken, citem)
    /\ citem' = Null
    /\ cpc' = "get"
    /\ UNCHANGED <<pcq_items, pvars, notified, cv>>
GetCas ==
    /\ cpc = "cas"
    /\ IF pcq_pc = cv
       THEN /\ pcq_pc' = pcq_combine(P(cv), pcq_advance(C(cv)))
            /\ taken' = Append(taken, citem)
            /\ citem' = Null
            /\ cpc' = "get"
            /\ UNCHANGED cv
       ELSE /\ GetReload
            /\ UNCHANGED <<pcq_pc, taken, citem, cpc>>
    /\ UNCHANGED <<pcq_items, pvars, notified>>

-----------------------------------------------------------------------------
Put(l) == Load(l) \/ PutCas(l) \/ Store(l) \/ Notify(l)
Consume == Wake \/ GetLoad \/ GetFetch \/ GetClear \/ GetCas

Next == Consume \/ \E l \in Producer : Offer(l) \/ Put(l)

Spec == Init /\ [][Next]_vars
Fairness == WF_vars(Consume) /\ \A l \in Producer : WF_vars(Put(l))

-----------------------------------------------------------------------------
(* Properties                                                              *)

\* The slots between c and p, in order.
Used == (P(pcq_pc) - C(pcq_pc)) % nitems
Slot(i) == (C(pcq_pc) + i - 1) % nitems

\* The producers that have claimed slot s.
Claimants(s) == {l \in Producer : ppc[l] = "store" /\ P(v[l]) = s}

\* The item that a slot of the used part holds or is going to hold.
ItemAt(s) ==
    IF Claimants(s) # {} THEN item[CHOOSE l \in Claimants(s) : TRUE]
    ELSE IF cpc = "cas" /\ s = C(pcq_pc) THEN citem
    ELSE pcq_items[s]

\* The queue is a bounded FIFO: an item is in it from the compare-and-swap
\* of its producer to that of the consumer, it holds nitems - 1 items at
\* most, and items are got in the order in which they were put, each once.
Abstract == INSTANCE ProducerConsumer WITH
    Item <- 1 .. MaxItem,
    Capacity <- nitems - 1,
    queue <- [i \in 1 .. Used |-> ItemAt(Slot(i))],
    putting <- {item[l] : l \in {k \in Producer : ppc[k] = "store"}}
IsFifo == Abstract!Spec

\* "We rely on a notification (e.g. softint or wakeup) being generated after
\* the producer's pcq_put(), causing us to retry pcq_get() later": every item
\* that is offered is turned away or got, even if the consumer was told that
\* there was none.
ItemsArrive ==
    \A x \in 1 .. MaxItem :
        offered >= x ~> x \in rejected \/ x \in ToSet(taken)
=============================================================================
