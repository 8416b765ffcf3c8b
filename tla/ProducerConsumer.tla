-------------------------- MODULE ProducerConsumer --------------------------
(***************************************************************************)
(* What a pcq(9) promises: a bounded first-in first-out queue.  An item    *)
(* takes its place when it is put; until its producer is done the consumer *)
(* is told that there is none, and so it is for the items behind it.       *)
(***************************************************************************)
EXTENDS Integers, Sequences

CONSTANTS
    Item,       \* the items, each put at most once
    Capacity    \* how many there is room for

VARIABLES
    queue,      \* the items, in the order in which they were put
    putting,    \* those whose producer is not done yet
    taken       \* the items the consumer got, in the order in which it did

vars == <<queue, putting, taken>>

Init == queue = << >> /\ putting = {} /\ taken = << >>

Put(x) == /\ Len(queue) < Capacity
          /\ queue' = Append(queue, x)
          /\ putting' = putting \cup {x}
          /\ UNCHANGED taken

Publish(x) == /\ x \in putting
              /\ putting' = putting \ {x}
              /\ UNCHANGED <<queue, taken>>

Get == /\ queue # << >>
       /\ Head(queue) \notin putting
       /\ queue' = Tail(queue)
       /\ taken' = Append(taken, Head(queue))
       /\ UNCHANGED putting

Next == Get \/ \E x \in Item : Put(x) \/ Publish(x)

Spec == Init /\ [][Next]_vars
=============================================================================
