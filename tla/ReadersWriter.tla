---------------------------- MODULE ReadersWriter ----------------------------
(***************************************************************************)
(* What a reader/writer lock promises its users, without the lock word,    *)
(* the waiter bits or the queues: an LWP asks for access in a mode, the    *)
(* lock is granted to LWPs that ask, in the mode they asked for, and one   *)
(* writer excludes everybody else.  A release may pass the lock on in the  *)
(* same instant, to one writer or to any number of readers, and so may a   *)
(* downgrade.                                                              *)
(***************************************************************************)
EXTENDS FiniteSets

CONSTANTS Lwp, None

VARIABLES
    want,      \* want[l]: the mode l asks for ("R" or "W"), or "-"
    readers,   \* the LWPs that hold the lock for reading
    writer     \* the LWP that holds it for writing, or None

avars == <<want, readers, writer>>

Init == /\ want = [l \in Lwp |-> "-"]
        /\ readers = {}
        /\ writer = None

Holds(l) == l \in readers \/ l = writer

Ask(l) == /\ ~Holds(l) /\ want[l] = "-"
          /\ \E m \in {"R", "W"} : want' = [want EXCEPT ![l] = m]
          /\ UNCHANGED <<readers, writer>>

\* A try gives up.
Withdraw(l) == /\ want[l] # "-"
               /\ want' = [want EXCEPT ![l] = "-"]
               /\ UNCHANGED <<readers, writer>>

\* From the holders rs and w on, the lock is granted to the LWPs of S, which
\* all ask for it: readers join readers, a writer joins nobody.
GrantFrom(rs, w, S) ==
    /\ want' = [l \in Lwp |-> IF l \in S THEN "-" ELSE want[l]]
    /\ \/ /\ \A l \in S : want[l] = "R"
          /\ S # {} => w = None
          /\ readers' = rs \cup S
          /\ writer' = w
       \/ /\ rs = {} /\ w = None
          /\ \E l \in Lwp : S = {l} /\ want[l] = "W" /\ writer' = l
          /\ readers' = {}

Acquire(l) == GrantFrom(readers, writer, {l})

\* l gives the lock up, and it may pass to LWPs that ask for it.
Release(l) ==
    \E S \in SUBSET Lwp :
        \/ l \in readers /\ GrantFrom(readers \ {l}, writer, S)
        \/ l = writer /\ GrantFrom(readers, None, S)

\* The writer becomes a reader with no writer in between; readers may join.
Downgrade(l) ==
    /\ l = writer
    /\ \E S \in SUBSET Lwp : l \notin S /\ GrantFrom(readers \cup {l}, None, S)

\* The only reader becomes the writer.
Upgrade(l) ==
    /\ readers = {l} /\ writer = None
    /\ readers' = {} /\ writer' = l
    /\ UNCHANGED want

Next == \E l \in Lwp :
    Ask(l) \/ Withdraw(l) \/ Acquire(l) \/ Release(l) \/ Downgrade(l) \/ Upgrade(l)

Spec == Init /\ [][Next]_avars
=============================================================================
