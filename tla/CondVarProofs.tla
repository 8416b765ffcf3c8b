---------------------------- MODULE CondVarProofs ----------------------------
(***************************************************************************)
(* Proofs about condition variables, for any LWPs and any priorities, and  *)
(* about workqueues, whose workers sleep on one, for any queues and works. *)
(***************************************************************************)
EXTENDS CondVar, Workqueue, FiniteSetTheorems, TLAPS

-----------------------------------------------------------------------------
(* Sleep queues without repetition                                         *)

Distinct(q) == \A i, j \in DOMAIN q : q[i] = q[j] => i = j

\* TAILQ_FOREACH stops at a first element.
LEMMA Least ==
    ASSUME NEW S, S \subseteq Nat, S # {}
    PROVE  \E t \in S : \A u \in S : t <= u
<1> DEFINE Less == {p \in Nat \X Nat : p[1] < p[2]}
<1>1. IsWellFoundedOn(Less, Nat)
  BY NatLessThanWellFounded, Zenon DEF OpToRel
<1>2. PICK x \in S : \A y \in S : ~(<<y, x>> \in Less)
  <2> HIDE DEF Less
  <2> QED  BY <1>1, WFMin, Zenon
<1>3. ASSUME NEW y \in S PROVE x <= y
  <2>1. /\ x \in Nat /\ y \in Nat /\ <<y, x>> \notin Less
    BY <1>2, Zenon
  <2>2. ~(y < x)
    BY <2>1, Zenon
  <2> QED  BY <2>1, <2>2
<1> QED  BY <1>3, Zenon

\* Two queues, one behind the other
LEMMA Joined ==
    ASSUME NEW s \in Seq(Lwp), NEW t \in Seq(Lwp)
    PROVE  /\ s \o t \in Seq(Lwp) /\ Len(s \o t) = Len(s) + Len(t)
           /\ \A i \in 1 .. Len(s) + Len(t) :
                 (s \o t)[i] = IF i <= Len(s) THEN s[i] ELSE t[i - Len(s)]
  OBVIOUS

\* A queue with l put in at place n
PutAt(q, l, n) == SubSeq(q, 1, n - 1) \o <<l>> \o SubSeq(q, n, Len(q))

IsPut(r, q, l, n) ==
    /\ r \in Seq(Lwp) /\ Len(r) = Len(q) + 1 /\ r[n] = l
    /\ \A i \in 1 .. Len(q) + 1 : /\ i < n => r[i] = q[i]
                                  /\ i > n => r[i] = q[i - 1]

\* Inserting at a place puts what is before it and behind it where it belongs.
LEMMA PutIn ==
    ASSUME NEW q \in Seq(Lwp), NEW l \in Lwp, NEW n \in 1 .. Len(q) + 1
    PROVE  IsPut(PutAt(q, l, n), q, l, n)
<1> DEFINE a == SubSeq(q, 1, n - 1)
           b == SubSeq(q, n, Len(q))
           c == a \o <<l>>
           r == PutAt(q, l, n)
<1>1. Len(q) \in Nat /\ n \in Nat
  OBVIOUS
<1>2. /\ a \in Seq(Lwp) /\ Len(a) = n - 1 /\ \A i \in 1 .. n - 1 : a[i] = q[i]
  BY <1>1
<1>3. /\ b \in Seq(Lwp) /\ Len(b) = Len(q) - n + 1 /\ \A i \in 1 .. Len(q) - n + 1 : b[i] = q[n + i - 1]
  BY <1>1
<1> HIDE DEF a, b
<1>4. /\ c \in Seq(Lwp) /\ Len(c) = n /\ c[n] = l /\ \A i \in 1 .. n - 1 : c[i] = q[i]
  <2>1. <<l>> \in Seq(Lwp) /\ Len(<<l>>) = 1 /\ <<l>>[1] = l
    OBVIOUS
  <2>2. c \in Seq(Lwp) /\ Len(c) = Len(a) + 1
        /\ \A i \in 1 .. Len(a) + 1 : c[i] = IF i <= Len(a) THEN a[i] ELSE <<l>>[i - Len(a)]
    BY <1>2, <2>1, Joined, Zenon
  <2> HIDE DEF c
  <2>3. n \in 1 .. Len(a) + 1 /\ ~(n <= Len(a)) /\ n - Len(a) = 1 /\ Len(a) + 1 = n
    BY <1>1, <1>2
  <2>4. c[n] = l
    BY <2>1, <2>2, <2>3, Zenon
  <2>5. ASSUME NEW i \in 1 .. n - 1 PROVE c[i] = q[i]
    <3>1. i \in 1 .. Len(a) + 1 /\ i <= Len(a)
      BY <1>1, <1>2
    <3> QED  BY <1>2, <2>2, <3>1, Zenon
  <2> QED  BY <2>2, <2>3, <2>4, <2>5, Zenon
<1> HIDE DEF c
<1>5. r = c \o b
  BY Zenon DEF c, a, b, PutAt
<1>6. /\ c \o b \in Seq(Lwp) /\ Len(c \o b) = n + (Len(q) - n + 1)
      /\ \A i \in 1 .. n + (Len(q) - n + 1) : (c \o b)[i] = IF i <= n THEN c[i] ELSE b[i - n]
  BY <1>3, <1>4, Joined
<1> HIDE DEF r
<1>7. /\ r \in Seq(Lwp) /\ Len(r) = Len(q) + 1
      /\ \A i \in 1 .. Len(q) + 1 : r[i] = IF i <= n THEN c[i] ELSE b[i - n]
  BY <1>1, <1>5, <1>6
<1>8. r[n] = l
  BY <1>1, <1>4, <1>7
<1>9. ASSUME NEW i \in 1 .. Len(q) + 1, i < n PROVE r[i] = q[i]
  BY <1>1, <1>4, <1>7, <1>9
<1>10. ASSUME NEW i \in 1 .. Len(q) + 1, i > n PROVE r[i] = q[i - 1]
  <2>1. r[i] = b[i - n] /\ i - n \in 1 .. Len(q) - n + 1
    BY <1>1, <1>7, <1>10
  <2>2. b[i - n] = q[n + (i - n) - 1]
    BY <1>3, <2>1, Zenon
  <2>3. n + (i - n) - 1 = i - 1
    BY <1>1
  <2> QED  BY <2>1, <2>2, <2>3, Zenon
<1> QED  BY <1>7, <1>8, <1>9, <1>10, Zenon DEF r, IsPut

\* sleepq_insert adds the LWP to the queue, wherever its place is.
LEMMA InsertIn ==
    ASSUME NEW q \in Seq(Lwp), NEW l \in Lwp, NEW p, Distinct(q), l \notin Members(q)
    PROVE  /\ Insert(q, l, p) \in Seq(Lwp) /\ Insert(q, l, p) # << >>
           /\ Distinct(Insert(q, l, p))
           /\ \A k \in Lwp : k \in Members(Insert(q, l, p)) <=> k \in Members(q) \/ k = l
<1> DEFINE lower == {i \in 1 .. Len(q) : p[q[i]] < p[l]}
           n == IF lower = {} THEN Len(q) + 1 ELSE CHOOSE i \in lower : \A j \in lower : i <= j
           r == PutAt(q, l, n)
<1>1. Len(q) \in Nat /\ DOMAIN q = 1 .. Len(q) /\ \A i \in 1 .. Len(q) : q[i] \in Lwp
  OBVIOUS
<1>2. n \in 1 .. Len(q) + 1
  <2>1. CASE lower = {}
    BY <1>1, <2>1
  <2>2. CASE lower # {}
    <3>1. lower \subseteq Nat
      BY <1>1
    <3>2. n \in lower
      BY <2>2, <3>1, Least, Zenon
    <3> QED  BY <1>1, <3>2
  <2> QED  BY <2>1, <2>2, Zenon
<1>3. Insert(q, l, p) = r
  BY Zenon DEF Insert, PutAt
<1> HIDE DEF n
<1>4. /\ r \in Seq(Lwp) /\ Len(r) = Len(q) + 1 /\ r[n] = l
      /\ \A i \in 1 .. Len(q) + 1 : /\ i < n => r[i] = q[i]
                                    /\ i > n => r[i] = q[i - 1]
  <2>1. IsPut(r, q, l, n)
    BY <1>2, PutIn, Zenon
  <2> QED  BY <2>1, Zenon DEF IsPut
<1> HIDE DEF r
<1>5. DOMAIN r = 1 .. Len(q) + 1 /\ r # << >>
  BY <1>1, <1>4
<1>6. \A i \in 1 .. Len(q) : q[i] # l
  BY <1>1, Zenon DEF Members
<1>7. Distinct(r)
  <2> SUFFICES ASSUME NEW i \in 1 .. Len(q) + 1, NEW j \in 1 .. Len(q) + 1, r[i] = r[j]
               PROVE  i = j
    BY <1>5, Zenon DEF Distinct
  <2>1. ASSUME NEW m \in 1 .. Len(q) + 1, m # n
        PROVE  /\ m < n => m \in DOMAIN q /\ r[m] = q[m]
               /\ ~(m < n) => m - 1 \in DOMAIN q /\ r[m] = q[m - 1]
    <3>1. m < n => m \in DOMAIN q
      BY <1>1, <1>2
    <3>2. ~(m < n) => m > n /\ m - 1 \in DOMAIN q
      BY <1>1, <1>2, <2>1
    <3> QED  BY <1>4, <3>1, <3>2, Zenon
  <2>2. ASSUME NEW m \in 1 .. Len(q) + 1, m # n PROVE r[m] # l
    BY <1>1, <1>6, <2>1, <2>2, Zenon
  <2>3. i = n <=> j = n
    BY <1>4, <2>2, Zenon
  <2>4. CASE i # n
    <3>1. /\ i < n /\ j < n => i = j
          /\ i < n /\ ~(j < n) => i = j - 1
          /\ ~(i < n) /\ j < n => i - 1 = j
          /\ ~(i < n) /\ ~(j < n) => i - 1 = j - 1
      BY <2>1, <2>3, <2>4, ZenonT(30) DEF Distinct
    <3> QED  BY <1>1, <1>2, <2>3, <2>4, <3>1
  <2> QED  BY <2>3, <2>4, Zenon
<1>8. ASSUME NEW k \in Lwp PROVE k \in Members(r) <=> k \in Members(q) \/ k = l
  <2>1. ASSUME k \in Members(r) PROVE k \in Members(q) \/ k = l
    <3>1. PICK i \in 1 .. Len(q) + 1 : r[i] = k
      BY <1>5, <2>1, Zenon DEF Members
    <3>2. i < n => i \in DOMAIN q
      BY <1>1, <1>2
    <3>3. i > n => i - 1 \in DOMAIN q
      BY <1>1, <1>2
    <3> QED  BY <1>2, <1>4, <3>1, <3>2, <3>3 DEF Members
  <2>2. ASSUME k \in Members(q) PROVE k \in Members(r)
    <3>1. PICK i \in 1 .. Len(q) : q[i] = k
      BY <1>1, <2>2, Zenon DEF Members
    <3>2. i < n => i \in DOMAIN r /\ r[i] = k
      BY <1>1, <1>2, <1>4, <1>5, <3>1
    <3>3. ~(i < n) => i + 1 \in DOMAIN r /\ r[i + 1] = k
      BY <1>1, <1>2, <1>4, <1>5, <3>1
    <3> QED  BY <3>2, <3>3, Zenon DEF Members
  <2>3. l \in Members(r)
    BY <1>2, <1>4, <1>5, Zenon DEF Members
  <2> QED  BY <2>1, <2>2, <2>3, Zenon
<1> QED  BY <1>3, <1>4, <1>5, <1>7, <1>8, Zenon

\* A queue with what is at place n taken out
Cut(q, n) == SubSeq(q, 1, n - 1) \o SubSeq(q, n + 1, Len(q))

\* Taking out what is at a place moves up what is behind it.
LEMMA TakeOut ==
    ASSUME NEW q \in Seq(Lwp), NEW n \in 1 .. Len(q)
    PROVE  /\ Cut(q, n) \in Seq(Lwp) /\ Len(Cut(q, n)) = Len(q) - 1
           /\ \A i \in 1 .. Len(q) - 1 : Cut(q, n)[i] = IF i < n THEN q[i] ELSE q[i + 1]
<1> DEFINE a == SubSeq(q, 1, n - 1)
           b == SubSeq(q, n + 1, Len(q))
           r == Cut(q, n)
<1>1. Len(q) \in Nat /\ n \in Nat
  OBVIOUS
<1>2. /\ a \in Seq(Lwp) /\ Len(a) = n - 1 /\ \A i \in 1 .. n - 1 : a[i] = q[i]
  BY <1>1
<1>3. /\ b \in Seq(Lwp) /\ Len(b) = Len(q) - n /\ \A i \in 1 .. Len(q) - n : b[i] = q[n + i]
  BY <1>1
<1>4. r = a \o b
  BY Zenon DEF Cut
<1> HIDE DEF a, b, r
<1>5. /\ r \in Seq(Lwp) /\ Len(r) = Len(a) + Len(b)
      /\ \A i \in 1 .. Len(a) + Len(b) : r[i] = IF i <= Len(a) THEN a[i] ELSE b[i - Len(a)]
  BY <1>2, <1>3, <1>4, Joined, Zenon
<1>6. /\ r \in Seq(Lwp) /\ Len(r) = Len(q) - 1
      /\ \A i \in 1 .. Len(q) - 1 : r[i] = IF i <= n - 1 THEN a[i] ELSE b[i - (n - 1)]
  <2>1. Len(a) + Len(b) = Len(q) - 1
    BY <1>1, <1>2, <1>3
  <2> QED  BY <1>2, <1>5, <2>1, Zenon
<1>7. ASSUME NEW i \in 1 .. Len(q) - 1 PROVE r[i] = IF i < n THEN q[i] ELSE q[i + 1]
  <2>1. CASE i < n
    <3>1. i <= n - 1 /\ i \in 1 .. n - 1
      BY <1>1, <2>1
    <3>2. r[i] = a[i] /\ a[i] = q[i]
      BY <1>2, <1>6, <3>1, Zenon
    <3> QED  BY <2>1, <3>2, Zenon
  <2>2. CASE ~(i < n)
    <3>0. ~(i <= n - 1) /\ i - (n - 1) \in 1 .. Len(q) - n
      BY <1>1, <2>2
    <3>1. r[i] = b[i - (n - 1)] /\ i - (n - 1) \in 1 .. Len(q) - n
      BY <1>6, <3>0, Zenon
    <3>2. b[i - (n - 1)] = q[n + (i - (n - 1))]
      BY <1>3, <3>1, Zenon
    <3>3. n + (i - (n - 1)) = i + 1
      BY <1>1
    <3> QED  BY <2>2, <3>1, <3>2, <3>3, Zenon
  <2> QED  BY <2>1, <2>2, Zenon
<1> QED  BY <1>6, <1>7, Zenon DEF r

\* Taking an element out of a queue without repetition leaves the others.
LEMMA OthersStay ==
    ASSUME NEW q \in Seq(Lwp), Distinct(q), NEW n \in 1 .. Len(q), NEW r \in Seq(Lwp),
           Len(r) = Len(q) - 1,
           \A i \in 1 .. Len(q) - 1 : r[i] = IF i < n THEN q[i] ELSE q[i + 1]
    PROVE  /\ Distinct(r) /\ q[n] \in Lwp
           /\ \A k \in Lwp : k \in Members(r) <=> k \in Members(q) /\ k # q[n]
<1> DEFINE f(m) == IF m < n THEN m ELSE m + 1
<1>1. /\ Len(q) \in Nat /\ DOMAIN q = 1 .. Len(q) /\ DOMAIN r = 1 .. Len(q) - 1 /\ q[n] \in Lwp
  OBVIOUS
<1>2. \A i \in 1 .. Len(q) - 1 : f(i) \in 1 .. Len(q) /\ r[i] = q[f(i)] /\ f(i) # n
  BY <1>1
<1>3. Distinct(r)
  <2> SUFFICES ASSUME NEW i \in 1 .. Len(q) - 1, NEW j \in 1 .. Len(q) - 1, r[i] = r[j]
               PROVE  i = j
    BY <1>1, Zenon DEF Distinct
  <2>1. f(i) = f(j)
    BY <1>1, <1>2, ZenonT(30) DEF Distinct
  <2> QED  BY <1>1, <2>1
<1>4. ASSUME NEW k \in Lwp PROVE k \in Members(r) <=> k \in Members(q) /\ k # q[n]
  <2>1. ASSUME k \in Members(r) PROVE k \in Members(q) /\ k # q[n]
    <3>1. PICK i \in 1 .. Len(q) - 1 : r[i] = k
      BY <1>1, <2>1, Zenon DEF Members
    <3>2. f(i) \in 1 .. Len(q) /\ k = q[f(i)] /\ f(i) # n
      BY <1>2, <3>1, Zenon
    <3> HIDE DEF f
    <3> QED  BY <1>1, <3>2, Zenon DEF Members, Distinct
  <2>2. ASSUME k \in Members(q), k # q[n] PROVE k \in Members(r)
    <3>1. PICK i \in 1 .. Len(q) : q[i] = k
      BY <1>1, <2>2, Zenon DEF Members
    <3>2. i < n => i \in DOMAIN r /\ r[i] = k
      BY <1>1, <3>1
    <3>3. ~(i < n) => i - 1 \in DOMAIN r /\ r[i - 1] = k
      BY <1>1, <2>2, <3>1
    <3> QED  BY <3>2, <3>3, Zenon DEF Members
  <2> QED  BY <2>1, <2>2, Zenon
<1> QED  BY <1>1, <1>3, <1>4, Zenon

\* TAILQ_REMOVE takes out the LWP; a queue with others is not empty after it.
LEMMA WithoutIn ==
    ASSUME NEW q \in Seq(Lwp), NEW l \in Members(q), Distinct(q)
    PROVE  /\ Without(q, l) \in Seq(Lwp) /\ Distinct(Without(q, l))
           /\ q # <<l>> => Without(q, l) # << >>
           /\ \A k \in Lwp : k \in Members(Without(q, l)) <=> k \in Members(q) /\ k # l
<1> DEFINE n == CHOOSE i \in 1 .. Len(q) : q[i] = l
           r == Cut(q, n)
<1>1. n \in 1 .. Len(q) /\ q[n] = l
  BY DEF Members
<1>2. Without(q, l) = r
  BY Zenon DEF Without, Cut
<1> HIDE DEF n
<1>3. /\ r \in Seq(Lwp) /\ Len(r) = Len(q) - 1
      /\ \A i \in 1 .. Len(q) - 1 : r[i] = IF i < n THEN q[i] ELSE q[i + 1]
  BY <1>1, TakeOut, Zenon
<1> HIDE DEF r
<1>4. q # <<l>> => r # << >>
  <2> SUFFICES ASSUME r = << >> PROVE q = <<l>>
    BY Zenon
  <2>1. Len(q) = 1
    BY <1>1, <1>3
  <2> QED  BY <1>1, <2>1
<1>5. Distinct(r) /\ \A k \in Lwp : k \in Members(r) <=> k \in Members(q) /\ k # q[n]
  BY <1>1, <1>3, OthersStay, Zenon
<1> QED  BY <1>1, <1>2, <1>3, <1>4, <1>5, Zenon

\* TAILQ_REMOVE of the head
LEMMA TailIn ==
    ASSUME NEW q \in Seq(Lwp), q # << >>, Distinct(q)
    PROVE  /\ Tail(q) \in Seq(Lwp) /\ Distinct(Tail(q)) /\ Head(q) \in Members(q) /\ Head(q) \in Lwp
           /\ \A k \in Lwp : k \in Members(Tail(q)) <=> k \in Members(q) /\ k # Head(q)
<1>1. /\ Tail(q) \in Seq(Lwp) /\ Len(Tail(q)) = Len(q) - 1 /\ 1 \in 1 .. Len(q) /\ Head(q) = q[1]
      /\ \A i \in 1 .. Len(q) - 1 : Tail(q)[i] = IF i < 1 THEN q[i] ELSE q[i + 1]
  OBVIOUS
<1>2. Head(q) \in Members(q)
  BY <1>1 DEF Members
<1>3. /\ Distinct(Tail(q)) /\ q[1] \in Lwp
      /\ \A k \in Lwp : k \in Members(Tail(q)) <=> k \in Members(q) /\ k # q[1]
  BY <1>1, OthersStay, Zenon
<1> QED  BY <1>1, <1>2, <1>3, Zenon

-----------------------------------------------------------------------------
(* The invariant                                                           *)

Place == {"idle", "test", "give", "leave", "signal", "broadcast", "wakeup_one", "wakeup_all",
          "woken", "exit", "asleep"}
Way == {"test", "signal", "wakeup_one", "woken", "exit"}
Broad == {"broadcast", "wakeup_all"}

CvTypeOK == /\ pc \in [Lwp -> Place] /\ avail \in Nat /\ moving \in Lwp \cup {None}
            /\ sq \in Seq(Lwp)
            /\ timo \in [Lwp -> {"off", "pending", "firing", "fired"}]

\* Those who sleep are on the queue, once, but for the one sleepq_reinsert is
\* moving; and while it is, the queue is not empty.
Queued == /\ Distinct(sq) /\ moving \notin Members(sq)
          /\ \A l \in Lwp : pc[l] = "asleep" <=> l \in Members(sq) \/ l = moving
          /\ moving # None => sq # << >>

\* What NoLostWakeup says, and more: however many sleep, all that is available
\* has somebody who is on the way to it.
NobodySleeps == \A l \in Lwp : pc[l] # "asleep"
Enough == \/ \E l \in Lwp : pc[l] \in Broad
          \/ avail <= Cardinality(OnTheirWay)
          \/ NobodySleeps

\* A time-out belongs to a timed wait.
TimeoutsBelong == \A l \in Lwp : timo[l] \in {"pending", "firing"} => l \in timed

CvInv == CvTypeOK /\ Queued /\ Enough /\ TimeoutsBelong

-----------------------------------------------------------------------------

\* The LWPs on their way and the sleepers can be counted.
LEMMA WayFinite == /\ IsFiniteSet(OnTheirWay) /\ Cardinality(OnTheirWay) \in Nat
                   /\ OnTheirWay = {l \in Lwp : pc[l] \in Way}
<1>1. OnTheirWay \subseteq Lwp /\ OnTheirWay = {l \in Lwp : pc[l] \in Way}
  BY Zenon DEF OnTheirWay, Way
<1> QED  BY <1>1, CondVarAssumption, FS_Subset, FS_CardinalityType, Zenon

\* NoLostWakeup follows: if nobody sleeps there is nobody to serve.
LEMMA InvNoLost == CvInv => NoLostWakeup
<1> SUFFICES ASSUME CvInv PROVE NoLostWakeup
  BY Zenon
<1>1. CASE NobodySleeps
  <2>1. {l \in Lwp : pc[l] = "asleep"} = {}
    BY <1>1, Zenon DEF NobodySleeps
  <2>2. Cardinality({l \in Lwp : pc[l] = "asleep"}) <= Cardinality(OnTheirWay)
    BY <2>1, FS_EmptySet, WayFinite
  <2> QED  BY <2>2, Zenon DEF NoLostWakeup
<1> QED  BY <1>1, Zenon DEF CvInv, Enough, NoLostWakeup, Broad

\* Nobody waits after cv_init.
LEMMA CvInitInv == Init => CvInv
<1> SUFFICES ASSUME Init PROVE CvInv
  BY Zenon
<1>1. CvTypeOK
  BY DEF Init, CvTypeOK, Place
<1>2. /\ Members(sq) = {} /\ Distinct(sq) /\ moving = None
  BY DEF Init, Members, Distinct
<1>3. \A l \in Lwp : pc[l] # "asleep" /\ timo[l] \notin {"pending", "firing"} /\ l # None
  BY CondVarAssumption, Zenon DEF Init
<1>4. Queued
  BY <1>2, <1>3, Zenon DEF Queued
<1>5. Enough /\ TimeoutsBelong
  BY <1>3, Zenon DEF Enough, NobodySleeps, TimeoutsBelong
<1> QED  BY <1>1, <1>4, <1>5, Zenon DEF CvInv

-----------------------------------------------------------------------------
(* Steps of one LWP                                                        *)

\* An LWP that was not asleep goes on, and the queue stays as it is.
LEMMA GotoQueued ==
    ASSUME CvTypeOK, Queued, NEW l \in Lwp, NEW p \in Place, Goto(l, p),
           pc[l] # "asleep", p # "asleep", UNCHANGED <<sq, moving>>
    PROVE  Queued'
<1>1. /\ pc'[l] = p /\ \A k \in Lwp : k # l => pc'[k] = pc[k]
  BY Zenon DEF CvTypeOK, Goto
<1>2. \A k \in Lwp : pc'[k] = "asleep" <=> pc[k] = "asleep"
  BY <1>1, Zenon
<1> QED  BY <1>2, Zenon DEF Queued

\* What is available and those on their way go up or down together.
LEMMA Together ==
    ASSUME NEW a \in Nat, NEW b \in Nat, NEW m \in Nat, b <= m
    PROVE  /\ a + 1 <= b + 0 => a <= m - 1
           /\ a + 0 <= b + 1 => a <= m + 1
           /\ a + 1 <= b + 1 \/ a + 0 <= b + 0 => a <= m
  OBVIOUS

\* An LWP goes on, or wakes up, and what is available does not grow by more
\* than the number of those on their way.
LEMMA GotoEnough ==
    ASSUME CvTypeOK, Enough, NEW l \in Lwp, NEW p \in Place, Goto(l, p),
           pc[l] \notin Broad, p # "asleep", avail' \in Nat,
           avail' + (IF pc[l] \in Way THEN 1 ELSE 0) <= avail + (IF p \in Way THEN 1 ELSE 0)
    PROVE  Enough'
<1>1. /\ pc'[l] = p /\ \A k \in Lwp : k # l => pc'[k] = pc[k]
  BY Zenon DEF CvTypeOK, Goto
<1>2. CASE \E k \in Lwp : pc[k] \in Broad
  BY <1>1, <1>2, Zenon DEF Enough
<1>3. CASE NobodySleeps
  BY <1>1, <1>3, Zenon DEF Enough, NobodySleeps
<1>4. CASE avail <= Cardinality(OnTheirWay)
  <2>1. /\ IsFiniteSet(OnTheirWay) /\ Cardinality(OnTheirWay) \in Nat
        /\ OnTheirWay = {k \in Lwp : pc[k] \in Way}
    BY WayFinite, Zenon
  <2>2. OnTheirWay' = {k \in Lwp : pc'[k] \in Way}
    BY Zenon DEF OnTheirWay, Way
  <2>3. avail \in Nat
    BY Zenon DEF CvTypeOK
  <2>4. CASE pc[l] \in Way /\ p \notin Way
    <3>1. OnTheirWay' = OnTheirWay \ {l} /\ l \in OnTheirWay
      BY <1>1, <2>1, <2>2, <2>4, Zenon
    <3>2. Cardinality(OnTheirWay') = Cardinality(OnTheirWay) - 1
      BY <2>1, <3>1, FS_RemoveElement, Zenon
    <3>3. avail' + 1 <= avail + 0
      BY <2>4, Zenon
    <3>4. avail' <= Cardinality(OnTheirWay) - 1
      BY <1>4, <2>1, <2>3, <3>3, Together, Zenon
    <3>5. avail' <= Cardinality(OnTheirWay')
      BY <3>2, <3>4, Zenon
    <3> QED  BY <3>5, Zenon DEF Enough
  <2>5. CASE pc[l] \notin Way /\ p \in Way
    <3>1. OnTheirWay' = OnTheirWay \cup {l} /\ l \notin OnTheirWay
      BY <1>1, <2>1, <2>2, <2>5, Zenon
    <3>2. Cardinality(OnTheirWay') = Cardinality(OnTheirWay) + 1
      BY <2>1, <3>1, FS_AddElement, Zenon
    <3>3. avail' + 0 <= avail + 1
      BY <2>5, Zenon
    <3>4. avail' <= Cardinality(OnTheirWay) + 1
      BY <1>4, <2>1, <2>3, <3>3, Together, Zenon
    <3>5. avail' <= Cardinality(OnTheirWay')
      BY <3>2, <3>4, Zenon
    <3> QED  BY <3>5, Zenon DEF Enough
  <2>6. CASE pc[l] \in Way <=> p \in Way
    <3>1. OnTheirWay' = OnTheirWay
      BY <1>1, <2>1, <2>2, <2>6, Zenon
    <3>2. avail' + 1 <= avail + 1 \/ avail' + 0 <= avail + 0
      BY <2>6, Zenon
    <3>4. avail' <= Cardinality(OnTheirWay')
      BY <1>4, <2>1, <2>3, <3>1, <3>2, Together, Zenon
    <3> QED  BY <3>4, Zenon DEF Enough
  <2> QED  BY <2>4, <2>5, <2>6, Zenon
<1> QED  BY <1>2, <1>3, <1>4, Zenon DEF Enough

\* An empty queue means that nobody sleeps, even while an LWP is moved.
LEMMA EmptyQueue ==
    ASSUME Queued, sq = << >>
    PROVE  NobodySleeps
<1>1. Members(sq) = {}
  BY DEF Members
<1> QED  BY <1>1, CondVarAssumption, Zenon DEF Queued, NobodySleeps

\* The callers' steps, and those that only look
LEMMA MutexInv ==
    ASSUME CvInv, NEW l \in Lwp, MutexEnter(l) \/ MutexExit(l)
    PROVE  CvInv'
<1>1. CvTypeOK /\ Queued /\ Enough /\ TimeoutsBelong
  BY Zenon DEF CvInv
<1>2. /\ avail' = avail /\ sq' = sq /\ moving' = moving /\ timo' = timo /\ timed' = timed
  BY Zenon DEF MutexEnter, MutexExit, waitvars
<1>3. PICK p \in {"test", "give", "idle"} : Goto(l, p) /\ pc[l] \in {"idle", "leave"}
  BY Zenon DEF MutexEnter, MutexExit
<1>4. /\ p \in Place /\ p # "asleep" /\ pc[l] # "asleep" /\ pc[l] \notin Broad /\ pc[l] \notin Way
  BY <1>3, Zenon DEF Place, Broad, Way
<1>5. avail' \in Nat
  BY <1>1, <1>2, Zenon DEF CvTypeOK
<1>6. avail' + (IF pc[l] \in Way THEN 1 ELSE 0) <= avail + (IF p \in Way THEN 1 ELSE 0)
  BY <1>2, <1>4, <1>5
<1>7. CvTypeOK'
  BY <1>1, <1>2, <1>3, <1>4, Zenon DEF CvTypeOK, Goto
<1>8. Queued'
  BY <1>1, <1>2, <1>3, <1>4, GotoQueued, Zenon
<1>9. Enough'
  BY <1>1, <1>3, <1>4, <1>5, <1>6, GotoEnough, Zenon
<1>10. TimeoutsBelong'
  BY <1>1, <1>2, Zenon DEF TimeoutsBelong
<1> QED  BY <1>7, <1>8, <1>9, <1>10, Zenon DEF CvInv

\* More is available, and a signal is due for it, or a broadcast; or less is.
LEMMA GiveInv ==
    ASSUME CvInv, NEW l \in Lwp, Give(l) \/ Take(l)
    PROVE  CvInv'
<1>1. CvTypeOK /\ Queued /\ Enough /\ TimeoutsBelong
  BY Zenon DEF CvInv
<1>2. /\ sq' = sq /\ moving' = moving /\ timo' = timo /\ timed' = timed /\ avail \in Nat
  BY <1>1, Zenon DEF Give, Take, waitvars, CvTypeOK
<1>3. \/ pc[l] = "give" /\ avail' = avail + 1 /\ Goto(l, "signal")
      \/ pc[l] = "give" /\ avail' = avail + 2 /\ Goto(l, "broadcast")
      \/ pc[l] = "give" /\ avail' = avail /\ Goto(l, "leave")
      \/ pc[l] = "test" /\ avail > 0 /\ avail' = avail - 1 /\ Goto(l, "leave")
  BY Zenon DEF Give, Take
<1>4. avail' \in Nat
  BY <1>2, <1>3
<1>5. PICK p \in {"signal", "broadcast", "leave"} : Goto(l, p) /\ pc[l] \in {"give", "test"}
  BY <1>3, Zenon
<1>6. /\ p \in Place /\ p # "asleep" /\ pc[l] # "asleep" /\ pc[l] \notin Broad
  BY <1>5, Zenon DEF Place, Broad
<1>7. CvTypeOK'
  BY <1>1, <1>2, <1>4, <1>5, <1>6, Zenon DEF CvTypeOK, Goto
<1>8. Queued'
  BY <1>1, <1>2, <1>5, <1>6, GotoQueued, Zenon
<1>9. Enough'
  <2>1. CASE pc[l] = "give" /\ avail' = avail + 1 /\ Goto(l, "signal")
    <3>1. avail' + (IF pc[l] \in Way THEN 1 ELSE 0) <= avail + (IF "signal" \in Way THEN 1 ELSE 0)
      BY <1>2, <2>1 DEF Way
    <3>2. "signal" \in Place /\ "signal" # "asleep"
      BY Zenon DEF Place
    <3> QED  BY <1>1, <1>4, <1>6, <2>1, <3>1, <3>2, GotoEnough, ZenonT(30)
  <2>2. CASE Goto(l, "broadcast")
    <3>1. pc'[l] \in Broad
      BY <1>1, <2>2, Zenon DEF Goto, CvTypeOK, Broad
    <3> QED  BY <3>1, Zenon DEF Enough
  <2>3. CASE pc[l] = "give" /\ avail' = avail /\ Goto(l, "leave")
    <3>1. avail' + (IF pc[l] \in Way THEN 1 ELSE 0) <= avail + (IF "leave" \in Way THEN 1 ELSE 0)
      BY <1>2, <2>3 DEF Way
    <3>2. "leave" \in Place /\ "leave" # "asleep"
      BY Zenon DEF Place
    <3> QED  BY <1>1, <1>4, <1>6, <2>3, <3>1, <3>2, GotoEnough, ZenonT(30)
  <2>4. CASE pc[l] = "test" /\ avail > 0 /\ avail' = avail - 1 /\ Goto(l, "leave")
    <3>1. avail' + (IF pc[l] \in Way THEN 1 ELSE 0) <= avail + (IF "leave" \in Way THEN 1 ELSE 0)
      BY <1>2, <2>4 DEF Way
    <3>2. "leave" \in Place /\ "leave" # "asleep"
      BY Zenon DEF Place
    <3> QED  BY <1>1, <1>4, <1>6, <2>4, <3>1, <3>2, GotoEnough, ZenonT(30)
  <2> QED  BY <1>3, <2>1, <2>2, <2>3, <2>4, Zenon
<1>10. TimeoutsBelong'
  BY <1>1, <1>2, Zenon DEF TimeoutsBelong
<1> QED  BY <1>7, <1>8, <1>9, <1>10, Zenon DEF CvInv

\* cv_signal and cv_broadcast without the lock: an empty queue means that there
\* is nobody to wake.
LEMMA PeekInv ==
    ASSUME CvInv, NEW l \in Lwp, SignalPeek(l) \/ BroadcastPeek(l)
    PROVE  CvInv'
<1>1. CvTypeOK /\ Queued /\ Enough /\ TimeoutsBelong
  BY Zenon DEF CvInv
<1>2. /\ avail' = avail /\ sq' = sq /\ moving' = moving /\ timo' = timo /\ timed' = timed
      /\ avail \in Nat
  BY <1>1, Zenon DEF SignalPeek, BroadcastPeek, waitvars, CvTypeOK
<1>3. PICK p \in {"leave", "wakeup_one", "wakeup_all"} :
         /\ Goto(l, p) /\ pc[l] \in {"signal", "broadcast"}
         /\ sq # << >> => \/ p = "wakeup_one" /\ pc[l] = "signal"
                          \/ p = "wakeup_all"
  BY Zenon DEF SignalPeek, BroadcastPeek
<1>4. /\ p \in Place /\ p # "asleep" /\ pc[l] # "asleep"
  BY <1>3, Zenon DEF Place
<1>5. CvTypeOK'
  BY <1>1, <1>2, <1>3, <1>4, Zenon DEF CvTypeOK, Goto
<1>6. Queued'
  BY <1>1, <1>2, <1>3, <1>4, GotoQueued, ZenonT(30)
<1>7. Enough'
  <2>1. CASE sq = << >>
    <3>1. NobodySleeps
      BY <1>1, <2>1, EmptyQueue, Zenon
    <3>2. NobodySleeps'
      BY <1>1, <1>3, <1>4, <3>1, Zenon DEF NobodySleeps, Goto, CvTypeOK
    <3> QED  BY <3>2, Zenon DEF Enough
  <2>2. CASE sq # << >> /\ p = "wakeup_one" /\ pc[l] = "signal"
    <3>1. avail' + (IF pc[l] \in Way THEN 1 ELSE 0) <= avail + (IF p \in Way THEN 1 ELSE 0)
      BY <1>2, <2>2 DEF Way
    <3>2. pc[l] \notin Broad
      BY <2>2, Zenon DEF Broad
    <3> QED  BY <1>1, <1>2, <1>3, <1>4, <3>1, <3>2, GotoEnough, ZenonT(30)
  <2>3. CASE p = "wakeup_all"
    <3>1. pc'[l] \in Broad
      BY <1>1, <1>3, <2>3, Zenon DEF Goto, CvTypeOK, Broad
    <3> QED  BY <3>1, Zenon DEF Enough
  <2> QED  BY <1>3, <2>1, <2>2, <2>3, Zenon
<1>8. TimeoutsBelong'
  BY <1>1, <1>2, Zenon DEF TimeoutsBelong
<1> QED  BY <1>5, <1>6, <1>7, <1>8, Zenon DEF CvInv

-----------------------------------------------------------------------------
(* Steps that wake, and those that sleep                                   *)

\* cv_wakeup_one: the head of the queue goes on its way for the waker.
LEMMA WakeupOneInv ==
    ASSUME CvInv, NEW l \in Lwp, WakeupOne(l)
    PROVE  CvInv'
<1> DEFINE h == Head(sq)
<1>1. CvTypeOK /\ Queued /\ Enough /\ TimeoutsBelong
  BY Zenon DEF CvInv
<1>2. /\ avail' = avail /\ moving' = moving /\ timo' = timo /\ timed' = timed
      /\ moving = None /\ pc[l] = "wakeup_one"
      /\ avail \in Nat /\ sq \in Seq(Lwp) /\ Distinct(sq)
  BY <1>1, Zenon DEF WakeupOne, waitvars, CvTypeOK, Queued
<1>3. TimeoutsBelong'
  BY <1>1, <1>2, Zenon DEF TimeoutsBelong
<1>4. "leave" \in Place /\ "leave" # "asleep" /\ pc[l] # "asleep" /\ "woken" \in Place /\ "woken" # "asleep"
  BY <1>2, Zenon DEF Place
<1>5. CASE sq = << >>
  <2>1. Goto(l, "leave") /\ sq' = sq
    BY <1>5, Zenon DEF WakeupOne
  <2>2. CvTypeOK'
    BY <1>1, <1>2, <1>4, <2>1, Zenon DEF CvTypeOK, Goto
  <2>3. Queued'
    BY <1>1, <1>2, <1>4, <2>1, GotoQueued, Zenon
  <2>4. NobodySleeps'
    BY <1>1, <1>4, <1>5, <2>1, EmptyQueue, Zenon DEF NobodySleeps, Goto, CvTypeOK
  <2> QED  BY <1>3, <2>2, <2>3, <2>4, Zenon DEF CvInv, Enough
<1>6. CASE sq # << >>
  <2>1. sq' = Tail(sq) /\ pc' = [pc EXCEPT ![l] = "leave", ![h] = "woken"]
    BY <1>6, Zenon DEF WakeupOne
  <2>2. /\ Tail(sq) \in Seq(Lwp) /\ Distinct(Tail(sq)) /\ h \in Members(sq) /\ h \in Lwp
        /\ \A k \in Lwp : k \in Members(Tail(sq)) <=> k \in Members(sq) /\ k # h
    BY <1>2, <1>6, TailIn, Zenon
  <2> HIDE DEF h
  <2>3. pc[h] = "asleep" /\ h # l
    BY <1>1, <1>4, <2>2, Zenon DEF Queued
  <2>4. /\ pc'[l] = "leave" /\ pc'[h] = "woken" /\ pc' \in [Lwp -> Place]
        /\ \A k \in Lwp : k # l /\ k # h => pc'[k] = pc[k]
    BY <1>1, <1>4, <2>1, <2>2, <2>3, Zenon DEF CvTypeOK
  <2>5. CvTypeOK'
    BY <1>1, <1>2, <2>1, <2>2, <2>4, Zenon DEF CvTypeOK
  <2>6. None \notin Members(Tail(sq))
    <3>1. \A i \in DOMAIN Tail(sq) : Tail(sq)[i] \in Lwp
      BY <2>2
    <3> QED  BY <3>1, CondVarAssumption, Zenon DEF Members
  <2>7. Queued'
    <3>1. \A k \in Lwp : pc'[k] = "asleep" <=> pc[k] = "asleep" /\ k # h
      BY <1>4, <2>3, <2>4, Zenon
    <3>2. \A k \in Lwp : pc'[k] = "asleep" <=> k \in Members(Tail(sq)) \/ k = moving
      BY <1>1, <1>2, <2>2, <3>1, CondVarAssumption, Zenon DEF Queued
    <3> QED  BY <1>2, <2>1, <2>2, <2>6, <3>2, Zenon DEF Queued
  <2>8. Enough'
    <3>1. CASE \E k \in Lwp : pc[k] \in Broad
      <4>1. pc[l] \notin Broad /\ pc[h] \notin Broad
        BY <1>2, <2>3, Zenon DEF Broad
      <4> QED  BY <2>4, <3>1, <4>1, Zenon DEF Enough
    <3>2. CASE avail <= Cardinality(OnTheirWay)
      <4>1. /\ IsFiniteSet(OnTheirWay) /\ Cardinality(OnTheirWay) \in Nat
            /\ OnTheirWay = {k \in Lwp : pc[k] \in Way}
        BY WayFinite, Zenon
      <4>2. OnTheirWay' = {k \in Lwp : pc'[k] \in Way}
        BY Zenon DEF OnTheirWay, Way
      <4>3. /\ pc[l] \in Way /\ pc[h] \notin Way /\ pc'[l] \notin Way /\ pc'[h] \in Way
        BY <1>2, <2>3, <2>4, Zenon DEF Way
      <4>4. OnTheirWay' = (OnTheirWay \ {l}) \cup {h} /\ l \in OnTheirWay /\ h \notin OnTheirWay \ {l}
        BY <2>2, <2>3, <2>4, <4>1, <4>2, <4>3, ZenonT(30)
      <4>5. /\ IsFiniteSet(OnTheirWay \ {l})
            /\ Cardinality(OnTheirWay \ {l}) = Cardinality(OnTheirWay) - 1
        BY <4>1, <4>4, FS_RemoveElement, Zenon
      <4>6. Cardinality((OnTheirWay \ {l}) \cup {h}) = Cardinality(OnTheirWay \ {l}) + 1
        BY <4>4, <4>5, FS_AddElement, Zenon
      <4>7. Cardinality(OnTheirWay') = Cardinality(OnTheirWay)
        BY <4>1, <4>4, <4>5, <4>6
      <4> QED  BY <1>2, <3>2, <4>7, Zenon DEF Enough
    <3>3. CASE NobodySleeps
      BY <2>2, <2>3, <3>3, Zenon DEF NobodySleeps
    <3> QED  BY <1>1, <3>1, <3>2, <3>3, Zenon DEF Enough
  <2> QED  BY <1>3, <2>5, <2>7, <2>8, Zenon DEF CvInv
<1> QED  BY <1>5, <1>6, Zenon

\* cv_wakeup_all: nobody is left asleep.
LEMMA WakeupAllInv ==
    ASSUME CvInv, NEW l \in Lwp, WakeupAll(l)
    PROVE  CvInv'
<1>1. CvTypeOK /\ Queued /\ Enough /\ TimeoutsBelong
  BY Zenon DEF CvInv
<1>2. /\ avail' = avail /\ moving' = moving /\ timo' = timo /\ timed' = timed
      /\ moving = None /\ sq' = << >>
      /\ pc' = [k \in Lwp |-> IF k = l THEN "leave"
                              ELSE IF \E i \in DOMAIN sq : sq[i] = k THEN "woken" ELSE pc[k]]
  BY Zenon DEF WakeupAll, waitvars
<1>3. TimeoutsBelong'
  BY <1>1, <1>2, Zenon DEF TimeoutsBelong
<1>4. CvTypeOK'
  <2>1. pc' \in [Lwp -> Place]
    BY <1>1, <1>2, Zenon DEF CvTypeOK, Place
  <2>2. << >> \in Seq(Lwp)
    OBVIOUS
  <2> QED  BY <1>1, <1>2, <2>1, <2>2, Zenon DEF CvTypeOK
<1>5. NobodySleeps'
  <2> SUFFICES ASSUME NEW k \in Lwp, pc'[k] = "asleep" PROVE FALSE
    BY Zenon DEF NobodySleeps
  <2>1. "leave" # "asleep" /\ "woken" # "asleep"
    BY Zenon
  <2>2. pc[k] = "asleep" /\ ~\E i \in DOMAIN sq : sq[i] = k
    BY <1>2, <2>1, Zenon
  <2>3. k \notin Members(sq) /\ k # moving
    BY <1>2, <2>2, CondVarAssumption, Zenon DEF Members
  <2> QED  BY <1>1, <2>2, <2>3, Zenon DEF Queued
<1>6. Queued'
  <2>1. Members(<< >>) = {} /\ Distinct(<< >>)
    BY DEF Members, Distinct
  <2> QED  BY <1>2, <1>5, <2>1, CondVarAssumption, Zenon DEF Queued, NobodySleeps
<1> QED  BY <1>3, <1>4, <1>5, <1>6, Zenon DEF CvInv, Enough

\* An LWP that sleeps is put at its place in the queue.
LEMMA SleepQueued ==
    ASSUME CvTypeOK, Queued, NEW l \in Lwp, NEW p, Goto(l, "asleep"), pc[l] # "asleep",
           sq' = Insert(sq, l, p), moving' = moving, moving = None
    PROVE  Queued' /\ sq' \in Seq(Lwp)
<1>1. sq \in Seq(Lwp) /\ Distinct(sq) /\ l \notin Members(sq)
  BY Zenon DEF CvTypeOK, Queued
<1>2. /\ sq' \in Seq(Lwp) /\ sq' # << >> /\ Distinct(sq')
      /\ \A k \in Lwp : k \in Members(sq') <=> k \in Members(sq) \/ k = l
  BY <1>1, InsertIn, Zenon
<1>3. None \notin Members(sq')
  <2>1. \A i \in DOMAIN sq' : sq'[i] \in Lwp
    BY <1>2
  <2> QED  BY <2>1, CondVarAssumption, Zenon DEF Members
<1>4. \A k \in Lwp : pc'[k] = "asleep" <=> pc[k] = "asleep" \/ k = l
  BY Zenon DEF Goto, CvTypeOK
<1>5. \A k \in Lwp : pc'[k] = "asleep" <=> k \in Members(sq') \/ k = moving'
  BY <1>2, <1>4, CondVarAssumption, Zenon DEF Queued
<1> QED  BY <1>2, <1>3, <1>5, Zenon DEF Queued

\* cv_enter: the LWP found nothing available.
LEMMA CvEnterInv ==
    ASSUME CvInv, NEW l \in Lwp, NEW t \in BOOLEAN, NEW c \in BOOLEAN, CvEnter(l, t, c)
    PROVE  CvInv'
<1>1. CvTypeOK /\ Queued /\ Enough /\ TimeoutsBelong
  BY Zenon DEF CvInv
<1>2. /\ avail' = avail /\ moving' = moving /\ moving = None /\ pc[l] = "test" /\ avail = 0
      /\ timed' = IF t THEN timed \cup {l} ELSE timed
  BY Zenon DEF CvEnter
<1>3. Enough'
  <2>1. Cardinality(OnTheirWay') \in Nat
    <3>1. OnTheirWay' \subseteq Lwp
      BY Zenon DEF OnTheirWay
    <3> QED  BY <3>1, CondVarAssumption, FS_Subset, FS_CardinalityType, Zenon
  <2>2. avail' <= Cardinality(OnTheirWay')
    BY <1>2, <2>1
  <2> QED  BY <2>2, Zenon DEF Enough
<1>4. /\ "woken" \in Place /\ "asleep" \in Place /\ "woken" # "asleep" /\ pc[l] # "asleep"
  BY <1>2, Zenon DEF Place
<1>5. CASE Goto(l, "woken") /\ UNCHANGED <<sq, timo>>
  <2>1. CvTypeOK'
    BY <1>1, <1>2, <1>4, <1>5, Zenon DEF CvTypeOK, Goto
  <2>2. Queued'
    BY <1>1, <1>2, <1>4, <1>5, GotoQueued, Zenon
  <2>3. TimeoutsBelong'
    BY <1>1, <1>2, <1>5, Zenon DEF TimeoutsBelong
  <2> QED  BY <1>3, <2>1, <2>2, <2>3, Zenon DEF CvInv
<1>6. CASE /\ sq' = Insert(sq, l, prio) /\ Goto(l, "asleep")
           /\ timo' = [timo EXCEPT ![l] = IF t THEN "pending" ELSE @]
  <2>1. Queued' /\ sq' \in Seq(Lwp)
    BY <1>1, <1>2, <1>4, <1>6, SleepQueued, Zenon
  <2>2. CvTypeOK'
    <3>1. timo' \in [Lwp -> {"off", "pending", "firing", "fired"}]
      BY <1>1, <1>6, Zenon DEF CvTypeOK
    <3> QED  BY <1>1, <1>2, <1>4, <1>6, <2>1, <3>1, Zenon DEF CvTypeOK, Goto
  <2>3. TimeoutsBelong'
    <3>1. \A k \in Lwp : timo'[k] = IF k = l /\ t THEN "pending" ELSE timo[k]
      BY <1>1, <1>6, Zenon DEF CvTypeOK
    <3> QED  BY <1>1, <1>2, <3>1, Zenon DEF TimeoutsBelong
  <2> QED  BY <1>3, <2>1, <2>2, <2>3, Zenon DEF CvInv
<1> QED  BY <1>5, <1>6, Zenon DEF CvEnter

\* sleepq_block returns: the time-out is over before the wait is.
LEMMA AwakeInv ==
    ASSUME CvInv, NEW l \in Lwp, Awake(l) \/ CvExit(l)
    PROVE  CvInv'
<1>1. CvTypeOK /\ Queued /\ Enough /\ TimeoutsBelong
  BY Zenon DEF CvInv
<1>2. /\ avail' = avail /\ sq' = sq /\ moving' = moving /\ avail \in Nat
  BY <1>1, Zenon DEF Awake, CvExit, waitvars, CvTypeOK
<1>3. PICK p \in {"exit", "signal", "test"} : Goto(l, p) /\ pc[l] \in {"woken", "exit"}
  BY Zenon DEF Awake, CvExit, ExitTo
<1>4. /\ p \in Place /\ p # "asleep" /\ pc[l] # "asleep" /\ pc[l] \notin Broad
      /\ pc[l] \in Way /\ p \in Way
  BY <1>3, Zenon DEF Place, Broad, Way
<1>5. avail' \in Nat
  BY <1>2, Zenon
<1>6. avail' + (IF pc[l] \in Way THEN 1 ELSE 0) <= avail + (IF p \in Way THEN 1 ELSE 0)
  BY <1>2, <1>4
<1>7. /\ timo' \in [Lwp -> {"off", "pending", "firing", "fired"}] /\ TimeoutsBelong'
  <2>1. CASE timo' = timo /\ timed' = timed
    BY <1>1, <2>1, Zenon DEF CvTypeOK, TimeoutsBelong
  <2>2. CASE /\ timed' = timed \ {l}
             /\ l \in timed => CalloutHalt(l)
             /\ timo' = [timo EXCEPT ![l] = IF @ = "firing" THEN @ ELSE "off"]
    <3>1. timo[l] # "firing"
      BY <1>1, <2>2, Zenon DEF TimeoutsBelong, CalloutHalt
    <3>2. timo' = [timo EXCEPT ![l] = "off"]
      BY <2>2, <3>1, Zenon
    <3>3. timo' \in [Lwp -> {"off", "pending", "firing", "fired"}]
      BY <1>1, <3>2, Zenon DEF CvTypeOK
    <3>4. /\ timo'[l] \notin {"pending", "firing"} /\ \A k \in Lwp : k # l => timo'[k] = timo[k]
      BY <1>1, <3>2, Zenon DEF CvTypeOK
    <3>5. TimeoutsBelong'
      BY <1>1, <2>2, <3>4, Zenon DEF TimeoutsBelong
    <3> QED  BY <3>3, <3>5, Zenon
  <2> QED  BY <2>1, <2>2, Zenon DEF Awake, CvExit, waitvars
<1>8. CvTypeOK'
  BY <1>1, <1>2, <1>3, <1>4, <1>7, Zenon DEF CvTypeOK, Goto
<1>9. Queued'
  BY <1>1, <1>2, <1>3, <1>4, GotoQueued, Zenon
<1>10. Enough'
  BY <1>1, <1>3, <1>4, <1>5, <1>6, GotoEnough, Zenon
<1> QED  BY <1>7, <1>8, <1>9, <1>10, Zenon DEF CvInv

-----------------------------------------------------------------------------
(* What happens to an LWP that waits                                       *)

\* An LWP that no waker woke leaves the queue.
LEMMA UnsleepInv ==
    ASSUME CvTypeOK, Queued, Enough, NEW l \in Lwp, Unsleep(l), pc[l] = "asleep",
           moving = None, moving' = moving, avail' = avail
    PROVE  Queued' /\ Enough' /\ sq' \in Seq(Lwp) /\ pc' \in [Lwp -> Place]
<1>1. /\ sq' = Without(sq, l) /\ Goto(l, "woken") /\ avail \in Nat /\ l # None
  BY CondVarAssumption, Zenon DEF Unsleep, CvTypeOK
<1>2. sq \in Seq(Lwp) /\ Distinct(sq) /\ l \in Members(sq)
  BY <1>1, Zenon DEF CvTypeOK, Queued
<1>3. /\ sq' \in Seq(Lwp) /\ Distinct(sq')
      /\ \A k \in Lwp : k \in Members(sq') <=> k \in Members(sq) /\ k # l
  BY <1>1, <1>2, WithoutIn, Zenon
<1>4. /\ "woken" \in Place /\ "woken" # "asleep" /\ "woken" \in Way
      /\ pc[l] \notin Broad /\ pc[l] \notin Way
  BY Zenon DEF Place, Way, Broad
<1>5. /\ pc' \in [Lwp -> Place]
      /\ \A k \in Lwp : pc'[k] = "asleep" <=> pc[k] = "asleep" /\ k # l
  BY <1>1, <1>4, Zenon DEF Goto, CvTypeOK
<1>6. None \notin Members(sq')
  <2>1. \A i \in DOMAIN sq' : sq'[i] \in Lwp
    BY <1>3
  <2> QED  BY <2>1, CondVarAssumption, Zenon DEF Members
<1>7. \A k \in Lwp : pc'[k] = "asleep" <=> k \in Members(sq') \/ k = moving'
  BY <1>3, <1>5, CondVarAssumption, Zenon DEF Queued
<1>8. Queued'
  BY <1>3, <1>6, <1>7, Zenon DEF Queued
<1>9. avail' + (IF pc[l] \in Way THEN 1 ELSE 0) <= avail + (IF "woken" \in Way THEN 1 ELSE 0)
  BY <1>1, <1>4
<1>10. avail' \in Nat
  BY <1>1, Zenon
<1>11. Enough'
  BY <1>1, <1>4, <1>9, <1>10, GotoEnough, Zenon
<1> QED  BY <1>3, <1>5, <1>8, <1>11, Zenon

\* Where nobody moves and the queue does not change, nothing changes.
LEMMA StillInv ==
    ASSUME CvTypeOK, Queued, Enough, UNCHANGED <<avail, sq, moving, pc>>
    PROVE  Queued' /\ Enough' /\ sq' \in Seq(Lwp) /\ pc' \in [Lwp -> Place]
<1>1. OnTheirWay' = OnTheirWay
  BY Zenon DEF OnTheirWay
<1>2. Enough'
  BY <1>1, Zenon DEF Enough, NobodySleeps
<1> QED  BY <1>2, Zenon DEF Queued, CvTypeOK

\* Time-outs, signals, stopping and continuing
LEMMA EventInv ==
    ASSUME CvInv, NEW l \in Lwp,
           TimeoutFires(l) \/ SleepqTimeout(l) \/ Signal(l) \/ Stop(l) \/ Continue(l)
    PROVE  CvInv'
<1>1. CvTypeOK /\ Queued /\ Enough /\ TimeoutsBelong
  BY Zenon DEF CvInv
<1>2. /\ avail' = avail /\ moving' = moving /\ timed' = timed
  BY Zenon DEF TimeoutFires, SleepqTimeout, Signal, Stop, Continue
<1>3. Queued' /\ Enough' /\ sq' \in Seq(Lwp) /\ pc' \in [Lwp -> Place]
  <2>1. CASE UNCHANGED <<sq, pc>>
    BY <1>1, <1>2, <2>1, StillInv, Zenon
  <2>2. CASE Unsleep(l) /\ pc[l] = "asleep" /\ moving = None
    BY <1>1, <1>2, <2>2, UnsleepInv, Zenon
  <2> QED  BY <2>1, <2>2, Zenon DEF TimeoutFires, SleepqTimeout, Signal, Stop, Continue
<1>4. /\ timo' \in [Lwp -> {"off", "pending", "firing", "fired"}] /\ TimeoutsBelong'
  <2>1. CASE timo' = timo
    BY <1>1, <1>2, <2>1, Zenon DEF CvTypeOK, TimeoutsBelong
  <2>2. CASE timo[l] = "pending" /\ timo' = [timo EXCEPT ![l] = "firing"]
    <3>1. l \in timed
      BY <1>1, <2>2, Zenon DEF TimeoutsBelong
    <3>2. \A k \in Lwp : k # l => timo'[k] = timo[k]
      BY <1>1, <2>2, Zenon DEF CvTypeOK
    <3> QED  BY <1>1, <1>2, <2>2, <3>1, <3>2, ZenonT(30) DEF CvTypeOK, TimeoutsBelong
  <2>3. CASE timo' = [timo EXCEPT ![l] = "fired"]
    <3>1. /\ timo'[l] \notin {"pending", "firing"} /\ \A k \in Lwp : k # l => timo'[k] = timo[k]
      BY <1>1, <2>3, Zenon DEF CvTypeOK
    <3> QED  BY <1>1, <1>2, <2>3, <3>1, ZenonT(30) DEF CvTypeOK, TimeoutsBelong
  <2> QED  BY <2>1, <2>2, <2>3, Zenon DEF TimeoutFires, SleepqTimeout, Signal, Stop, Continue
<1>5. CvTypeOK'
  BY <1>1, <1>2, <1>3, <1>4, Zenon DEF CvTypeOK
<1> QED  BY <1>3, <1>4, <1>5, Zenon DEF CvInv

\* sleepq_reinsert takes an LWP off the queue unless it is the only one ...
LEMMA ChangePriInv ==
    ASSUME CvInv, NEW l \in Lwp, NEW p \in Prio, ChangePri(l, p)
    PROVE  CvInv'
<1>1. CvTypeOK /\ Queued /\ Enough /\ TimeoutsBelong
  BY Zenon DEF CvInv
<1>2. /\ avail' = avail /\ pc' = pc /\ timed' = timed /\ timo' = timo /\ moving = None
      /\ pc[l] = "asleep" /\ l # None
  BY CondVarAssumption, Zenon DEF ChangePri, waitvars
<1>3. TimeoutsBelong'
  BY <1>1, <1>2, Zenon DEF TimeoutsBelong
<1>4. Enough'
  <2>1. OnTheirWay' = OnTheirWay
    BY <1>2, Zenon DEF OnTheirWay
  <2> QED  BY <1>1, <1>2, <2>1, Zenon DEF Enough, NobodySleeps
<1>5. CASE UNCHANGED <<sq, moving>>
  BY <1>1, <1>2, <1>3, <1>4, <1>5, Zenon DEF CvInv, CvTypeOK, Queued
<1>6. CASE ~StaysPut(l) /\ sq' = Without(sq, l) /\ moving' = l
  <2>1. sq \in Seq(Lwp) /\ Distinct(sq) /\ l \in Members(sq) /\ sq # <<l>>
    BY <1>1, <1>2, <1>6, Zenon DEF CvTypeOK, Queued, StaysPut
  <2>2. /\ sq' \in Seq(Lwp) /\ Distinct(sq') /\ sq' # << >>
        /\ \A k \in Lwp : k \in Members(sq') <=> k \in Members(sq) /\ k # l
    BY <1>6, <2>1, WithoutIn, Zenon
  <2>3. \A k \in Lwp : pc'[k] = "asleep" <=> k \in Members(sq') \/ k = moving'
    BY <1>1, <1>2, <1>6, <2>2, CondVarAssumption, ZenonT(30) DEF Queued
  <2>4. Queued'
    BY <1>6, <2>2, <2>3, Zenon DEF Queued
  <2>5. CvTypeOK'
    BY <1>1, <1>2, <1>6, <2>2, Zenon DEF CvTypeOK
  <2> QED  BY <1>3, <1>4, <2>4, <2>5, Zenon DEF CvInv
<1> QED  BY <1>5, <1>6, Zenon DEF ChangePri

\* ... and puts it back at its new place.
LEMMA ReInsertionInv ==
    ASSUME CvInv, ReInsertion
    PROVE  CvInv'
<1>1. CvTypeOK /\ Queued /\ Enough /\ TimeoutsBelong
  BY Zenon DEF CvInv
<1>2. /\ avail' = avail /\ pc' = pc /\ timed' = timed /\ timo' = timo
      /\ moving # None /\ moving' = None /\ sq' = Insert(sq, moving, prio)
  BY Zenon DEF ReInsertion, waitvars
<1>3. TimeoutsBelong'
  BY <1>1, <1>2, Zenon DEF TimeoutsBelong
<1>4. Enough'
  <2>1. OnTheirWay' = OnTheirWay
    BY <1>2, Zenon DEF OnTheirWay
  <2> QED  BY <1>1, <1>2, <2>1, Zenon DEF Enough, NobodySleeps
<1>5. sq \in Seq(Lwp) /\ Distinct(sq) /\ moving \in Lwp /\ moving \notin Members(sq)
  BY <1>1, <1>2, Zenon DEF CvTypeOK, Queued
<1>6. /\ sq' \in Seq(Lwp) /\ Distinct(sq')
      /\ \A k \in Lwp : k \in Members(sq') <=> k \in Members(sq) \/ k = moving
  BY <1>2, <1>5, InsertIn, Zenon
<1>7. None \notin Members(sq')
  <2>1. \A i \in DOMAIN sq' : sq'[i] \in Lwp
    BY <1>6
  <2> QED  BY <2>1, CondVarAssumption, Zenon DEF Members
<1>8. \A k \in Lwp : pc'[k] = "asleep" <=> k \in Members(sq') \/ k = moving'
  BY <1>1, <1>2, <1>6, CondVarAssumption, ZenonT(30) DEF Queued
<1>9. Queued'
  BY <1>2, <1>6, <1>7, <1>8, ZenonT(30) DEF Queued
<1>10. CvTypeOK'
  BY <1>1, <1>2, <1>6, Zenon DEF CvTypeOK
<1> QED  BY <1>3, <1>4, <1>9, <1>10, ZenonT(30) DEF CvInv

\* Every step of condition variables keeps the invariant.
LEMMA CvStep == CvInv /\ [Next]_vars => CvInv'
<1>1. ASSUME CvInv, UNCHANGED vars PROVE CvInv'
  <2>1. CvTypeOK /\ Queued /\ Enough /\ TimeoutsBelong
    BY <1>1, Zenon DEF CvInv
  <2>2. UNCHANGED <<avail, sq, moving, pc, timed, timo>>
    BY <1>1, Zenon DEF vars
  <2>3. Queued' /\ Enough'
    BY <2>1, <2>2, StillInv, Zenon
  <2> QED  BY <2>1, <2>2, <2>3, ZenonT(30) DEF CvInv, CvTypeOK, TimeoutsBelong
<1>2. ASSUME CvInv, NEW l \in Lwp, LwpStep(l) PROVE CvInv'
  BY <1>2, MutexInv, GiveInv, PeekInv, WakeupOneInv, WakeupAllInv, CvEnterInv, AwakeInv, ZenonT(30)
  DEF LwpStep
<1>3. ASSUME CvInv, NEW l \in Lwp, MutexEnter(l) PROVE CvInv'
  BY <1>3, MutexInv, Zenon
<1> QED  BY <1>1, <1>2, <1>3, EventInv, ChangePriInv, ReInsertionInv, ZenonT(30) DEF Next

\* The invariant holds throughout.
LEMMA CvInvariance == Spec => []CvInv
  BY CvInitInv, CvStep, PTL DEF Spec

\* Condition variables: for any takers, givers and priorities, no wake-up is
\* lost, although cv_signal looks at the queue without its lock while
\* priorities change, and waits time out or are interrupted after they were
\* woken.
THEOREM WakeupsKept == Spec => []NoLostWakeup
  BY CvInvariance, InvNoLost, PTL

\* A step of an LWP that is awake leaves the others where they are.
LEMMA OthersSleep ==
    ASSUME CvTypeOK, NEW l \in Lwp, NEW k \in Lwp, NEW p, Goto(k, p), pc[k] # "asleep",
           pc[l] = "asleep"
    PROVE  pc'[l] = "asleep"
  BY Zenon DEF CvTypeOK, Goto

\* Whatever ends a wait, it is a waker, unless the wait is timed or interruptible.
LEMMA OnlyWakers ==
    ASSUME CvInv, Next, NEW l \in Lwp, pc[l] = "asleep", pc'[l] # "asleep",
           l \notin timed, l \notin catch
    PROVE  \E k \in Lwp : pc[k] \in {"wakeup_one", "wakeup_all"}
<1>1. CvTypeOK /\ TimeoutsBelong
  BY Zenon DEF CvInv
<1>2. ASSUME NEW k \in Lwp, NEW q \in Place, NEW p, pc[k] = q, q # "asleep", Goto(k, p) PROVE FALSE
  BY <1>1, <1>2, OthersSleep, Zenon
<1>3. /\ "idle" \in Place /\ "leave" \in Place /\ "give" \in Place /\ "test" \in Place
      /\ "signal" \in Place /\ "broadcast" \in Place /\ "woken" \in Place /\ "exit" \in Place
      /\ "idle" # "asleep" /\ "leave" # "asleep" /\ "give" # "asleep" /\ "test" # "asleep"
      /\ "signal" # "asleep" /\ "broadcast" # "asleep" /\ "woken" # "asleep" /\ "exit" # "asleep"
  BY Zenon DEF Place
<1>4. ASSUME NEW k \in Lwp, \/ MutexEnter(k) \/ MutexExit(k) \/ Give(k) \/ Take(k)
                            \/ SignalPeek(k) \/ BroadcastPeek(k)
      PROVE  FALSE
  BY <1>2, <1>3, <1>4, Zenon DEF MutexEnter, MutexExit, Give, Take, SignalPeek, BroadcastPeek
<1>5. ASSUME NEW k \in Lwp, \/ \E t, c \in BOOLEAN : CvEnter(k, t, c)
                            \/ Awake(k) \/ CvExit(k)
      PROVE  FALSE
  BY <1>2, <1>3, <1>5, Zenon DEF CvEnter, Awake, CvExit
<1>6. ASSUME NEW k \in Lwp, Unsleep(k), k \in timed \/ k \in catch PROVE FALSE
  <2>1. k # l
    BY <1>6, Zenon
  <2> QED  BY <1>1, <1>6, <2>1, Zenon DEF Unsleep, Goto, CvTypeOK
<1>7. pc' # pc
  BY Zenon
<1>8. ASSUME NEW k \in Lwp, TimeoutFires(k) \/ SleepqTimeout(k) \/ Signal(k) \/ Stop(k) \/ Continue(k)
      PROVE  FALSE
  <2>1. CASE SleepqTimeout(k)
    <3>1. k \in timed
      BY <1>1, <2>1, Zenon DEF SleepqTimeout, TimeoutsBelong
    <3> QED  BY <1>6, <1>7, <2>1, <3>1, Zenon DEF SleepqTimeout
  <2> QED  BY <1>6, <1>7, <1>8, <2>1, Zenon DEF TimeoutFires, Signal, Stop, Continue
<1>9. ASSUME NEW k \in Lwp, NEW p \in Prio, ChangePri(k, p) PROVE FALSE
  BY <1>7, <1>9, Zenon DEF ChangePri
<1>10. ~ReInsertion
  BY <1>7, Zenon DEF ReInsertion
<1>11. ASSUME NEW k \in Lwp, WakeupOne(k) \/ WakeupAll(k)
       PROVE  pc[k] \in {"wakeup_one", "wakeup_all"}
  BY <1>11, Zenon DEF WakeupOne, WakeupAll
<1> QED  BY <1>4, <1>5, <1>8, <1>9, <1>10, <1>11, ZenonT(30) DEF Next, LwpStep

\* cv_wait, for any LWPs: a wait that is neither timed nor interruptible ends
\* only in a step of cv_signal or cv_broadcast.
THEOREM PlainWaitsWoken == Spec => PlainWaitNeedsWaker
<1>1. ASSUME CvInv, [Next]_vars
      PROVE  [\A l \in Taker :
                 pc[l] = "asleep" /\ pc'[l] # "asleep" /\ l \notin timed \cup catch
                 => \E k \in Lwp : pc[k] \in {"wakeup_one", "wakeup_all"}]_vars
  <2>1. CASE UNCHANGED vars
    BY <2>1, Zenon
  <2>2. CASE Next
    BY <1>1, <2>2, OnlyWakers, Zenon DEF Lwp
  <2> QED  BY <1>1, <2>1, <2>2, Zenon
<1> QED  BY <1>1, CvInvariance, PTL DEF Spec, PlainWaitNeedsWaker

-----------------------------------------------------------------------------
(* Workqueues: the inductive invariant                                     *)

\* What the worker finds in a link, and where the owner is in
\* workqueue_destroy.
Thing == Work \cup {wqe, Nil}
Ending == {"destroy", "wait", "sleep"}

WqTypes ==
    /\ wq_func \in {Nil, "client", "exit"} /\ q_worker \in [Queue -> BOOLEAN]
    /\ sqh_first \in [Queue -> Thing] /\ sqh_last \in [Queue -> Thing]
    /\ wk_entry \in [Work \cup {wqe} -> Thing]
    /\ worker \in [Queue -> {"gone", "top", "sleep", "list", "client", "exit"}]
    /\ wk \in [Queue -> Thing] /\ nxt \in [Queue -> Thing]
    /\ owner \in {"out", "create", "created"} \cup Ending
    /\ todo \subseteq Queue /\ fq \in Queue \cup {Nil}
    /\ waiting \in [Queue -> Seq(Work)]

\* A work waits at one place only.
Once == \A i, j \in Queue : \A m \in DOMAIN waiting[i] : \A n \in DOMAIN waiting[j] :
            waiting[i][m] = waiting[j][n] => i = j /\ m = n

\* The work that the worker has to call the function for next.
Upcoming(i) == IF worker[i] = "list" THEN wk[i] ELSE IF worker[i] = "client" THEN nxt[i] ELSE Nil

\* The first n of the works that wait are on the list the worker has taken, the
\* others on the queue.
Linked(i, n) ==
    /\ n \in 0 .. Len(waiting[i])
    /\ Upcoming(i) = IF n = 0 THEN Nil ELSE waiting[i][1]
    /\ sqh_first[i] = IF n = Len(waiting[i]) THEN Nil ELSE waiting[i][n + 1]
    /\ sqh_last[i] = IF n = Len(waiting[i]) THEN Nil ELSE waiting[i][Len(waiting[i])]
    /\ \A m \in 1 .. Len(waiting[i]) :
          wk_entry[waiting[i][m]] = IF m = n \/ m = Len(waiting[i]) THEN Nil ELSE waiting[i][m + 1]

\* There is a worker for each queue while the workqueue is in use, and none
\* when it has been destroyed.
Working == \A i \in Queue :
    /\ q_worker[i] <=> worker[i] # "gone"
    /\ owner # "created" => waiting[i] = << >>
    /\ owner = "out" => ~q_worker[i]
    /\ owner = "create" => (q_worker[i] <=> i \notin todo)
    /\ owner = "created" => q_worker[i]
    /\ owner \in Ending => i \in todo \/ i = fq \/ ~q_worker[i]
    /\ owner \in {"create", "created"} /\ q_worker[i] =>
          worker[i] # "exit" /\ \E n \in Nat : Linked(i, n)

\* Which function is called follows the stage of the owner's life.
Stage == /\ owner = "out" <=> wq_func = Nil
         /\ owner \in {"create", "created"} <=> wq_func = "client"
         /\ owner \notin {"wait", "sleep"} => fq = Nil
         /\ owner \in {"wait", "sleep"} => fq \in Queue

WqInv == WqTypes /\ Once /\ Working /\ Stage

-----------------------------------------------------------------------------
(* Workqueues: every step preserves it                                     *)

\* Nothing is created at first.
LEMMA WqInitInv == WqInit => WqInv
<1> SUFFICES ASSUME WqInit PROVE WqInv
  BY Zenon
<1>1. WqTypes
  BY WorkqueueAssumption DEF WqInit, WqTypes, Thing, Ending
<1>2. Once
  BY DEF WqInit, Once
<1>3. Working
  BY Zenon DEF WqInit, Working, Ending
<1>4. Stage
  BY WorkqueueAssumption, Zenon DEF WqInit, Stage
<1> QED  BY <1>1, <1>2, <1>3, <1>4, Zenon DEF WqInv

\* What a list says does not depend on the rest of the state.
LEMMA LinkedKept ==
    ASSUME NEW i \in Queue, waiting'[i] = waiting[i], sqh_first'[i] = sqh_first[i],
           sqh_last'[i] = sqh_last[i], Upcoming(i)' = Upcoming(i),
           \A m \in 1 .. Len(waiting[i]) : wk_entry'[waiting[i][m]] = wk_entry[waiting[i][m]]
    PROVE  \A n \in Nat : Linked(i, n) => Linked(i, n)'
<1> SUFFICES ASSUME NEW n \in Nat, Linked(i, n) PROVE Linked(i, n)'
  BY Zenon
<1>1. /\ n \in 0 .. Len(waiting'[i])
      /\ Upcoming(i)' = IF n = 0 THEN Nil ELSE waiting'[i][1]
      /\ sqh_first'[i] = IF n = Len(waiting'[i]) THEN Nil ELSE waiting'[i][n + 1]
      /\ sqh_last'[i] = IF n = Len(waiting'[i]) THEN Nil ELSE waiting'[i][Len(waiting'[i])]
  BY Zenon DEF Linked
<1>2. \A m \in 1 .. Len(waiting'[i]) :
         wk_entry'[waiting'[i][m]] = IF m = n \/ m = Len(waiting'[i]) THEN Nil ELSE waiting'[i][m + 1]
  BY Zenon DEF Linked
<1> QED  BY <1>1, <1>2, Zenon DEF Linked

\* The client's function returns, and the worker goes on to the next work.
LEMMA ReturnsInv ==
    ASSUME WqInv, NEW i \in Queue, FuncReturns(i)
    PROVE  WqInv'
<1>1. /\ worker[i] = "client" /\ worker' = [worker EXCEPT ![i] = "list"]
      /\ wk' = [wk EXCEPT ![i] = nxt[i]] /\ nxt' = [nxt EXCEPT ![i] = Nil]
      /\ UNCHANGED <<wq_func, q_worker, sqh_first, sqh_last, wk_entry, owner, todo, fq, waiting>>
  BY Zenon DEF FuncReturns, NextWork, queues
<1>2. WqTypes'
  BY <1>1, Zenon DEF WqInv, WqTypes, Thing
<1>3. Once' /\ Stage'
  BY <1>1 DEF WqInv, Once, Stage
<1>4. \A j \in Queue : Upcoming(j)' = Upcoming(j)
  BY <1>1, Zenon DEF WqInv, WqTypes, Upcoming
<1>5. \A j \in Queue : \A n \in Nat : Linked(j, n) => Linked(j, n)'
  BY <1>1, <1>4, LinkedKept, Zenon
<1>6. \A j \in Queue : /\ worker'[j] = "gone" <=> worker[j] = "gone"
                       /\ worker[j] # "exit" => worker'[j] # "exit"
  BY <1>1, Zenon DEF WqInv, WqTypes
<1>7. Working'
  BY <1>1, <1>5, <1>6, Zenon DEF WqInv, Working
<1> QED  BY <1>2, <1>3, <1>7, Zenon DEF WqInv

\* The worker takes all that is on the queue, or goes to sleep.
LEMMA TakeListInv ==
    ASSUME WqInv, NEW i \in Queue, TakeList(i)
    PROVE  WqInv'
<1>0. Nil \notin Work
  BY WorkqueueAssumption, Zenon
<1>1. /\ worker[i] = "top" /\ worker' = [worker EXCEPT ![i] = worker'[i]]
      /\ UNCHANGED <<wq_func, q_worker, wk_entry, nxt, owner, todo, fq, waiting>>
      /\ \/ worker'[i] = "sleep" /\ UNCHANGED <<wk, sqh_first, sqh_last>>
         \/ /\ worker'[i] = "list" /\ sqh_first[i] # Nil
            /\ wk' = [wk EXCEPT ![i] = sqh_first[i]]
            /\ sqh_first' = [sqh_first EXCEPT ![i] = Nil]
            /\ sqh_last' = [sqh_last EXCEPT ![i] = Nil]
  BY Zenon DEF WqInv, WqTypes, TakeList
<1>2. WqTypes'
  BY <1>1, ZenonT(30) DEF WqInv, WqTypes, Thing
<1>3. Once' /\ Stage'
  BY <1>1 DEF WqInv, Once, Stage
<1>4. ASSUME NEW j \in Queue, NEW n \in Nat, Linked(j, n)
      PROVE  \E m \in Nat : Linked(j, m)'
  <2>1. CASE j # i \/ worker'[i] = "sleep"
    <3>1. /\ Upcoming(j)' = Upcoming(j)
          /\ sqh_first'[j] = sqh_first[j] /\ sqh_last'[j] = sqh_last[j]
      BY <1>1, <2>1, Zenon DEF WqInv, WqTypes, Upcoming
    <3> QED  BY <1>1, <1>4, <3>1, LinkedKept, Zenon
  <2>2. CASE j = i /\ worker'[i] = "list"
    <3>1. /\ waiting[i] \in Seq(Work) /\ Len(waiting[i]) \in Nat
          /\ \A m \in 1 .. Len(waiting[i]) : waiting[i][m] \in Work
      BY DEF WqInv, WqTypes
    <3>2. n = 0
      BY <1>0, <1>1, <1>4, <2>2, <3>1 DEF Linked, Upcoming
    <3>3. Len(waiting[i]) # 0 /\ sqh_first[i] = waiting[i][1]
      BY <1>1, <1>4, <2>2, <3>1, <3>2 DEF Linked
    <3>4. Upcoming(i)' = waiting[i][1] /\ sqh_first'[i] = Nil /\ sqh_last'[i] = Nil
      BY <1>1, <2>2, <3>3, Zenon DEF WqInv, WqTypes, Upcoming
    <3>5. \A m \in 1 .. Len(waiting[i]) :
             wk_entry[waiting[i][m]] = IF m = Len(waiting[i]) THEN Nil ELSE waiting[i][m + 1]
      BY <1>4, <2>2, <3>2 DEF Linked
    <3>6. Linked(i, Len(waiting[i]))'
      BY <1>1, <3>1, <3>3, <3>4, <3>5 DEF Linked
    <3> QED  BY <2>2, <1>1, <3>1, <3>6, Zenon
  <2> QED  BY <1>1, <2>1, <2>2, Zenon
<1>5. \A j \in Queue : /\ worker'[j] = "gone" <=> worker[j] = "gone"
                       /\ worker[j] # "exit" => worker'[j] # "exit"
  BY <1>1, Zenon DEF WqInv, WqTypes
<1>6. Working'
  BY <1>1, <1>4, <1>5, Zenon DEF WqInv, Working
<1> QED  BY <1>2, <1>3, <1>6, Zenon DEF WqInv

\* While the function is not workqueue_exit, the work it is called for is the
\* first that waits.
LEMMA FirstIsCalled ==
    ASSUME WqInv, NEW i \in Queue, worker[i] = "list", wq_func = "client"
    PROVE  /\ \E n \in Nat : Linked(i, n)
           /\ wk[i] # Nil => waiting[i] # << >> /\ Head(waiting[i]) = wk[i]
<1>1. q_worker[i] /\ owner \in {"create", "created"}
  BY Zenon DEF WqInv, Working, Stage
<1>2. PICK n \in Nat : Linked(i, n)
  BY <1>1, Zenon DEF WqInv, Working
<1>3. wk[i] # Nil => waiting[i] # << >> /\ Head(waiting[i]) = wk[i]
  <2> SUFFICES ASSUME wk[i] # Nil PROVE waiting[i] # << >> /\ Head(waiting[i]) = wk[i]
    BY Zenon
  <2>1. waiting[i] \in Seq(Work)
    BY Zenon DEF WqInv, WqTypes
  <2>2. n # 0 /\ n \in 0 .. Len(waiting[i]) /\ wk[i] = waiting[i][1]
    BY <1>2, Zenon DEF Linked, Upcoming
  <2> QED  BY <2>1, <2>2
<1> QED  BY <1>2, <1>3, Zenon

\* The function is called for the first work on the list, if there is one.
LEMMA CallInv ==
    ASSUME WqInv, NEW i \in Queue, Call(i)
    PROVE  WqInv'
<1>1. /\ worker[i] = "list"
      /\ UNCHANGED <<wq_func, q_worker, sqh_first, sqh_last, wk_entry, wk, owner, todo, fq>>
      /\ \/ /\ wk[i] = Nil /\ worker' = [worker EXCEPT ![i] = "top"]
            /\ UNCHANGED <<nxt, waiting>>
         \/ /\ wk[i] # Nil /\ nxt' = [nxt EXCEPT ![i] = wk_entry[wk[i]]]
            /\ worker' = [worker EXCEPT ![i] = wq_func]
            /\ waiting' = [waiting EXCEPT ![i] = IF @ = << >> THEN @ ELSE Tail(@)]
  BY Zenon DEF Call, queues
<1>2. wq_func # Nil
  BY <1>1, Zenon DEF WqInv, Working, Stage
<1>3. /\ \A j \in Queue \ {i} : waiting'[j] = waiting[j]
      /\ waiting'[i] = waiting[i] \/ (waiting[i] # << >> /\ waiting'[i] = Tail(waiting[i]))
      /\ waiting' \in [Queue -> Seq(Work)]
  <2>1. waiting \in [Queue -> Seq(Work)] /\ waiting[i] \in Seq(Work)
    BY Zenon DEF WqInv, WqTypes
  <2>2. waiting[i] # << >> => Tail(waiting[i]) \in Seq(Work)
    BY <2>1
  <2>3. \/ waiting' = waiting
        \/ waiting[i] # << >> /\ waiting' = [waiting EXCEPT ![i] = Tail(waiting[i])]
    BY <1>1, <2>1, Zenon
  <2> QED  BY <2>1, <2>2, <2>3, Zenon
<1>4. WqTypes'
  <2>1. worker' \in [Queue -> {"gone", "top", "sleep", "list", "client", "exit"}]
    BY <1>1, <1>2, Zenon DEF WqInv, WqTypes
  <2>2. nxt' \in [Queue -> Thing]
    BY <1>1, ZenonT(30) DEF WqInv, WqTypes, Thing
  <2> QED  BY <1>1, <1>3, <2>1, <2>2, Zenon DEF WqInv, WqTypes
<1>5. Once' /\ Stage'
  <2>1. \A j \in Queue : /\ waiting[j] \in Seq(Work) /\ DOMAIN waiting[j] = 1 .. Len(waiting[j])
                         /\ Len(waiting[j]) \in Nat
    BY DEF WqInv, WqTypes
  <2> DEFINE d(j) == IF j = i /\ waiting'[i] # waiting[i] THEN 1 ELSE 0
  <2>2. \A j \in Queue : \A m \in DOMAIN waiting'[j] :
           /\ m \in Nat /\ m + d(j) \in DOMAIN waiting[j] /\ waiting'[j][m] = waiting[j][m + d(j)]
    <3> SUFFICES ASSUME NEW j \in Queue, NEW m \in DOMAIN waiting'[j]
                 PROVE  /\ m \in Nat /\ m + d(j) \in DOMAIN waiting[j]
                        /\ waiting'[j][m] = waiting[j][m + d(j)]
      BY Zenon
    <3>1. CASE d(j) = 0
      <4>1. waiting'[j] = waiting[j]
        BY <1>3, <3>1
      <4> QED  BY <2>1, <3>1, <4>1
    <3>2. CASE d(j) = 1
      <4>1. j = i /\ waiting[j] # << >> /\ waiting'[j] = Tail(waiting[j])
        BY <1>3, <3>2
      <4> HIDE DEF d
      <4> QED  BY <2>1, <3>2, <4>1
    <3> QED  BY <3>1, <3>2, Zenon
  <2>3. ASSUME NEW j \in Queue, NEW k \in Queue, NEW m \in DOMAIN waiting'[j],
               NEW n \in DOMAIN waiting'[k], waiting'[j][m] = waiting'[k][n]
        PROVE  j = k /\ m = n
    <3>1. j = k /\ m + d(j) = n + d(k)
      <4> HIDE DEF d
      <4>1. /\ m + d(j) \in DOMAIN waiting[j] /\ n + d(k) \in DOMAIN waiting[k]
            /\ waiting[j][m + d(j)] = waiting[k][n + d(k)]
        BY <2>2, <2>3, Zenon
      <4> QED  BY <4>1, Zenon DEF WqInv, Once
    <3>2. m \in Nat /\ n \in Nat /\ d(j) \in Nat
      BY <2>2, Zenon
    <3> HIDE DEF d
    <3> QED  BY <3>1, <3>2
  <2> QED  BY <1>1, <2>3, Zenon DEF WqInv, Once, Stage
<1>6. ASSUME NEW j \in Queue, NEW n \in Nat, Linked(j, n), wq_func = "client"
      PROVE  \E m \in Nat : Linked(j, m)'
  <2>1. CASE j # i \/ wk[i] = Nil
    <3>1. Upcoming(j)' = Upcoming(j) /\ waiting'[j] = waiting[j]
      BY <1>1, <1>3, <2>1, Zenon DEF WqInv, WqTypes, Upcoming
    <3> QED  BY <1>1, <1>6, <3>1, LinkedKept, Zenon
  <2>2. CASE j = i /\ wk[i] # Nil
    <3>1. /\ waiting[i] \in Seq(Work) /\ Len(waiting[i]) \in Nat
      BY DEF WqInv, WqTypes
    <3>2. waiting[i] # << >> /\ n # 0 /\ n <= Len(waiting[i]) /\ wk[i] = waiting[i][1]
      BY <1>1, <1>6, <2>2, FirstIsCalled DEF Linked, Upcoming
    <3>3. /\ waiting'[i] = Tail(waiting[i]) /\ nxt'[i] = wk_entry[waiting[i][1]]
          /\ worker'[i] = "client"
      BY <1>1, <1>6, <2>2, <3>2, ZenonT(30) DEF WqInv, WqTypes
    <3>4. /\ Len(waiting'[i]) = Len(waiting[i]) - 1
          /\ \A m \in 1 .. Len(waiting[i]) - 1 : waiting'[i][m] = waiting[i][m + 1]
      BY <3>1, <3>2, <3>3
    <3>5. Upcoming(i)' = IF n = 1 THEN Nil ELSE waiting[i][2]
      BY <1>6, <2>2, <3>1, <3>2, <3>3 DEF Linked, Upcoming
    <3>6. n - 1 \in 0 .. Len(waiting'[i]) /\ n - 1 \in Nat
      BY <3>1, <3>2, <3>4
    <3>7. Upcoming(i)' = IF n - 1 = 0 THEN Nil ELSE waiting'[i][1]
      BY <3>1, <3>2, <3>4, <3>5
    <3>8. /\ sqh_first'[i] = IF n - 1 = Len(waiting'[i]) THEN Nil ELSE waiting'[i][n - 1 + 1]
          /\ sqh_last'[i] = IF n - 1 = Len(waiting'[i]) THEN Nil ELSE waiting'[i][Len(waiting'[i])]
      <4>1. /\ sqh_first'[i] = IF n = Len(waiting[i]) THEN Nil ELSE waiting[i][n + 1]
            /\ sqh_last'[i] = IF n = Len(waiting[i]) THEN Nil ELSE waiting[i][Len(waiting[i])]
        BY <1>1, <1>6, <2>2, Zenon DEF Linked
      <4> QED  BY <3>1, <3>2, <3>4, <4>1
    <3>9. \A m \in 1 .. Len(waiting'[i]) :
             wk_entry'[waiting'[i][m]] = IF m = n - 1 \/ m = Len(waiting'[i])
                                         THEN Nil ELSE waiting'[i][m + 1]
      <4> TAKE m \in 1 .. Len(waiting'[i])
      <4>1. m + 1 \in 1 .. Len(waiting[i]) /\ m \in Nat /\ waiting'[i][m] = waiting[i][m + 1]
        BY <3>1, <3>2, <3>4
      <4>2. wk_entry'[waiting'[i][m]] = IF m + 1 = n \/ m + 1 = Len(waiting[i])
                                        THEN Nil ELSE waiting[i][m + 1 + 1]
        BY <1>1, <1>6, <2>2, <4>1, ZenonT(30) DEF Linked
      <4>3. m + 1 # Len(waiting[i]) => waiting'[i][m + 1] = waiting[i][m + 1 + 1]
        <5> SUFFICES ASSUME m + 1 # Len(waiting[i])
                     PROVE  waiting'[i][m + 1] = waiting[i][m + 1 + 1]
          BY Zenon
        <5>1. m + 1 \in 1 .. Len(waiting[i]) - 1
          BY <3>1, <4>1
        <5> QED  BY <3>4, <5>1, Zenon
      <4>4. (m = n - 1 <=> m + 1 = n) /\ (m = Len(waiting'[i]) <=> m + 1 = Len(waiting[i]))
        <5>1. m \in Nat /\ n \in Nat /\ Len(waiting[i]) \in Nat
          BY <3>1, <4>1, Zenon
        <5>2. Len(waiting'[i]) = Len(waiting[i]) - 1
          BY <3>4, Zenon
        <5> QED  BY <5>1, <5>2
      <4> QED  BY <4>2, <4>3, <4>4, Zenon
    <3>10. Linked(i, n - 1)'
      BY <3>6, <3>7, <3>8, <3>9, Zenon DEF Linked
    <3> QED  BY <2>2, <3>6, <3>10, Zenon
  <2> QED  BY <2>1, <2>2, Zenon
<1>7. \A j \in Queue : /\ worker'[j] = "gone" <=> worker[j] = "gone"
                       /\ wq_func = "client" /\ worker[j] # "exit" => worker'[j] # "exit"
                       /\ waiting[j] = << >> => waiting'[j] = << >>
  BY <1>1, <1>2, Zenon DEF WqInv, WqTypes
<1>8. Working'
  BY <1>1, <1>6, <1>7, Zenon DEF WqInv, Working, Stage
<1> QED  BY <1>4, <1>5, <1>8, Zenon DEF WqInv

\* A work that is enqueued waits after the others, and is linked to the last.
LEMMA EnqueueInv ==
    ASSUME WqInv, NEW i \in Queue, NEW w \in Work, workqueue_enqueue(i, w)
    PROVE  WqInv'
<1>0. Nil \notin Work
  BY WorkqueueAssumption, Zenon
<1>1. /\ waiting \in [Queue -> Seq(Work)]
      /\ \A j \in Queue : /\ waiting[j] \in Seq(Work) /\ DOMAIN waiting[j] = 1 .. Len(waiting[j])
                          /\ Len(waiting[j]) \in Nat
                          /\ \A m \in 1 .. Len(waiting[j]) : waiting[j][m] \in Work
  BY DEF WqInv, WqTypes
<1>2. \A j \in Queue : \A m \in 1 .. Len(waiting[j]) : waiting[j][m] # w
  BY Zenon DEF workqueue_enqueue, Waiting
<1>3. /\ owner = "created" /\ UNCHANGED <<wq_func, q_worker, wk, nxt, owner, todo, fq>>
      /\ waiting' = [waiting EXCEPT ![i] = Append(waiting[i], w)]
      /\ worker' = [worker EXCEPT ![i] = IF @ = "sleep" THEN "top" ELSE @]
      /\ wk_entry' = [v \in Work \cup {wqe} |->
                       IF v = w THEN Nil ELSE IF v = sqh_last[i] THEN w ELSE wk_entry[v]]
      /\ sqh_first' = IF sqh_last[i] = Nil THEN [sqh_first EXCEPT ![i] = w] ELSE sqh_first
      /\ sqh_last' = [sqh_last EXCEPT ![i] = w]
  BY Zenon DEF workqueue_enqueue, SIMPLEQ_INSERT_TAIL, cv_signal
<1>4. /\ Append(waiting[i], w) \in Seq(Work)
      /\ waiting'[i] = Append(waiting[i], w) /\ Len(waiting'[i]) = Len(waiting[i]) + 1
      /\ \A m \in 1 .. Len(waiting[i]) : waiting'[i][m] = waiting[i][m]
      /\ waiting'[i][Len(waiting[i]) + 1] = w
      /\ \A j \in Queue \ {i} : waiting'[j] = waiting[j]
      /\ waiting' \in [Queue -> Seq(Work)]
  BY <1>1, <1>3
<1>5. WqTypes'
  <2>1. worker' \in [Queue -> {"gone", "top", "sleep", "list", "client", "exit"}]
    BY <1>3, Zenon DEF WqInv, WqTypes
  <2>2. sqh_first' \in [Queue -> Thing] /\ sqh_last' \in [Queue -> Thing]
    BY <1>3, Zenon DEF WqInv, WqTypes, Thing
  <2>3. wk_entry' \in [Work \cup {wqe} -> Thing]
    BY <1>3, Zenon DEF WqInv, WqTypes, Thing
  <2> QED  BY <1>3, <1>4, <2>1, <2>2, <2>3, Zenon DEF WqInv, WqTypes
<1>6. Once' /\ Stage'
  <2>1. ASSUME NEW j \in Queue, NEW m \in DOMAIN waiting'[j]
        PROVE  \/ m \in DOMAIN waiting[j] /\ waiting'[j][m] = waiting[j][m] /\ waiting[j][m] # w
               \/ j = i /\ m = Len(waiting[i]) + 1 /\ waiting'[j][m] = w
    <3>1. DOMAIN waiting'[j] = 1 .. Len(waiting'[j])
      BY <1>4
    <3> QED  BY <1>1, <1>2, <1>4, <3>1
  <2>2. ASSUME NEW j \in Queue, NEW k \in Queue, NEW m \in DOMAIN waiting'[j],
               NEW n \in DOMAIN waiting'[k], waiting'[j][m] = waiting'[k][n]
        PROVE  j = k /\ m = n
    <3>1. CASE waiting'[j][m] = w
      <4>1. j = i /\ m = Len(waiting[i]) + 1
        BY <2>1, <3>1, Zenon
      <4>2. k = i /\ n = Len(waiting[i]) + 1
        BY <2>1, <2>2, <3>1, Zenon
      <4> QED  BY <4>1, <4>2, Zenon
    <3>2. CASE waiting'[j][m] # w
      <4>1. m \in DOMAIN waiting[j] /\ waiting'[j][m] = waiting[j][m]
        BY <2>1, <3>2, Zenon
      <4>2. n \in DOMAIN waiting[k] /\ waiting'[k][n] = waiting[k][n]
        BY <2>1, <2>2, <3>2, Zenon
      <4>3. waiting[j][m] = waiting[k][n]
        BY <2>2, <4>1, <4>2, Zenon
      <4>4. Once
        BY Zenon DEF WqInv
      <4> QED  BY <4>1, <4>2, <4>3, <4>4, Zenon DEF Once
    <3> QED  BY <3>1, <3>2, Zenon
  <2> QED  BY <1>3, <2>2, Zenon DEF WqInv, Once, Stage
<1>7. ASSUME NEW j \in Queue PROVE Upcoming(j)' = Upcoming(j)
  BY <1>3, Zenon DEF WqInv, WqTypes, Upcoming
<1>8. ASSUME NEW j \in Queue, NEW n \in Nat, Linked(j, n), j # i
      PROVE  Linked(j, n)'
  <2>1. sqh_last[i] = Nil \/ \E m \in 1 .. Len(waiting[i]) : sqh_last[i] = waiting[i][m]
    <3>1. PICK k \in Nat : Linked(i, k)
      BY <1>3, Zenon DEF WqInv, Working
    <3> QED  BY <1>1, <3>1 DEF Linked
  <2>2. \A m \in 1 .. Len(waiting[j]) : waiting[j][m] # sqh_last[i]
    <3> TAKE m \in 1 .. Len(waiting[j])
    <3>1. CASE sqh_last[i] = Nil
      BY <1>0, <1>1, <3>1, Zenon
    <3>2. CASE \E k \in 1 .. Len(waiting[i]) : sqh_last[i] = waiting[i][k]
      <4>1. PICK k \in 1 .. Len(waiting[i]) : sqh_last[i] = waiting[i][k]
        BY <3>2, Zenon
      <4>2. k \in DOMAIN waiting[i] /\ m \in DOMAIN waiting[j]
        BY <1>1, Zenon
      <4> QED  BY <1>8, <4>1, <4>2, ZenonT(30) DEF WqInv, Once
    <3> QED  BY <2>1, <3>1, <3>2, Zenon
  <2>3. \A m \in 1 .. Len(waiting[j]) : wk_entry'[waiting[j][m]] = wk_entry[waiting[j][m]]
    BY <1>1, <1>2, <1>3, <2>2, Zenon
  <2>4. waiting'[j] = waiting[j] /\ sqh_first'[j] = sqh_first[j] /\ sqh_last'[j] = sqh_last[j]
    BY <1>3, <1>8, Zenon DEF WqInv, WqTypes
  <2> QED  BY <1>7, <1>8, <2>3, <2>4, Zenon DEF Linked
<1>9. ASSUME NEW n \in Nat, Linked(i, n)
      PROVE  Linked(i, n)'
  <2> DEFINE l == Len(waiting[i])
  <2>1. n \in 0 .. l /\ l \in Nat
    BY <1>1, <1>9, Zenon DEF Linked
  <2>2. Upcoming(i)' = IF n = 0 THEN Nil ELSE waiting'[i][1]
    BY <1>4, <1>7, <1>9, <2>1 DEF Linked
  <2>3. n = l <=> sqh_last[i] = Nil
    BY <1>0, <1>1, <1>9, <2>1 DEF Linked
  <2>4. /\ sqh_first'[i] = waiting'[i][n + 1] /\ sqh_last'[i] = waiting'[i][l + 1]
    <3>1. CASE n = l
      BY <1>3, <1>4, <2>3, <3>1, Zenon DEF WqInv, WqTypes
    <3>2. CASE n # l
      BY <1>3, <1>4, <1>9, <2>1, <2>3, <3>2 DEF WqInv, WqTypes, Linked
    <3> QED  BY <3>1, <3>2, Zenon
  <2>5. ASSUME NEW m \in 1 .. l + 1
        PROVE  wk_entry'[waiting'[i][m]] = IF m = n \/ m = l + 1 THEN Nil ELSE waiting'[i][m + 1]
    <3>1. CASE m = l + 1
      BY <1>3, <1>4, <3>1, Zenon
    <3>2. CASE m = l /\ m # n
      <4>1. waiting[i][m] = sqh_last[i] /\ waiting[i][m] \in Work /\ waiting[i][m] # w
        BY <1>1, <1>2, <1>9, <2>1, <3>2 DEF Linked
      <4> QED  BY <1>3, <1>4, <2>1, <3>2, <4>1
    <3>3. CASE m # l + 1 /\ (m # l \/ m = n)
      <4>1. m \in 1 .. l /\ waiting'[i][m] = waiting[i][m]
        <5>1. m \in 1 .. l
          <6> HIDE DEF l
          <6> QED  BY <2>1, <3>3
        <5> QED  BY <1>4, <5>1, Zenon
      <4>2. waiting[i][m] # sqh_last[i]
        <5>1. CASE n = l
          BY <1>0, <1>1, <2>3, <4>1, <5>1, Zenon
        <5>2. CASE n # l
          <6>1. l \in DOMAIN waiting[i] /\ m \in DOMAIN waiting[i] /\ m # l
            BY <1>1, <2>1, <3>3, <4>1, <5>2
          <6>2. sqh_last[i] = waiting[i][l]
            BY <1>9, <5>2, Zenon DEF Linked
          <6> QED  BY <6>1, <6>2, ZenonT(30) DEF WqInv, Once
        <5> QED  BY <5>1, <5>2, Zenon
      <4>3. wk_entry'[waiting'[i][m]] = wk_entry[waiting[i][m]]
        BY <1>1, <1>2, <1>3, <4>1, <4>2, Zenon
      <4>4. wk_entry[waiting[i][m]] = IF m = n \/ m = l THEN Nil ELSE waiting[i][m + 1]
        BY <1>9, <4>1, Zenon DEF Linked
      <4>5. m # l => waiting'[i][m + 1] = waiting[i][m + 1]
        BY <1>4, <2>1, <4>1
      <4> QED  BY <2>1, <3>3, <4>1, <4>3, <4>4, <4>5, Zenon
    <3> QED  BY <3>1, <3>2, <3>3, Zenon
  <2>6. Len(waiting'[i]) = l + 1 /\ n # l + 1 /\ n \in 0 .. l + 1
    BY <1>4, <2>1
  <2> HIDE DEF l
  <2> QED  BY <2>2, <2>4, <2>5, <2>6, Zenon DEF Linked
<1>10. \A j \in Queue : /\ worker'[j] = "gone" <=> worker[j] = "gone"
                        /\ worker[j] # "exit" => worker'[j] # "exit"
  BY <1>3, Zenon DEF WqInv, WqTypes
<1>11. \A j \in Queue : (\E n \in Nat : Linked(j, n)) => \E n \in Nat : Linked(j, n)'
  BY <1>8, <1>9, Zenon
<1>12. Working'
  BY <1>3, <1>10, <1>11, Zenon DEF WqInv, Working, Ending
<1> QED  BY <1>5, <1>6, <1>12, Zenon DEF WqInv

\* The function of the extra work removes the worker, and wakes who waits for
\* that.
LEMMA ExitInv ==
    ASSUME WqInv, NEW i \in Queue, workqueue_exit(i)
    PROVE  WqInv'
<1>1. /\ worker[i] = "exit" /\ q_worker' = [q_worker EXCEPT ![i] = FALSE]
      /\ worker' = [worker EXCEPT ![i] = "gone"]
      /\ owner' = IF owner = "sleep" /\ fq = i THEN "wait" ELSE owner
      /\ wk' = [wk EXCEPT ![i] = Nil] /\ nxt' = [nxt EXCEPT ![i] = Nil]
      /\ UNCHANGED <<wq_func, sqh_first, sqh_last, wk_entry, todo, fq, waiting>>
  BY Zenon DEF workqueue_exit, queues
<1>2. owner \in Ending /\ owner' \in Ending
  BY <1>1, Zenon DEF WqInv, WqTypes, Working, Ending
<1>3. WqTypes'
  BY <1>1, <1>2, Zenon DEF WqInv, WqTypes, Thing
<1>4. Once' /\ Stage'
  BY <1>1, <1>2 DEF WqInv, Once, Stage, Ending
<1>5. owner' \notin {"out", "create", "created"} /\ owner \notin {"out", "create", "created"}
  BY <1>2, Zenon DEF Ending
<1>6. \A j \in Queue : /\ q_worker'[j] = (q_worker[j] /\ j # i)
                       /\ worker'[j] = IF j = i THEN "gone" ELSE worker[j]
  BY <1>1, Zenon DEF WqInv, WqTypes
<1>7. Working'
  <2> SUFFICES ASSUME NEW j \in Queue
               PROVE  /\ q_worker'[j] <=> worker'[j] # "gone"
                      /\ waiting'[j] = << >>
                      /\ j \in todo' \/ j = fq' \/ ~q_worker'[j]
    BY <1>2, <1>5, Zenon DEF Working
  <2> QED  BY <1>1, <1>2, <1>5, <1>6, ZenonT(30) DEF WqInv, Working
<1> QED  BY <1>3, <1>4, <1>7, Zenon DEF WqInv

\* The function is the client's as soon as workqueue_create has begun.
LEMMA CreateInv == ASSUME WqInv, workqueue_create PROVE WqInv'
<1>1. /\ owner = "out" /\ owner' = "create" /\ todo' = Queue /\ wq_func' = "client"
      /\ UNCHANGED <<q_worker, sqh_first, sqh_last, wk_entry, worker, wk, nxt, fq, waiting>>
  BY Zenon DEF workqueue_create, queues, workers
<1>2. WqTypes' /\ Stage'
  BY <1>1, Zenon DEF WqInv, WqTypes, Stage, Ending
<1>3. Once' /\ Working'
  BY <1>1 DEF WqInv, Once, Working, Ending
<1> QED  BY <1>2, <1>3, Zenon DEF WqInv

\* workqueue_destroy begins when nothing waits.
LEMMA DestroyInv == ASSUME WqInv, workqueue_destroy PROVE WqInv'
<1>1. /\ owner = "created" /\ owner' = "destroy" /\ todo' = Queue /\ wq_func' = "exit"
      /\ \A i \in Queue : waiting[i] = << >>
      /\ UNCHANGED <<q_worker, sqh_first, sqh_last, wk_entry, worker, wk, nxt, fq, waiting>>
  BY Zenon DEF workqueue_destroy, queues, workers, Quiet
<1>2. WqTypes' /\ Stage'
  BY <1>1, WorkqueueAssumption, Zenon DEF WqInv, WqTypes, Stage, Ending
<1>3. Once' /\ Working'
  BY <1>1 DEF WqInv, Once, Working, Ending
<1> QED  BY <1>2, <1>3, Zenon DEF WqInv

\* A queue that is created is empty, and its worker has taken nothing; or all
\* that were created are to be finished.
LEMMA InitqueueInv ==
    ASSUME WqInv, NEW i \in Queue, workqueue_initqueue(i)
    PROVE  WqInv'
<1>1. /\ owner = "create" /\ i \in todo /\ waiting[i] = << >> /\ ~q_worker[i]
      /\ sqh_first' = [sqh_first EXCEPT ![i] = Nil]
      /\ sqh_last' = [sqh_last EXCEPT ![i] = Nil]
      /\ UNCHANGED <<wk_entry, wk, nxt, fq, waiting>>
  BY Zenon DEF workqueue_initqueue, WqInv, Working
<1>2. sqh_first' \in [Queue -> Thing] /\ sqh_last' \in [Queue -> Thing]
  BY <1>1, Zenon DEF WqInv, WqTypes, Thing
<1>3. CASE /\ todo' = Queue /\ owner' = "destroy" /\ wq_func' = "exit"
           /\ UNCHANGED <<q_worker, worker>>
  <2>1. WqTypes' /\ Stage'
    BY <1>1, <1>2, <1>3, WorkqueueAssumption, Zenon DEF WqInv, WqTypes, Stage, Ending
  <2>2. Once' /\ Working'
    BY <1>1, <1>3 DEF WqInv, Once, Working, Ending
  <2> QED  BY <2>1, <2>2, Zenon DEF WqInv
<1>4. CASE /\ q_worker' = [q_worker EXCEPT ![i] = TRUE]
           /\ worker' = [worker EXCEPT ![i] = "top"]
           /\ todo' = todo \ {i} /\ owner' = IF todo = {i} THEN "created" ELSE "create"
           /\ UNCHANGED wq_func
  <2>1. WqTypes'
    BY <1>1, <1>2, <1>4, Zenon DEF WqInv, WqTypes, Ending
  <2>2. Once' /\ Stage'
    BY <1>1, <1>4 DEF WqInv, Once, Stage
  <2>3. Linked(i, 0)'
    <3>1. /\ waiting'[i] = << >> /\ sqh_first'[i] = Nil /\ sqh_last'[i] = Nil
          /\ worker'[i] = "top"
      BY <1>1, <1>4, Zenon DEF WqInv, WqTypes
    <3> QED  BY <3>1 DEF Linked, Upcoming
  <2>4. ASSUME NEW j \in Queue, j # i
        PROVE  /\ q_worker'[j] = q_worker[j] /\ worker'[j] = worker[j]
               /\ \A n \in Nat : Linked(j, n) => Linked(j, n)'
    <3>1. /\ q_worker'[j] = q_worker[j] /\ worker'[j] = worker[j]
          /\ sqh_first'[j] = sqh_first[j] /\ sqh_last'[j] = sqh_last[j]
      BY <1>1, <1>4, <2>4, Zenon DEF WqInv, WqTypes
    <3>2. Upcoming(j)' = Upcoming(j)
      BY <1>1, <3>1, Zenon DEF Upcoming
    <3> QED  BY <1>1, <3>1, <3>2, LinkedKept, Zenon
  <2>5. /\ q_worker'[i] /\ worker'[i] = "top"
        /\ owner' = "created" => \A j \in Queue : j # i => j \notin todo
        /\ owner' \in {"create", "created"}
    BY <1>4, Zenon DEF WqInv, WqTypes
  <2>6. ASSUME NEW j \in Queue
        PROVE  /\ q_worker'[j] <=> worker'[j] # "gone"
               /\ waiting'[j] = << >>
               /\ owner' = "create" => (q_worker'[j] <=> j \notin todo')
               /\ owner' = "created" => q_worker'[j]
               /\ q_worker'[j] => worker'[j] # "exit" /\ \E n \in Nat : Linked(j, n)'
    <3>1. CASE j = i
      BY <1>1, <1>4, <2>3, <2>5, <3>1, Zenon
    <3>2. CASE j # i
      <4>1. j \in todo' <=> j \in todo
        BY <1>4, <3>2, Zenon
      <4> QED  BY <1>1, <2>4, <2>5, <3>2, <4>1, Zenon DEF WqInv, Working
    <3> QED  BY <3>1, <3>2, Zenon
  <2>7. owner' \notin Ending /\ owner' # "out"
    BY <2>5, Zenon DEF Ending
  <2>8. Working'
    BY <2>6, <2>7, Zenon DEF Working
  <2> QED  BY <2>1, <2>2, <2>8, Zenon DEF WqInv
<1> QED  BY <1>3, <1>4, Zenon DEF workqueue_initqueue

\* The extra work is given to the worker of a queue that has one.
LEMMA FiniqueueInv ==
    ASSUME WqInv, NEW i \in Queue, workqueue_finiqueue(i)
    PROVE  WqInv'
<1>1. /\ owner = "destroy" /\ i \in todo /\ todo' = todo \ {i}
      /\ UNCHANGED <<wq_func, q_worker, wk, nxt, waiting>>
  BY Zenon DEF workqueue_finiqueue
<1>2. CASE ~q_worker[i] /\ UNCHANGED <<queues, worker, owner, fq>>
  <2>1. WqTypes' /\ Stage'
    BY <1>1, <1>2, Zenon DEF WqInv, WqTypes, Stage, queues
  <2>2. Once' /\ Working'
    BY <1>1, <1>2 DEF WqInv, Once, Working, Ending
  <2> QED  BY <2>1, <2>2, Zenon DEF WqInv
<1>3. CASE /\ SIMPLEQ_INSERT_TAIL(i, wqe) /\ cv_signal(i)
           /\ owner' = "wait" /\ fq' = i
  <2>1. /\ wk_entry' = [v \in Work \cup {wqe} |->
                       IF v = wqe THEN Nil ELSE IF v = sqh_last[i] THEN wqe ELSE wk_entry[v]]
        /\ sqh_first' = IF sqh_last[i] = Nil THEN [sqh_first EXCEPT ![i] = wqe] ELSE sqh_first
        /\ sqh_last' = [sqh_last EXCEPT ![i] = wqe]
        /\ worker' = [worker EXCEPT ![i] = IF @ = "sleep" THEN "top" ELSE @]
    BY <1>3, Zenon DEF SIMPLEQ_INSERT_TAIL, cv_signal
  <2>2. /\ wk_entry' \in [Work \cup {wqe} -> Thing]
        /\ sqh_first' \in [Queue -> Thing] /\ sqh_last' \in [Queue -> Thing]
    BY <2>1, Zenon DEF WqInv, WqTypes, Thing
  <2>3. WqTypes' /\ Stage'
    BY <1>1, <1>3, <2>1, <2>2, Zenon DEF WqInv, WqTypes, Stage, Ending
  <2>4. \A j \in Queue : worker'[j] = "gone" <=> worker[j] = "gone"
    BY <2>1, Zenon DEF WqInv, WqTypes
  <2>5. Once'
    BY <1>1 DEF WqInv, Once
  <2>6. \A j \in Queue : j \in todo' \/ j = fq' \/ ~q_worker'[j]
    BY <1>1, <1>3, WorkqueueAssumption, Zenon DEF WqInv, Working, Stage, Ending
  <2>7. Working'
    BY <1>1, <1>3, <2>4, <2>6, Zenon DEF WqInv, Working, Ending
  <2> QED  BY <2>3, <2>5, <2>7, Zenon DEF WqInv
<1> QED  BY <1>2, <1>3, Zenon DEF workqueue_finiqueue

\* The owner goes on to the next queue only when the worker of this is gone.
LEMMA WaitInv == ASSUME WqInv, Wait PROVE WqInv'
<1>1. /\ owner = "wait" /\ owner' = IF q_worker[fq] THEN "sleep" ELSE "destroy"
      /\ fq' = IF q_worker[fq] THEN fq ELSE Nil
      /\ UNCHANGED <<wq_func, q_worker, sqh_first, sqh_last, wk_entry, worker, wk, nxt, todo, waiting>>
  BY Zenon DEF Wait, queues, workers
<1>2. WqTypes' /\ Stage'
  BY <1>1, Zenon DEF WqInv, WqTypes, Stage, Ending
<1>3. Once' /\ Working'
  BY <1>1 DEF WqInv, Once, Working, Ending
<1> QED  BY <1>2, <1>3, Zenon DEF WqInv

\* What is freed has no worker.
LEMMA FreeInv == ASSUME WqInv, Free PROVE WqInv'
<1>1. /\ owner = "destroy" /\ todo = {} /\ owner' = "out" /\ wq_func' = Nil
      /\ UNCHANGED <<q_worker, sqh_first, sqh_last, wk_entry, worker, wk, nxt, todo, fq, waiting>>
  BY Zenon DEF Free, queues, workers
<1>2. WqTypes' /\ Stage'
  BY <1>1, WorkqueueAssumption, Zenon DEF WqInv, WqTypes, Stage, Ending
<1>3. Once' /\ Working'
  BY <1>1, WorkqueueAssumption DEF WqInv, Once, Working, Stage, Ending
<1> QED  BY <1>2, <1>3, Zenon DEF WqInv

\* A step that changes nothing preserves the invariant.
LEMMA WqStutterInv == ASSUME WqInv, UNCHANGED wqvars PROVE WqInv'
<1>1. UNCHANGED <<wq_func, q_worker, sqh_first, sqh_last, wk_entry, worker, wk, nxt, owner,
                  todo, fq, waiting>>
  BY Zenon DEF wqvars, queues, workers
<1> QED  BY <1>1 DEF WqInv, WqTypes, Once, Working, Stage, Linked, Upcoming

\* Every step preserves the invariant.
LEMMA WqNextInv == WqInv /\ [WqNext]_wqvars => WqInv'
BY WqStutterInv, TakeListInv, CallInv, ReturnsInv, ExitInv, EnqueueInv, CreateInv, DestroyInv,
   InitqueueInv, FiniqueueInv, WaitInv, FreeInv, Zenon DEF WqNext, Worker, Owner

\* WqInv is an invariant of the workqueue.
THEOREM WqInvariance == WqSpec => []WqInv
BY WqInitInv, WqNextInv, PTL DEF WqSpec

\* workqueue_destroy frees the queues only when no worker runs on them, also
\* after a workqueue_create that failed half way.
THEOREM FreedHasNoWorker == WqSpec => [](owner = "out" => \A i \in Queue : worker[i] = "gone")
<1>1. WqInv => (owner = "out" => \A i \in Queue : worker[i] = "gone")
  BY Zenon DEF WqInv, Working
<1>2. QED
  BY <1>1, WqInvariance, PTL

\* subr_workqueue.c calls the client's function for the works of a queue in
\* the order they were enqueued in, once each time.
THEOREM WorksInOrder == WqSpec => InOrder
<1> DEFINE A == \A i \in Queue : worker[i] = "list" /\ worker'[i] = "client" =>
                   waiting[i] # << >> /\ Head(waiting[i]) = wk[i]
<1>1. WqInv /\ [WqNext]_wqvars => [A]_wqvars
  <2> SUFFICES ASSUME WqInv, WqNext, NEW i \in Queue, worker[i] = "list", worker'[i] = "client"
               PROVE  waiting[i] # << >> /\ Head(waiting[i]) = wk[i]
    BY Zenon
  <2>1. worker \in [Queue -> {"gone", "top", "sleep", "list", "client", "exit"}]
    BY Zenon DEF WqInv, WqTypes
  <2>2. ASSUME NEW j \in Queue, Worker(j) PROVE Call(i)
    BY <2>1, <2>2, Zenon DEF Worker, TakeList, Call, FuncReturns, workqueue_exit
  <2>3. ASSUME NEW j \in Queue, NEW w \in Work, workqueue_enqueue(j, w) PROVE FALSE
    BY <2>1, <2>3, Zenon DEF workqueue_enqueue, cv_signal
  <2>4. ASSUME NEW j \in Queue, workqueue_initqueue(j) \/ workqueue_finiqueue(j) PROVE FALSE
    BY <2>1, <2>4, Zenon DEF workqueue_initqueue, workqueue_finiqueue, cv_signal
  <2>5. ~(workqueue_create \/ workqueue_destroy \/ Wait \/ Free)
    BY Zenon DEF workqueue_create, workqueue_destroy, Wait, Free, workers
  <2>6. Call(i)
    BY <2>2, <2>3, <2>4, <2>5, Zenon DEF WqNext, Owner
  <2>7. wk[i] # Nil /\ wq_func = "client"
    BY <2>1, <2>6, Zenon DEF Call
  <2> QED  BY <2>7, FirstIsCalled, Zenon
<1>2. QED
  BY <1>1, WqInvariance, PTL DEF WqSpec, InOrder
=============================================================================
