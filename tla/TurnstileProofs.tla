--------------------------- MODULE TurnstileProofs ---------------------------
(***************************************************************************)
(* Proofs about turnstiles and priority inheritance, for any LWPs, locks,  *)
(* turnstiles and priorities.                                              *)
(***************************************************************************)
EXTENDS Turnstile, FiniteSetTheorems, TLAPS

\* Nobody is on the queue twice.
Distinct(q) == \A i, j \in DOMAIN q : q[i] = q[j] => i = j

\* r is the queue q with l added to it, somewhere, and with l removed from it.
Added(S, r, q, l) ==
    /\ r \in Seq(S) /\ r # << >> /\ Len(r) = Len(q) + 1 /\ Distinct(r)
    /\ \A k \in S : k \in Members(r) <=> k \in Members(q) \/ k = l
Removed(S, r, q, l) ==
    /\ r \in Seq(S) /\ Len(r) = Len(q) - 1 /\ Distinct(r)
    /\ q # <<l>> => r # << >>
    /\ \A k \in S : k \in Members(r) <=> k \in Members(q) /\ k # l

\* TAILQ_FOREACH and CPU_INFO_FOREACH stop at a first element.
LEMMA Least ==
    ASSUME NEW N, N \subseteq Nat, N # {}
    PROVE  \E t \in N : \A u \in N : t <= u
<1> DEFINE Less == {p \in Nat \X Nat : p[1] < p[2]}
<1>1. IsWellFoundedOn(Less, Nat)
  BY NatLessThanWellFounded, Zenon DEF OpToRel
<1>2. PICK x \in N : \A y \in N : ~(<<y, x>> \in Less)
  <2> HIDE DEF Less
  <2> QED  BY <1>1, WFMin, Zenon
<1>3. ASSUME NEW y \in N PROVE x <= y
  <2>1. /\ x \in Nat /\ y \in Nat /\ <<y, x>> \notin Less
    BY <1>2, Zenon
  <2>2. ~(y < x)
    BY <2>1, Zenon
  <2> QED  BY <2>1, <2>2
<1> QED  BY <1>3, Zenon

\* Two queues, one behind the other
LEMMA Joined ==
    ASSUME NEW S, NEW s \in Seq(S), NEW t \in Seq(S)
    PROVE  /\ s \o t \in Seq(S) /\ Len(s \o t) = Len(s) + Len(t)
           /\ \A i \in 1 .. Len(s) + Len(t) :
                 (s \o t)[i] = IF i <= Len(s) THEN s[i] ELSE t[i - Len(s)]
  OBVIOUS

\* A queue with l put in at place n
PutAt(q, l, n) == SubSeq(q, 1, n - 1) \o <<l>> \o SubSeq(q, n, Len(q))

IsPut(S, r, q, l, n) ==
    /\ r \in Seq(S) /\ Len(r) = Len(q) + 1 /\ r[n] = l
    /\ \A i \in 1 .. Len(q) + 1 : /\ i < n => r[i] = q[i]
                                  /\ i > n => r[i] = q[i - 1]

\* Inserting at a place puts what is before it and behind it where it belongs.
LEMMA PutIn ==
    ASSUME NEW S, NEW q \in Seq(S), NEW l \in S, NEW n \in 1 .. Len(q) + 1
    PROVE  IsPut(S, PutAt(q, l, n), q, l, n)
<1> DEFINE a == SubSeq(q, 1, n - 1)
           b == SubSeq(q, n, Len(q))
           c == a \o <<l>>
           r == PutAt(q, l, n)
<1>1. Len(q) \in Nat /\ n \in Nat
  OBVIOUS
<1>2. /\ a \in Seq(S) /\ Len(a) = n - 1 /\ \A i \in 1 .. n - 1 : a[i] = q[i]
  BY <1>1
<1>3. /\ b \in Seq(S) /\ Len(b) = Len(q) - n + 1
      /\ \A i \in 1 .. Len(q) - n + 1 : b[i] = q[n + i - 1]
  BY <1>1
<1> HIDE DEF a, b
<1>4. /\ c \in Seq(S) /\ Len(c) = n /\ c[n] = l /\ \A i \in 1 .. n - 1 : c[i] = q[i]
  <2>1. <<l>> \in Seq(S) /\ Len(<<l>>) = 1 /\ <<l>>[1] = l
    OBVIOUS
  <2>2. c \in Seq(S) /\ Len(c) = Len(a) + 1
        /\ \A i \in 1 .. Len(a) + 1 : c[i] = IF i <= Len(a) THEN a[i] ELSE <<l>>[i - Len(a)]
    BY <1>2, <2>1, Joined, Zenon
  <2> HIDE DEF c
  <2>3. n \in 1 .. Len(a) + 1 /\ ~(n <= Len(a)) /\ n - Len(a) = 1 /\ Len(a) + 1 = n
    BY <1>1, <1>2
  <2>4. c[n] = l
    BY <2>1, <2>2, <2>3, Zenon
  <2>5. ASSUME NEW i \in 1 .. n - 1 PROVE c[i] = q[i]
    <3>1. i \in 1 .. Len(a) + 1 /\ i <= Len(a)
      BY <1>1, <1>2
    <3> QED  BY <1>2, <2>2, <3>1, Zenon
  <2> QED  BY <2>2, <2>3, <2>4, <2>5, Zenon
<1> HIDE DEF c
<1>5. r = c \o b
  BY Zenon DEF c, a, b, PutAt
<1>6. /\ c \o b \in Seq(S) /\ Len(c \o b) = n + (Len(q) - n + 1)
      /\ \A i \in 1 .. n + (Len(q) - n + 1) : (c \o b)[i] = IF i <= n THEN c[i] ELSE b[i - n]
  BY <1>3, <1>4, Joined
<1> HIDE DEF r
<1>7. /\ r \in Seq(S) /\ Len(r) = Len(q) + 1
      /\ \A i \in 1 .. Len(q) + 1 : r[i] = IF i <= n THEN c[i] ELSE b[i - n]
  <2>1. n + (Len(q) - n + 1) = Len(q) + 1
    BY <1>1
  <2> QED  BY <1>5, <1>6, <2>1, Zenon
<1>8. r[n] = l
  BY <1>1, <1>4, <1>7
<1>9. ASSUME NEW i \in 1 .. Len(q) + 1, i < n PROVE r[i] = q[i]
  BY <1>1, <1>4, <1>7, <1>9
<1>10. ASSUME NEW i \in 1 .. Len(q) + 1, i > n PROVE r[i] = q[i - 1]
  <2>1. r[i] = b[i - n] /\ i - n \in 1 .. Len(q) - n + 1
    BY <1>1, <1>7, <1>10
  <2>2. b[i - n] = q[n + (i - n) - 1]
    BY <1>3, <2>1, Zenon
  <2>3. n + (i - n) - 1 = i - 1
    BY <1>1
  <2> QED  BY <2>1, <2>2, <2>3, Zenon
<1> QED  BY <1>7, <1>8, <1>9, <1>10, Zenon DEF r, IsPut

\* sleepq_insert adds the LWP to the queue, wherever its place is.
LEMMA InsertIn ==
    ASSUME NEW S, NEW q \in Seq(S), NEW l \in S, NEW p, Distinct(q), l \notin Members(q)
    PROVE  Added(S, Insert(q, l, p), q, l)
<1> DEFINE lower == {i \in 1 .. Len(q) : p[q[i]] < p[l]}
           n == IF lower = {} THEN Len(q) + 1 ELSE CHOOSE i \in lower : \A j \in lower : i <= j
           r == PutAt(q, l, n)
<1>1. Len(q) \in Nat /\ DOMAIN q = 1 .. Len(q) /\ \A i \in 1 .. Len(q) : q[i] \in S
  OBVIOUS
<1>2. n \in 1 .. Len(q) + 1
  <2>1. CASE lower = {}
    BY <1>1, <2>1
  <2>2. CASE lower # {}
    <3>1. lower \subseteq Nat
      BY <1>1
    <3>2. n \in lower
      BY <2>2, <3>1, Least, Zenon
    <3> QED  BY <1>1, <3>2
  <2> QED  BY <2>1, <2>2, Zenon
<1>3. Insert(q, l, p) = r
  BY Zenon DEF Insert, PutAt
<1> HIDE DEF n
<1>4. /\ r \in Seq(S) /\ Len(r) = Len(q) + 1 /\ r[n] = l
      /\ \A i \in 1 .. Len(q) + 1 : /\ i < n => r[i] = q[i]
                                    /\ i > n => r[i] = q[i - 1]
  <2>1. IsPut(S, r, q, l, n)
    BY <1>2, PutIn, Zenon
  <2> QED  BY <2>1, Zenon DEF IsPut
<1> HIDE DEF r
<1>5. DOMAIN r = 1 .. Len(q) + 1 /\ r # << >>
  BY <1>1, <1>4
<1>6. \A i \in 1 .. Len(q) : q[i] # l
  BY <1>1, Zenon DEF Members
<1>7. Distinct(r)
  <2> SUFFICES ASSUME NEW i \in 1 .. Len(q) + 1, NEW j \in 1 .. Len(q) + 1, r[i] = r[j]
               PROVE  i = j
    BY <1>5, Zenon DEF Distinct
  <2>1. ASSUME NEW m \in 1 .. Len(q) + 1, m # n
        PROVE  /\ m < n => m \in DOMAIN q /\ r[m] = q[m]
               /\ ~(m < n) => m - 1 \in DOMAIN q /\ r[m] = q[m - 1]
    <3>1. m < n => m \in DOMAIN q
      BY <1>1, <1>2
    <3>2. ~(m < n) => m > n /\ m - 1 \in DOMAIN q
      BY <1>1, <1>2, <2>1
    <3> QED  BY <1>4, <3>1, <3>2, Zenon
  <2>2. ASSUME NEW m \in 1 .. Len(q) + 1, m # n PROVE r[m] # l
    BY <1>1, <1>6, <2>1, <2>2, Zenon
  <2>3. i = n <=> j = n
    BY <1>4, <2>2, Zenon
  <2>4. CASE i # n
    <3>1. /\ i < n /\ j < n => i = j
          /\ i < n /\ ~(j < n) => i = j - 1
          /\ ~(i < n) /\ j < n => i - 1 = j
          /\ ~(i < n) /\ ~(j < n) => i - 1 = j - 1
      BY <2>1, <2>3, <2>4, Zenon DEF Distinct
    <3> QED  BY <1>1, <1>2, <2>3, <2>4, <3>1
  <2> QED  BY <2>3, <2>4, Zenon
<1>8. ASSUME NEW k \in S PROVE k \in Members(r) <=> k \in Members(q) \/ k = l
  <2>1. ASSUME k \in Members(r) PROVE k \in Members(q) \/ k = l
    <3>1. PICK i \in 1 .. Len(q) + 1 : r[i] = k
      BY <1>5, <2>1, Zenon DEF Members
    <3>2. i < n => i \in DOMAIN q
      BY <1>1, <1>2
    <3>3. i > n => i - 1 \in DOMAIN q
      BY <1>1, <1>2
    <3> QED  BY <1>2, <1>4, <3>1, <3>2, <3>3 DEF Members
  <2>2. ASSUME k \in Members(q) PROVE k \in Members(r)
    <3>1. PICK i \in 1 .. Len(q) : q[i] = k
      BY <1>1, <2>2, Zenon DEF Members
    <3>2. i < n => i \in DOMAIN r /\ r[i] = k
      BY <1>1, <1>2, <1>4, <1>5, <3>1
    <3>3. ~(i < n) => i + 1 \in DOMAIN r /\ r[i + 1] = k
      BY <1>1, <1>2, <1>4, <1>5, <3>1
    <3> QED  BY <3>2, <3>3, Zenon DEF Members
  <2>3. l \in Members(r)
    BY <1>2, <1>4, <1>5, Zenon DEF Members
  <2> QED  BY <2>1, <2>2, <2>3, Zenon
<1> QED  BY <1>3, <1>4, <1>5, <1>7, <1>8, Zenon DEF Added

\* A queue with what is at place n taken out
Cut(q, n) == SubSeq(q, 1, n - 1) \o SubSeq(q, n + 1, Len(q))

IsCut(S, r, q, n) ==
    /\ r \in Seq(S) /\ Len(r) = Len(q) - 1
    /\ \A i \in 1 .. Len(q) - 1 : r[i] = IF i < n THEN q[i] ELSE q[i + 1]

\* Taking out what is at a place moves up what is behind it.
LEMMA TakeOut ==
    ASSUME NEW S, NEW q \in Seq(S), NEW n \in 1 .. Len(q)
    PROVE  IsCut(S, Cut(q, n), q, n)
<1> DEFINE a == SubSeq(q, 1, n - 1)
           b == SubSeq(q, n + 1, Len(q))
           r == Cut(q, n)
<1>1. Len(q) \in Nat /\ n \in Nat
  OBVIOUS
<1>2. /\ a \in Seq(S) /\ Len(a) = n - 1 /\ \A i \in 1 .. n - 1 : a[i] = q[i]
  BY <1>1
<1>3. /\ b \in Seq(S) /\ Len(b) = Len(q) - n /\ \A i \in 1 .. Len(q) - n : b[i] = q[n + i]
  BY <1>1
<1>4. r = a \o b
  BY Zenon DEF Cut
<1> HIDE DEF a, b, r
<1>5. /\ r \in Seq(S) /\ Len(r) = Len(a) + Len(b)
      /\ \A i \in 1 .. Len(a) + Len(b) : r[i] = IF i <= Len(a) THEN a[i] ELSE b[i - Len(a)]
  BY <1>2, <1>3, <1>4, Joined, Zenon
<1>6. /\ r \in Seq(S) /\ Len(r) = Len(q) - 1
      /\ \A i \in 1 .. Len(q) - 1 : r[i] = IF i <= n - 1 THEN a[i] ELSE b[i - (n - 1)]
  <2>1. Len(a) + Len(b) = Len(q) - 1
    BY <1>1, <1>2, <1>3
  <2> QED  BY <1>2, <1>5, <2>1, Zenon
<1>7. ASSUME NEW i \in 1 .. Len(q) - 1 PROVE r[i] = IF i < n THEN q[i] ELSE q[i + 1]
  <2>1. CASE i < n
    <3>1. i <= n - 1 /\ i \in 1 .. n - 1
      BY <1>1, <2>1
    <3>2. r[i] = a[i] /\ a[i] = q[i]
      BY <1>2, <1>6, <3>1, Zenon
    <3> QED  BY <2>1, <3>2, Zenon
  <2>2. CASE ~(i < n)
    <3>0. ~(i <= n - 1) /\ i - (n - 1) \in 1 .. Len(q) - n
      BY <1>1, <2>2
    <3>1. r[i] = b[i - (n - 1)] /\ i - (n - 1) \in 1 .. Len(q) - n
      BY <1>6, <3>0, Zenon
    <3>2. b[i - (n - 1)] = q[n + (i - (n - 1))]
      BY <1>3, <3>1, Zenon
    <3>3. n + (i - (n - 1)) = i + 1
      BY <1>1
    <3> QED  BY <2>2, <3>1, <3>2, <3>3, Zenon
  <2> QED  BY <2>1, <2>2, Zenon
<1> QED  BY <1>6, <1>7, Zenon DEF r, IsCut

\* Taking an element out of a queue without repetition leaves the others.
LEMMA OthersStay ==
    ASSUME NEW S, NEW q \in Seq(S), Distinct(q), NEW n \in 1 .. Len(q), NEW r,
           IsCut(S, r, q, n)
    PROVE  /\ Distinct(r) /\ q[n] \in S
           /\ \A k \in S : k \in Members(r) <=> k \in Members(q) /\ k # q[n]
<1> DEFINE f(m) == IF m < n THEN m ELSE m + 1
<1>0. /\ r \in Seq(S) /\ Len(r) = Len(q) - 1
      /\ \A i \in 1 .. Len(q) - 1 : r[i] = IF i < n THEN q[i] ELSE q[i + 1]
  BY Zenon DEF IsCut
<1>1. /\ Len(q) \in Nat /\ DOMAIN q = 1 .. Len(q) /\ DOMAIN r = 1 .. Len(q) - 1 /\ q[n] \in S
  BY <1>0
<1>2. \A i \in 1 .. Len(q) - 1 : f(i) \in 1 .. Len(q) /\ r[i] = q[f(i)] /\ f(i) # n
  BY <1>0, <1>1
<1>3. Distinct(r)
  <2> SUFFICES ASSUME NEW i \in 1 .. Len(q) - 1, NEW j \in 1 .. Len(q) - 1, r[i] = r[j]
               PROVE  i = j
    BY <1>1, Zenon DEF Distinct
  <2>1. f(i) = f(j)
    BY <1>1, <1>2, Zenon DEF Distinct
  <2> QED  BY <1>1, <2>1
<1>4. ASSUME NEW k \in S PROVE k \in Members(r) <=> k \in Members(q) /\ k # q[n]
  <2>1. ASSUME k \in Members(r) PROVE k \in Members(q) /\ k # q[n]
    <3>1. PICK i \in 1 .. Len(q) - 1 : r[i] = k
      BY <1>1, <2>1, Zenon DEF Members
    <3>2. f(i) \in 1 .. Len(q) /\ k = q[f(i)] /\ f(i) # n
      BY <1>2, <3>1, Zenon
    <3> HIDE DEF f
    <3> QED  BY <1>1, <3>2, Zenon DEF Members, Distinct
  <2>2. ASSUME k \in Members(q), k # q[n] PROVE k \in Members(r)
    <3>1. PICK i \in 1 .. Len(q) : q[i] = k
      BY <1>1, <2>2, Zenon DEF Members
    <3>2. i < n => i \in DOMAIN r /\ r[i] = k
      BY <1>0, <1>1, <3>1
    <3>3. ~(i < n) => i - 1 \in DOMAIN r /\ r[i - 1] = k
      BY <1>0, <1>1, <2>2, <3>1
    <3> QED  BY <3>2, <3>3, Zenon DEF Members
  <2> QED  BY <2>1, <2>2, Zenon
<1> QED  BY <1>1, <1>3, <1>4, Zenon

\* TAILQ_REMOVE takes out the LWP; a queue with others is not empty after it.
LEMMA WithoutIn ==
    ASSUME NEW S, NEW q \in Seq(S), NEW l \in Members(q), Distinct(q)
    PROVE  Removed(S, Without(q, l), q, l)
<1> DEFINE n == CHOOSE i \in 1 .. Len(q) : q[i] = l
           r == Cut(q, n)
<1>1. n \in 1 .. Len(q) /\ q[n] = l
  BY DEF Members
<1>2. Without(q, l) = r
  BY Zenon DEF Without, Cut
<1> HIDE DEF n
<1>3. IsCut(S, r, q, n)
  BY <1>1, TakeOut, Zenon
<1> HIDE DEF r
<1>4. q # <<l>> => r # << >>
  <2> SUFFICES ASSUME r = << >> PROVE q = <<l>>
    BY Zenon
  <2>1. Len(q) = 1
    BY <1>1, <1>3 DEF IsCut
  <2> QED  BY <1>1, <2>1
<1>5. Distinct(r) /\ \A k \in S : k \in Members(r) <=> k \in Members(q) /\ k # q[n]
  BY <1>1, <1>3, OthersStay, Zenon
<1> QED  BY <1>1, <1>2, <1>3, <1>4, <1>5, Zenon DEF IsCut, Removed

\* sleepq_reinsert changes the order only.
LEMMA ReinsertIn ==
    ASSUME NEW S, NEW q \in Seq(S), NEW l \in Members(q), NEW p, Distinct(q)
    PROVE  /\ Reinsert(q, l, p) \in Seq(S) /\ Distinct(Reinsert(q, l, p))
           /\ Len(Reinsert(q, l, p)) = Len(q)
           /\ \A k \in S : k \in Members(Reinsert(q, l, p)) <=> k \in Members(q)
<1> DEFINE w == Without(q, l)
<1>1. /\ w \in Seq(S) /\ Distinct(w) /\ Len(w) = Len(q) - 1
      /\ \A k \in S : k \in Members(w) <=> k \in Members(q) /\ k # l
  <2>1. Removed(S, w, q, l)
    BY WithoutIn, Zenon
  <2> QED  BY <2>1, Zenon DEF Removed
<1>2. l \in S /\ Len(q) \in Nat
  BY DEF Members
<1>3. /\ Insert(w, l, p) \in Seq(S) /\ Distinct(Insert(w, l, p))
      /\ Len(Insert(w, l, p)) = Len(w) + 1
      /\ \A k \in S : k \in Members(Insert(w, l, p)) <=> k \in Members(w) \/ k = l
  <2> HIDE DEF w
  <2>1. w \in Seq(S) /\ Distinct(w) /\ l \notin Members(w)
    BY <1>1, <1>2, Zenon
  <2>2. Added(S, Insert(w, l, p), w, l)
    BY <1>2, <2>1, InsertIn, Zenon
  <2> QED  BY <2>2, Zenon DEF Added
<1>4. Len(Insert(w, l, p)) = Len(q)
  BY <1>1, <1>2, <1>3
<1>5. Reinsert(q, l, p) = Insert(w, l, p)
  BY Zenon DEF Reinsert
<1> HIDE DEF w
<1> QED  BY <1>1, <1>3, <1>4, <1>5, Zenon

\* A list has no members if it is empty, and otherwise its head is one.
LEMMA SomeMember ==
    ASSUME NEW S, NEW q \in Seq(S)
    PROVE  /\ Len(q) \in Nat /\ (Members(q) = {} <=> Len(q) = 0) /\ (q = << >> <=> Len(q) = 0)
           /\ Members(q) \subseteq S /\ (Len(q) >= 1 => q[1] \in S /\ q[1] \in Members(q))
<1>1. Len(q) \in Nat /\ DOMAIN q = 1 .. Len(q) /\ (q = << >> <=> Len(q) = 0)
  OBVIOUS
<1>2. Members(q) \subseteq S
  BY <1>1 DEF Members
<1>3. Len(q) >= 1 => q[1] \in S /\ q[1] \in Members(q)
  BY <1>1 DEF Members
<1>4. Len(q) = 0 => Members(q) = {}
  BY <1>1 DEF Members
<1>5. Len(q) = 0 \/ Len(q) >= 1
  BY <1>1
<1> QED  BY <1>1, <1>2, <1>3, <1>4, <1>5, Zenon

\* A list with one more in front.
LEMMA InFront ==
    ASSUME NEW S, NEW q \in Seq(S), NEW x \in S, Distinct(q), x \notin Members(q)
    PROVE  Added(S, <<x>> \o q, q, x)
<1> DEFINE r == <<x>> \o q
<1>1. /\ r \in Seq(S) /\ Len(r) = Len(q) + 1 /\ r[1] = x
      /\ \A i \in 2 .. Len(q) + 1 : r[i] = q[i - 1]
  <2>1. <<x>> \in Seq(S) /\ Len(<<x>>) = 1 /\ <<x>>[1] = x
    OBVIOUS
  <2>2. /\ r \in Seq(S) /\ Len(r) = 1 + Len(q)
        /\ \A i \in 1 .. 1 + Len(q) : r[i] = IF i <= 1 THEN <<x>>[i] ELSE q[i - 1]
    BY <2>1, Joined, Zenon
  <2> HIDE DEF r
  <2> QED  BY <2>1, <2>2
<1> HIDE DEF r
<1>2. DOMAIN r = 1 .. Len(q) + 1 /\ DOMAIN q = 1 .. Len(q) /\ Len(q) \in Nat
  BY <1>1
<1>3. \A i \in DOMAIN r : i = 1 \/ (i - 1 \in DOMAIN q /\ r[i] = q[i - 1])
  BY <1>1, <1>2
<1>4. \A i \in DOMAIN q : q[i] # x /\ i + 1 \in DOMAIN r /\ r[i + 1] = q[i]
  BY <1>1, <1>2 DEF Members
<1>5. Distinct(r)
  <2> SUFFICES ASSUME NEW i \in DOMAIN r, NEW j \in DOMAIN r, r[i] = r[j] PROVE i = j
    BY Zenon DEF Distinct
  <2>1. i # 1 /\ j # 1 => i - 1 = j - 1
    BY <1>3, Zenon DEF Distinct
  <2>2. i = 1 <=> j = 1
    BY <1>1, <1>3, <1>4
  <2> QED  BY <1>2, <2>1, <2>2
<1>6. ASSUME NEW y \in S PROVE y \in Members(r) <=> y \in Members(q) \/ y = x
  <2>1. 1 \in DOMAIN r
    BY <1>2
  <2>2. x \in Members(r)
    BY <1>1, <2>1, Zenon DEF Members
  <2>3. y \in Members(q) => y \in Members(r)
    BY <1>4, Zenon DEF Members
  <2>4. y \in Members(r) => y \in Members(q) \/ y = x
    BY <1>1, <1>3 DEF Members
  <2> QED  BY <2>2, <2>3, <2>4, Zenon
<1>7. r # << >>
  BY <1>2
<1> QED  BY <1>1, <1>5, <1>6, <1>7, Zenon DEF r, Added

\* What is left of a list when its first n are gone.
LEMMA RestOf ==
    ASSUME NEW S, NEW q \in Seq(S), NEW n \in 0 .. Len(q), Distinct(q)
    PROVE  /\ SubSeq(q, n + 1, Len(q)) \in Seq(S)
           /\ Len(SubSeq(q, n + 1, Len(q))) = Len(q) - n
           /\ Distinct(SubSeq(q, n + 1, Len(q)))
           /\ Members(SubSeq(q, n + 1, Len(q))) = {q[i] : i \in n + 1 .. Len(q)}
<1> DEFINE r == SubSeq(q, n + 1, Len(q))
<1>1. /\ r \in Seq(S) /\ Len(r) = Len(q) - n /\ DOMAIN r = 1 .. Len(q) - n
      /\ \A i \in 1 .. Len(q) - n : r[i] = q[i + n]
  OBVIOUS
<1> HIDE DEF r
<1>2. Len(q) \in Nat /\ n \in Nat /\ DOMAIN q = 1 .. Len(q)
  OBVIOUS
<1>3. Distinct(r)
  <2> SUFFICES ASSUME NEW i \in DOMAIN r, NEW j \in DOMAIN r, r[i] = r[j] PROVE i = j
    BY Zenon DEF Distinct
  <2>1. i + n \in DOMAIN q /\ j + n \in DOMAIN q /\ i \in Nat /\ j \in Nat
    BY <1>1, <1>2
  <2>2. i + n = j + n
    BY <1>1, <2>1, Zenon DEF Distinct
  <2> QED  BY <1>2, <2>1, <2>2
<1>4. Members(r) = {q[i] : i \in n + 1 .. Len(q)}
  <2>1. ASSUME NEW i \in n + 1 .. Len(q) PROVE i - n \in DOMAIN r /\ r[i - n] = q[i]
    BY <1>1, <1>2
  <2>2. ASSUME NEW i \in DOMAIN r PROVE i + n \in n + 1 .. Len(q) /\ r[i] = q[i + n]
    BY <1>1, <1>2
  <2> QED  BY <2>1, <2>2 DEF Members
<1> QED  BY <1>1, <1>3, <1>4, Zenon DEF r

\* A list without repetition is as long as it has members.
LEMMA CountMembers ==
    ASSUME NEW S, NEW q \in Seq(S), Distinct(q)
    PROVE  IsFiniteSet(Members(q)) /\ Cardinality(Members(q)) = Len(q) /\ Len(q) \in Nat
<1>1. Len(q) \in Nat /\ DOMAIN q = 1 .. Len(q)
  OBVIOUS
<1>2. q \in [1 .. Len(q) -> Members(q)]
  BY <1>1 DEF Members
<1>3. q \in Bijection(1 .. Len(q), Members(q))
  BY <1>1, <1>2, Zenon DEF Bijection, Injection, Surjection, IsInjective, Members, Distinct
<1>4. ExistsBijection(1 .. Len(q), Members(q))
  BY <1>3, Zenon DEF ExistsBijection
<1>5. IsFiniteSet(1 .. Len(q)) /\ Cardinality(1 .. Len(q)) = Len(q)
  BY <1>1, FS_Interval, SMTT(30)
<1> QED  BY <1>1, <1>4, <1>5, FS_Bijection, Zenon

\* TAILQ_REMOVE of the head, and SIMPLEQ_REMOVE_HEAD
LEMMA TailIn ==
    ASSUME NEW S, NEW q \in Seq(S), q # << >>, Distinct(q)
    PROVE  Removed(S, Tail(q), q, Head(q)) /\ Head(q) \in Members(q) /\ Head(q) \in S
<1>1. /\ Tail(q) \in Seq(S) /\ Len(Tail(q)) = Len(q) - 1 /\ 1 \in 1 .. Len(q) /\ Head(q) = q[1]
      /\ \A i \in 1 .. Len(q) - 1 : Tail(q)[i] = IF i < 1 THEN q[i] ELSE q[i + 1]
  OBVIOUS
<1>2. Head(q) \in Members(q)
  BY <1>1 DEF Members
<1>3. /\ Distinct(Tail(q)) /\ q[1] \in S
      /\ \A k \in S : k \in Members(Tail(q)) <=> k \in Members(q) /\ k # q[1]
  <2>1. IsCut(S, Tail(q), q, 1)
    BY <1>1, Zenon DEF IsCut
  <2> QED  BY <1>1, <2>1, OthersStay, Zenon
<1>4. q # <<Head(q)>> => Tail(q) # << >>
  <2> SUFFICES ASSUME Tail(q) = << >> PROVE q = <<q[1]>>
    BY <1>1, Zenon
  <2>1. Len(q) \in Nat /\ Len(<< >>) = 0
    OBVIOUS
  <2>2. Len(q) - 1 = 0
    BY <1>1, <2>1, Zenon
  <2>3. Len(q) = 1
    BY <2>1, <2>2
  <2> QED  BY <2>3
<1> QED  BY <1>1, <1>2, <1>3, <1>4, Zenon DEF Removed

\* SIMPLEQ_INSERT_TAIL of an element that is not in the queue
LEMMA AppendIn ==
    ASSUME NEW S, NEW q \in Seq(S), NEW h \in S, Distinct(q), h \notin Members(q)
    PROVE  Added(S, Append(q, h), q, h)
<1>1. /\ DOMAIN q = 1 .. Len(q) /\ Len(q) \in Nat /\ \A n \in 1 .. Len(q) : q[n] \in S
  OBVIOUS
<1>2. /\ Append(q, h) \in Seq(S) /\ Append(q, h) # <<>> /\ Len(Append(q, h)) = Len(q) + 1
      /\ DOMAIN Append(q, h) = 1 .. Len(q) + 1 /\ Append(q, h)[Len(q) + 1] = h
      /\ \A n \in 1 .. Len(q) : Append(q, h)[n] = q[n]
  OBVIOUS
<1>3. Distinct(Append(q, h))
  BY DEF Distinct, Members
<1>4. ASSUME NEW g \in S PROVE g \in Members(Append(q, h)) <=> g \in Members(q) \/ g = h
  BY DEF Members
<1>. QED
  BY <1>2, <1>3, <1>4, Zenon DEF Added

-----------------------------------------------------------------------------
(* The invariant                                                           *)

\* The priorities, and how many LWPs sleep on a turnstile
Pri == 0 .. PRI_COUNT - 1
Total(t) == Len(sleepq[t]["W"]) + (IF "R" \in Queue THEN Len(sleepq[t]["R"]) ELSE 0)

TsTypes ==
    /\ owner \in [Lock -> Lwp \cup {None}] /\ readers \in [Lock -> SUBSET Lwp]
    /\ tsobj \in [TS -> Lock \cup {None}] /\ tsfree \in [TS -> Seq(TS)]
    /\ sleepq \in [TS -> [Queue -> Seq(Lwp)]]
    /\ lts \in [Lwp -> TS] /\ wchan \in [Lwp -> Lock \cup {None}]
    /\ inheritor \in [TS -> Lwp \cup {None}] /\ tseprio \in [TS -> Pri \cup {NoPrio}]
    /\ lenders \in [Lwp -> SUBSET TS] /\ inherited \in [Lwp -> Pri \cup {NoPrio}]
    /\ pc \in [Lwp -> {"run", "lend", "restart", "sleep"}]
    /\ at \in [Lwp -> Lwp \cup {None}] /\ prio \in [Lwp -> Pri \cup {NoPrio}]

\* An LWP in turnstile_lendpri is at some LWP, with a priority to lend; one
\* that runs does not sleep.
Lending == \A l \in Lwp : /\ pc[l] \in {"lend", "restart"} => at[l] \in Lwp
                          /\ pc[l] = "run" => wchan[l] = None

\* Who sleeps on a lock is on one queue, once, of the lock's turnstile.
On(l, t, q) == l \in Members(sleepq[t][q])
Unrepeated == \A t \in TS : \A q \in Queue : Distinct(sleepq[t][q])
OnTheirs == \A l \in Lwp : \A t \in TS : \A q \in Queue :
                On(l, t, q) => lts[l] = t /\ wchan[l] = tsobj[t] /\ wchan[l] # None
OnOne == \A l \in Lwp : \A t \in TS : \A q, r \in Queue : On(l, t, q) /\ On(l, t, r) => q = r
Found == \A l \in Lwp : wchan[l] # None =>
             tsobj[lts[l]] = wchan[l] /\ \E q \in Queue : On(l, lts[l], q)
OneEach == \A t, u \in TS : tsobj[t] = tsobj[u] /\ tsobj[t] # None => t = u
Lengths == \A t \in TS : /\ tsobj[t] # None => Len(tsfree[t]) + 1 = Total(t)
                         /\ tsobj[t] = None => tsfree[t] = << >> /\ Total(t) = 0
Sleeping == Unrepeated /\ OnTheirs /\ OnOne /\ Found /\ OneEach /\ Lengths

\* A turnstile is in use, or that of an LWP that does not sleep, or on one free
\* list, once.
IsFree(v, t) == v \in Members(tsfree[t])
HasOwn == \A l \in Lwp : wchan[l] = None => tsobj[lts[l]] = None
OwnDiffer == \A k, l \in Lwp : wchan[k] = None /\ wchan[l] = None /\ lts[k] = lts[l] => k = l
FreeIsFree == \A t, v \in TS : IsFree(v, t) =>
                  tsobj[v] = None /\ \A l \in Lwp : wchan[l] = None => lts[l] # v
FreeOnce == /\ \A t \in TS : Distinct(tsfree[t])
            /\ \A t, u, v \in TS : IsFree(v, t) /\ IsFree(v, u) => t = u
Somewhere == \A v \in TS : \/ tsobj[v] # None \/ \E l \in Lwp : wchan[l] = None /\ lts[l] = v
                           \/ \E t \in TS : IsFree(v, t)
Spare == HasOwn /\ OwnDiffer /\ FreeIsFree /\ FreeOnce /\ Somewhere

\* A lock has an owner or readers; if it has sleepers it has one of them, and
\* one with readers has a writer asleep.
Held == \A o \in Lock :
           /\ owner[o] # None => readers[o] = {}
           /\ \A t \in Active(o) : owner[o] = None =>
                 readers[o] # {} /\ \E l \in Lwp : On(l, t, "W")

\* What was lent
IsHighest(p, S) == IF S = {} THEN p = NoPrio
                   ELSE (\E t \in S : p = tseprio[t]) /\ \A t \in S : tseprio[t] <= p
Lent == \A l \in Lwp : /\ lenders[l] = {t \in TS : inheritor[t] = l}
                       /\ IsHighest(inherited[l], lenders[l])

TsInv == TsTypes /\ Lending /\ Sleeping /\ Spare /\ Held /\ InheritorIsOwner /\ Lent

-----------------------------------------------------------------------------
(* What the operators say                                                  *)

\* Queues are lists of LWPs, free lists are of turnstiles.
LEMMA QueueTypes ==
    ASSUME TsTypes, NEW t \in TS
    PROVE  tsfree[t] \in Seq(TS) /\ \A q \in Queue : sleepq[t][q] \in Seq(Lwp)
  BY DEF TsTypes

\* In a set of turnstiles there is one that lends the highest priority.
LEMMA SomeHighest ==
    ASSUME NEW f \in [TS -> Pri \cup {NoPrio}], NEW S \in SUBSET TS, S # {}
    PROVE  \E t \in S : \A u \in S : f[t] >= f[u]
<1> DEFINE below == {PRI_COUNT - f[t] : t \in S}
<1>1. \A t \in S : f[t] \in Int /\ PRI_COUNT - f[t] \in Nat
  BY TurnstileAssumption DEF Pri, NoPrio
<1>2. below \subseteq Nat /\ below # {}
  BY <1>1, Zenon
<1>3. PICK n \in below : \A m \in below : n <= m
  <2> HIDE DEF below
  <2> QED  BY <1>2, Least, Zenon
<1>4. PICK t \in S : n = PRI_COUNT - f[t]
  BY <1>3, Zenon
<1>5. ASSUME NEW u \in S PROVE f[t] >= f[u]
  <2>1. PRI_COUNT - f[t] <= PRI_COUNT - f[u]
    BY <1>3, <1>4, Zenon
  <2>2. f[t] \in Int /\ f[u] \in Int /\ PRI_COUNT \in Int
    BY <1>1, TurnstileAssumption
  <2> QED  BY <2>1, <2>2
<1> QED  BY <1>5, Zenon

\* What turnstile_unlendpri computes
LEMMA HighestIs ==
    ASSUME TsTypes, NEW S \in SUBSET TS, NEW p \in Int
    PROVE  p = Highest(S) <=> IsHighest(p, S)
<1>1. CASE S = {}
  BY <1>1, Zenon DEF Highest, IsHighest
<1>2. CASE S # {}
  <2> DEFINE t == CHOOSE t \in S : \A u \in S : tseprio[t] >= tseprio[u]
  <2>1. t \in S /\ \A u \in S : tseprio[t] >= tseprio[u]
    BY <1>2, SomeHighest, Zenon DEF TsTypes
  <2>2. Highest(S) = tseprio[t]
    BY <1>2, Zenon DEF Highest
  <2> HIDE DEF t
  <2>3. \A u \in S : tseprio[u] \in Int
    BY DEF TsTypes, Pri, NoPrio
  <2>4. IsHighest(tseprio[t], S)
    BY <1>2, <2>1, <2>3, Zenon DEF IsHighest
  <2>5. ASSUME IsHighest(p, S) PROVE p = tseprio[t]
    <3>1. PICK u \in S : p = tseprio[u]
      BY <1>2, <2>5, Zenon DEF IsHighest
    <3>2. tseprio[t] <= p
      BY <1>2, <2>1, <2>5, Zenon DEF IsHighest
    <3> QED  BY <2>1, <2>3, <3>1, <3>2
  <2> QED  BY <2>2, <2>4, <2>5, Zenon
<1> QED  BY <1>1, <1>2, Zenon

-----------------------------------------------------------------------------
(* Init, and steps that leave the turnstiles alone                         *)

\* At first every LWP has a turnstile of its own, and no lock has one.
LEMMA TsInitInv == Init => TsInv
<1> SUFFICES ASSUME Init PROVE TsInv
  BY Zenon
<1>0. None \notin Lwp /\ None \notin Lock /\ None \notin TS
  BY TurnstileAssumption, Zenon
<1>1. TsTypes
  BY DEF Init, TsTypes
<1>2. \A t \in TS : \A q \in Queue : sleepq[t][q] = << >> /\ tsfree[t] = << >> /\ tsobj[t] = None
  BY Zenon DEF Init
<1>3. Distinct(<< >>) /\ Members(<< >>) = {} /\ Len(<< >>) = 0
  BY DEF Distinct, Members
<1>4. ASSUME NEW t \in TS PROVE Total(t) = 0
  <2>1. Len(sleepq[t]["W"]) = 0 /\ ("R" \in Queue => Len(sleepq[t]["R"]) = 0)
    BY <1>2, <1>3, TurnstileAssumption, Zenon
  <2>2. Total(t) = 0 + 0
    BY <2>1, Zenon DEF Total
  <2> QED  BY <2>2
<1>5. Sleeping
  BY <1>2, <1>3, <1>4, TurnstileAssumption, Zenon DEF Sleeping, Unrepeated, OnTheirs, OnOne,
     Found, OneEach, Lengths, On, Init
<1>6. Spare
  <2>1. \A t \in TS : tsfree[t] = << >>
    BY Zenon DEF Init
  <2> QED
    BY <1>2, <1>3, <2>1, Zenon DEF Spare, HasOwn, OwnDiffer, FreeIsFree, FreeOnce, Somewhere,
       IsFree, Init
<1>7. Held
  <2>1. \A o \in Lock : Active(o) = {}
    BY <1>0, Zenon DEF Active, Init
  <2> QED  BY <2>1, Zenon DEF Held, Init
<1>8. Lending
  BY Zenon DEF Lending, Init
<1>9. InheritorIsOwner
  BY Zenon DEF InheritorIsOwner, Init
<1>10. Lent
  BY <1>0, Zenon DEF Lent, IsHighest, Init
<1> QED  BY <1>1, <1>5, <1>6, <1>7, <1>8, <1>9, <1>10, Zenon DEF TsInv

\* Sleeping and Spare depend on who is on which queue, not on the order.
LEMMA SameQueues ==
    ASSUME TsTypes, Sleeping, Spare, UNCHANGED <<tsobj, tsfree, lts, wchan>>,
           \A t \in TS : \A q \in Queue : /\ Distinct(sleepq'[t][q])
                                          /\ Len(sleepq'[t][q]) = Len(sleepq[t][q])
                                          /\ \A l \in Lwp : On(l, t, q)' <=> On(l, t, q)
    PROVE  Sleeping' /\ Spare'
<1>1. \A t \in TS : Total(t)' = Total(t)
  <2>1. ASSUME NEW t \in TS
        PROVE  /\ Len(sleepq'[t]["W"]) = Len(sleepq[t]["W"])
               /\ "R" \in Queue => Len(sleepq'[t]["R"]) = Len(sleepq[t]["R"])
    BY TurnstileAssumption, Zenon
  <2> QED  BY <2>1, Zenon DEF Total
<1>2. Lengths'
  BY <1>1, Zenon DEF Sleeping, Lengths
<1>3. Unrepeated'
  BY Zenon DEF Unrepeated
<1>4. OnTheirs'
  BY Zenon DEF Sleeping, OnTheirs
<1>5. OnOne'
  BY Zenon DEF Sleeping, OnOne
<1>6. Found' /\ OneEach'
  <2>1. ASSUME NEW l \in Lwp, wchan'[l] # None
        PROVE  tsobj'[lts'[l]] = wchan'[l] /\ \E q \in Queue : On(l, lts[l], q)'
    <3>1. tsobj[lts[l]] = wchan[l] /\ lts[l] \in TS /\ \E q \in Queue : On(l, lts[l], q)
      BY <2>1, Zenon DEF Sleeping, Found, TsTypes
    <3> QED  BY <3>1, Zenon
  <2>2. OneEach'
    BY Zenon DEF Sleeping, OneEach
  <2> QED  BY <2>1, <2>2, Zenon DEF Found
<1>7. Spare'
  BY Zenon DEF Spare, HasOwn, OwnDiffer, FreeIsFree, FreeOnce, Somewhere, IsFree
<1> QED  BY <1>2, <1>3, <1>4, <1>5, <1>6, <1>7, Zenon DEF Sleeping

\* A step that does not touch the turnstiles
LEMMA TsRests ==
    ASSUME TsTypes, Sleeping, Spare, UNCHANGED tsvars
    PROVE  Sleeping' /\ Spare'
<1>1. UNCHANGED <<tsobj, tsfree, lts, wchan, sleepq>>
  BY Zenon DEF tsvars
<1>2. \A t \in TS : \A q \in Queue : /\ Distinct(sleepq'[t][q])
                                     /\ Len(sleepq'[t][q]) = Len(sleepq[t][q])
                                     /\ \A l \in Lwp : On(l, t, q)' <=> On(l, t, q)
  BY <1>1, Zenon DEF Sleeping, Unrepeated, On
<1> QED  BY <1>1, <1>2, SameQueues, Zenon

\* A step that does not touch what was lent
LEMMA LoansRest ==
    ASSUME Lent, UNCHANGED privars
    PROVE  Lent'
<1>1. UNCHANGED <<inheritor, tseprio, lenders, inherited>>
  BY Zenon DEF privars
<1> QED  BY <1>1, ZenonT(30) DEF Lent, IsHighest

\* The turnstile of a lock is one.
LEMMA OneActive ==
    ASSUME TsTypes, Sleeping, NEW o \in Lock, NEW t \in Active(o)
    PROVE  /\ t \in TS /\ tsobj[t] = o /\ Active(o) = {t}
           /\ \A q \in Queue : Sleepers(o, q) = Members(sleepq[t][q])
<1>1. None \notin Lock
  BY TurnstileAssumption, Zenon
<1>2. t \in TS /\ tsobj[t] = o
  BY Zenon DEF Active
<1>3. Active(o) = {t}
  BY <1>1, <1>2, Zenon DEF Active, Sleeping, OneEach
<1>4. ASSUME NEW q \in Queue PROVE Sleepers(o, q) = Members(sleepq[t][q])
  BY <1>3, Zenon DEF Sleepers
<1> QED  BY <1>2, <1>3, <1>4, Zenon

-----------------------------------------------------------------------------
(* The locks without their turnstile                                       *)

\* A step of lock o alone keeps the invariant, if the lock of a turnstile that
\* is in use is still held, and by whom its sleepers lent their priority.
LEMMA LockStep ==
    ASSUME TsInv, NEW o \in Lock, UNCHANGED <<tsvars, privars, pc, at, prio>>,
           owner' \in [Lock -> Lwp \cup {None}], readers' \in [Lock -> SUBSET Lwp],
           \A p \in Lock \ {o} : owner'[p] = owner[p] /\ readers'[p] = readers[p],
           owner'[o] # None => readers'[o] = {},
           \A t \in Active(o) :
              /\ owner'[o] = None => readers'[o] # {} /\ \E l \in Lwp : On(l, t, "W")
              /\ inheritor[t] # None => \/ owner'[o] = inheritor[t]
                                        \/ readers'[o] = {inheritor[t]}
    PROVE  TsInv'
<1>1. UNCHANGED <<tsobj, tsfree, sleepq, lts, wchan, inheritor, tseprio, lenders, inherited>>
  BY Zenon DEF tsvars, privars
<1>2. TsTypes'
  BY <1>1, Zenon DEF TsInv, TsTypes
<1>3. Sleeping' /\ Spare'
  BY TsRests, Zenon DEF TsInv
<1>4. Lent'
  BY LoansRest, Zenon DEF TsInv
<1>5. Lending'
  BY <1>1, Zenon DEF TsInv, Lending
<1>6. ASSUME NEW p \in Lock
      PROVE  /\ owner'[p] # None => readers'[p] = {}
             /\ \A t \in Active(p)' : owner'[p] = None =>
                   readers'[p] # {} /\ \E l \in Lwp : On(l, t, "W")'
  <2>1. owner'[p] # None => readers'[p] = {}
    BY Zenon DEF TsInv, Held
  <2>2. ASSUME NEW t \in Active(p)', owner'[p] = None
        PROVE  readers'[p] # {} /\ \E l \in Lwp : On(l, t, "W")'
    <3>1. t \in Active(p)
      BY <1>1, Zenon DEF Active
    <3>2. readers'[p] # {} /\ \E l \in Lwp : On(l, t, "W")
      <4>1. CASE p = o
        BY <2>2, <3>1, <4>1, Zenon
      <4>2. CASE p # o
        BY <2>2, <3>1, <4>2, Zenon DEF TsInv, Held
      <4> QED  BY <4>1, <4>2, Zenon
    <3> QED  BY <1>1, <3>2, Zenon DEF On
  <2> QED  BY <2>1, <2>2, Zenon
<1>7. ASSUME NEW t \in TS, inheritor'[t] # None
      PROVE  /\ tsobj'[t] # None
             /\ owner'[tsobj'[t]] = inheritor'[t] \/ readers'[tsobj'[t]] = {inheritor'[t]}
  <2>1. /\ tsobj[t] # None
        /\ owner[tsobj[t]] = inheritor[t] \/ readers[tsobj[t]] = {inheritor[t]}
    BY <1>1, <1>7, Zenon DEF TsInv, InheritorIsOwner
  <2>2. tsobj[t] \in Lock
    BY <2>1, Zenon DEF TsInv, TsTypes
  <2>3. CASE tsobj[t] = o
    <3>1. t \in Active(o)
      BY <2>3, Zenon DEF Active
    <3> QED  BY <1>1, <1>7, <2>1, <2>3, <3>1, Zenon
  <2>4. CASE tsobj[t] # o
    BY <1>1, <2>1, <2>2, <2>4, Zenon
  <2> QED  BY <2>3, <2>4, Zenon
<1> QED
  BY <1>2, <1>3, <1>4, <1>5, <1>6, <1>7, Zenon DEF TsInv, Held, InheritorIsOwner

\* A lock nobody has to wait for has no turnstile.
LEMMA FreeToTake ==
    ASSUME TsInv, NEW l \in Lwp, NEW o \in Lock, NEW q \in Queue, ~MustWait(l, o, q)
    PROVE  Active(o) = {} /\ owner[o] = None /\ (q = "W" => readers[o] = {})
<1>1. /\ owner[o] = None /\ (q = "W" => readers[o] = {})
      /\ q = "R" => Sleepers(o, "W") = {}
  BY Zenon DEF MustWait
<1>2. q \in {"R", "W"} /\ "W" \in Queue
  BY TurnstileAssumption, Zenon
<1>3. ASSUME NEW t \in Active(o) PROVE FALSE
  <2>1. readers[o] # {} /\ \E k \in Lwp : On(k, t, "W")
    BY <1>1, Zenon DEF TsInv, Held
  <2>2. Sleepers(o, "W") = Members(sleepq[t]["W"])
    BY <1>2, OneActive, Zenon DEF TsInv
  <2> QED  BY <1>1, <1>2, <2>1, <2>2, Zenon DEF On
<1> QED  BY <1>1, <1>3, Zenon

\* Whoever holds the lock of a turnstile in use is who was lent priorities.
LEMMA HolderInherits ==
    ASSUME TsInv, NEW o \in Lock, NEW t \in Active(o), inheritor[t] # None
    PROVE  \/ owner[o] = inheritor[t] /\ readers[o] = {}
           \/ owner[o] = None /\ readers[o] = {inheritor[t]}
<1>1. t \in TS /\ tsobj[t] = o
  BY Zenon DEF Active
<1>2. owner[o] = inheritor[t] \/ readers[o] = {inheritor[t]}
  BY <1>1, Zenon DEF TsInv, InheritorIsOwner
<1>3. owner[o] # None => readers[o] = {}
  BY Zenon DEF TsInv, Held
<1> QED  BY <1>2, <1>3, Zenon

\* Taking, dropping, upgrading and downgrading a lock
LEMMA TakeInv ==
    ASSUME TsInv, NEW l \in Lwp, NEW o \in Lock, NEW q \in Queue, Take(l, o, q)
    PROVE  TsInv'
<1>0. None \notin Lwp
  BY TurnstileAssumption, Zenon
<1>1. /\ UNCHANGED <<tsvars, privars, pc, at, prio>> /\ ~MustWait(l, o, q)
      /\ q = "W" => owner' = [owner EXCEPT ![o] = l] /\ readers' = readers
      /\ q # "W" => readers' = [readers EXCEPT ![o] = @ \cup {l}] /\ owner' = owner
  BY Zenon DEF Take
<1>2. Active(o) = {} /\ owner[o] = None /\ (q = "W" => readers[o] = {})
  BY <1>1, FreeToTake, Zenon
<1>3. owner \in [Lock -> Lwp \cup {None}] /\ readers \in [Lock -> SUBSET Lwp]
  BY Zenon DEF TsInv, TsTypes
<1>4. CASE q = "W"
  <2>1. /\ owner' \in [Lock -> Lwp \cup {None}] /\ readers' \in [Lock -> SUBSET Lwp]
        /\ \A p \in Lock \ {o} : owner'[p] = owner[p] /\ readers'[p] = readers[p]
        /\ readers'[o] = {}
    BY <1>1, <1>2, <1>3, <1>4, Zenon
  <2> QED  BY <1>1, <1>2, <2>1, LockStep, Zenon
<1>5. CASE q # "W"
  <2>1. /\ owner' \in [Lock -> Lwp \cup {None}] /\ readers' \in [Lock -> SUBSET Lwp]
        /\ \A p \in Lock \ {o} : owner'[p] = owner[p] /\ readers'[p] = readers[p]
        /\ owner'[o] = None
    BY <1>1, <1>2, <1>3, <1>5, Zenon
  <2> QED  BY <1>1, <1>2, <2>1, LockStep, Zenon
<1> QED  BY <1>4, <1>5, Zenon

\* A lock is dropped when nobody waits for it, or when it keeps other readers.
LEMMA DropInv ==
    ASSUME TsInv, NEW l \in Lwp, NEW o \in Lock, Drop(l, o)
    PROVE  TsInv'
<1>1. /\ UNCHANGED <<tsvars, privars, pc, at, prio>> /\ Holds(l, o)
      /\ Active(o) = {} \/ readers[o] \ {l} # {}
      /\ owner' = [owner EXCEPT ![o] = None]
      /\ readers' = [readers EXCEPT ![o] = @ \ {l}]
  BY Zenon DEF Drop
<1>2. owner \in [Lock -> Lwp \cup {None}] /\ readers \in [Lock -> SUBSET Lwp]
  BY Zenon DEF TsInv, TsTypes
<1>3. /\ owner' \in [Lock -> Lwp \cup {None}] /\ readers' \in [Lock -> SUBSET Lwp]
      /\ \A p \in Lock \ {o} : owner'[p] = owner[p] /\ readers'[p] = readers[p]
      /\ owner'[o] = None /\ readers'[o] = readers[o] \ {l}
  BY <1>1, <1>2, Zenon
<1>4. ASSUME NEW t \in Active(o)
      PROVE  /\ readers'[o] # {} /\ \E k \in Lwp : On(k, t, "W")
             /\ inheritor[t] = None
  <2>1. readers[o] \ {l} # {} /\ owner[o] = None
    BY <1>1, Zenon DEF TsInv, Held
  <2>2. \E k \in Lwp : On(k, t, "W")
    BY <2>1, Zenon DEF TsInv, Held
  <2>3. l \in readers[o]
    <3>1. None \notin Lwp
      BY TurnstileAssumption, Zenon
    <3> QED  BY <1>1, <2>1, <3>1, Zenon DEF Holds
  <2>4. inheritor[t] = None
    <3>1. ASSUME inheritor[t] # None PROVE readers[o] = {inheritor[t]}
      BY <2>1, <3>1, HolderInherits, Zenon
    <3> QED  BY <2>1, <2>3, <3>1, Zenon
  <2> QED  BY <1>3, <2>1, <2>2, <2>4, Zenon
<1> QED  BY <1>1, <1>3, <1>4, LockStep, Zenon

\* The only reader becomes the owner, who was lent what the reader was.
LEMMA UpgradeInv ==
    ASSUME TsInv, NEW l \in Lwp, NEW o \in Lock, Upgrade(l, o)
    PROVE  TsInv'
<1>0. None \notin Lwp
  BY TurnstileAssumption, Zenon
<1>1. /\ UNCHANGED <<tsvars, privars, pc, at, prio>> /\ readers[o] = {l}
      /\ owner' = [owner EXCEPT ![o] = l] /\ readers' = [readers EXCEPT ![o] = {}]
  BY Zenon DEF Upgrade
<1>2. owner \in [Lock -> Lwp \cup {None}] /\ readers \in [Lock -> SUBSET Lwp]
  BY Zenon DEF TsInv, TsTypes
<1>3. /\ owner' \in [Lock -> Lwp \cup {None}] /\ readers' \in [Lock -> SUBSET Lwp]
      /\ \A p \in Lock \ {o} : owner'[p] = owner[p] /\ readers'[p] = readers[p]
      /\ owner'[o] = l /\ readers'[o] = {}
  BY <1>1, <1>2, Zenon
<1>4. ASSUME NEW t \in Active(o), inheritor[t] # None PROVE owner'[o] = inheritor[t]
  <2>1. readers[o] # {}
    BY <1>1, Zenon
  <2>2. {l} = {inheritor[t]}
    BY <1>1, <1>4, <2>1, HolderInherits, Zenon
  <2>3. l = inheritor[t]
    BY <2>2, Zenon
  <2> QED  BY <1>3, <2>3, Zenon
<1>5. owner'[o] # None
  BY <1>0, <1>3, Zenon
<1> QED  BY <1>1, <1>3, <1>4, <1>5, LockStep, Zenon

\* The owner becomes the only reader, while no reader sleeps.
LEMMA DowngradeInv ==
    ASSUME TsInv, NEW l \in Lwp, NEW o \in Lock, Downgrade(l, o)
    PROVE  TsInv'
<1>0. None \notin Lwp
  BY TurnstileAssumption, Zenon
<1>1. /\ UNCHANGED <<tsvars, privars, pc, at, prio>> /\ owner[o] = l
      /\ "R" \in Queue /\ Sleepers(o, "R") = {}
      /\ owner' = [owner EXCEPT ![o] = None] /\ readers' = [readers EXCEPT ![o] = {l}]
  BY Zenon DEF Downgrade
<1>2. owner \in [Lock -> Lwp \cup {None}] /\ readers \in [Lock -> SUBSET Lwp]
  BY Zenon DEF TsInv, TsTypes
<1>3. /\ owner' \in [Lock -> Lwp \cup {None}] /\ readers' \in [Lock -> SUBSET Lwp]
      /\ \A p \in Lock \ {o} : owner'[p] = owner[p] /\ readers'[p] = readers[p]
      /\ owner'[o] = None /\ readers'[o] = {l}
  BY <1>1, <1>2, Zenon
<1>4. ASSUME NEW t \in Active(o), inheritor[t] # None PROVE readers'[o] = {inheritor[t]}
  BY <1>0, <1>1, <1>3, <1>4, HolderInherits, Zenon
<1>5. ASSUME NEW t \in Active(o) PROVE \E k \in Lwp : On(k, t, "W")
  <2>1. /\ t \in TS /\ tsobj[t] = o /\ Sleepers(o, "R") = Members(sleepq[t]["R"])
    BY <1>1, OneActive, Zenon DEF TsInv
  <2>2. tsobj[t] # None
    BY <2>1, TurnstileAssumption, Zenon
  <2>3. Len(tsfree[t]) \in Nat /\ Len(tsfree[t]) + 1 = Total(t)
    <3>1. tsfree[t] \in Seq(TS) /\ Len(tsfree[t]) + 1 = Total(t)
      BY <2>1, <2>2, Zenon DEF TsInv, TsTypes, Sleeping, Lengths
    <3> QED  BY <3>1
  <2>4. sleepq[t]["R"] \in Seq(Lwp) /\ sleepq[t]["W"] \in Seq(Lwp)
    BY <1>1, <2>1, TurnstileAssumption, QueueTypes, Zenon DEF TsInv
  <2>5. Len(sleepq[t]["R"]) = 0
    BY <1>1, <2>1, <2>4, SomeMember, Zenon
  <2>6. Len(sleepq[t]["W"]) >= 1
    <3>1. Total(t) = Len(sleepq[t]["W"]) + Len(sleepq[t]["R"])
      BY <1>1, Zenon DEF Total
    <3>2. Len(sleepq[t]["W"]) \in Nat
      BY <2>4, SomeMember, Zenon
    <3> QED  BY <2>3, <2>5, <3>1, <3>2
  <2>7. sleepq[t]["W"][1] \in Lwp /\ sleepq[t]["W"][1] \in Members(sleepq[t]["W"])
    BY <2>4, <2>6, SomeMember, Zenon
  <2> QED  BY <2>7, Zenon DEF On
<1> QED  BY <1>1, <1>3, <1>4, <1>5, LockStep, Zenon

-----------------------------------------------------------------------------
(* turnstile_lendpri                                                       *)

\* A step that changes neither locks nor turnstiles nor loans
LEMMA PcStep ==
    ASSUME TsInv, UNCHANGED <<owner, readers, tsvars, privars>>,
           pc' \in [Lwp -> {"run", "lend", "restart", "sleep"}],
           at' \in [Lwp -> Lwp \cup {None}], prio' \in [Lwp -> Pri \cup {NoPrio}],
           Lending'
    PROVE  TsInv'
<1>1. UNCHANGED <<tsobj, tsfree, sleepq, lts, wchan, inheritor, tseprio, lenders, inherited>>
  BY Zenon DEF tsvars, privars
<1>2. TsTypes'
  BY <1>1, Zenon DEF TsInv, TsTypes
<1>3. Sleeping' /\ Spare'
  BY TsRests, Zenon DEF TsInv
<1>4. Lent'
  BY LoansRest, Zenon DEF TsInv
<1>5. Held'
  BY <1>1, Zenon DEF TsInv, Held, Active, On
<1>6. InheritorIsOwner'
  BY <1>1, Zenon DEF TsInv, InheritorIsOwner
<1> QED  BY <1>2, <1>3, <1>4, <1>5, <1>6, Zenon DEF TsInv

\* The priority of an LWP is the higher of its own and the one it inherited.
LEMMA EprioIs ==
    ASSUME TsTypes, NEW l \in Lwp
    PROVE  Eprio(l) \in Pri /\ Eprio(l) >= inherited[l] /\ inherited[l] \in Int
<1>1. Prio[l] \in Pri /\ inherited[l] \in Pri \cup {NoPrio}
  BY TurnstileAssumption, Zenon DEF TsTypes, Pri
<1>2. PRI_COUNT \in Nat
  BY TurnstileAssumption, Zenon
<1> QED  BY <1>1, <1>2 DEF Eprio, Higher, Pri, NoPrio

\* The end of turnstile_lendpri, or a failed lwp_trylock
LEMMA LendEndInv ==
    ASSUME TsInv, NEW cur \in Lwp, LendDone(cur) \/ LendRestart(cur)
    PROVE  TsInv'
<1>1. /\ pc[cur] = "lend" /\ UNCHANGED <<owner, readers, tsvars, privars>>
      /\ prio' = [prio EXCEPT ![cur] = NoPrio]
      /\ \/ /\ pc' = [pc EXCEPT ![cur] = IF wchan[cur] = None THEN "run" ELSE "sleep"]
            /\ at' = [at EXCEPT ![cur] = None]
         \/ /\ pc' = [pc EXCEPT ![cur] = "restart"] /\ at' = [at EXCEPT ![cur] = cur]
  BY Zenon DEF LendDone, LendRestart
<1>2. wchan' = wchan
  BY <1>1, Zenon DEF tsvars
<1>3. /\ pc' \in [Lwp -> {"run", "lend", "restart", "sleep"}]
      /\ at' \in [Lwp -> Lwp \cup {None}] /\ prio' \in [Lwp -> Pri \cup {NoPrio}]
  <2>1. /\ pc \in [Lwp -> {"run", "lend", "restart", "sleep"}]
        /\ at \in [Lwp -> Lwp \cup {None}] /\ prio \in [Lwp -> Pri \cup {NoPrio}]
    BY Zenon DEF TsInv, TsTypes
  <2> QED  BY <1>1, <2>1, Zenon
<1>4. ASSUME NEW l \in Lwp
      PROVE  /\ pc'[l] \in {"lend", "restart"} => at'[l] \in Lwp
             /\ pc'[l] = "run" => wchan'[l] = None
  <2>1. /\ pc[l] \in {"lend", "restart"} => at[l] \in Lwp
        /\ pc[l] = "run" => wchan[l] = None
    BY Zenon DEF TsInv, Lending
  <2> QED  BY <1>1, <1>2, <2>1 DEF TsInv, TsTypes
<1> QED  BY <1>1, <1>3, <1>4, PcStep, Zenon DEF Lending

\* lwp_lock, and on from the beginning
LEMMA RelockInv ==
    ASSUME TsInv, NEW cur \in Lwp, Relock(cur)
    PROVE  TsInv'
<1>1. /\ pc[cur] = "restart" /\ UNCHANGED <<owner, readers, tsvars, privars>>
      /\ \/ /\ wchan[cur] = None /\ pc' = [pc EXCEPT ![cur] = "run"]
            /\ at' = [at EXCEPT ![cur] = None] /\ prio' = prio
         \/ /\ pc' = [pc EXCEPT ![cur] = "lend"] /\ at' = at
            /\ prio' = [prio EXCEPT ![cur] = Eprio(cur)]
  BY Zenon DEF Relock
<1>2. wchan' = wchan
  BY <1>1, Zenon DEF tsvars
<1>3. Eprio(cur) \in Pri
  BY EprioIs, Zenon DEF TsInv
<1>4. /\ pc' \in [Lwp -> {"run", "lend", "restart", "sleep"}]
      /\ at' \in [Lwp -> Lwp \cup {None}] /\ prio' \in [Lwp -> Pri \cup {NoPrio}]
  <2>1. /\ pc \in [Lwp -> {"run", "lend", "restart", "sleep"}]
        /\ at \in [Lwp -> Lwp \cup {None}] /\ prio \in [Lwp -> Pri \cup {NoPrio}]
    BY Zenon DEF TsInv, TsTypes
  <2> QED  BY <1>1, <1>3, <2>1, Zenon
<1>5. ASSUME NEW l \in Lwp
      PROVE  /\ pc'[l] \in {"lend", "restart"} => at'[l] \in Lwp
             /\ pc'[l] = "run" => wchan'[l] = None
  <2>1. /\ pc[l] \in {"lend", "restart"} => at[l] \in Lwp
        /\ pc[l] = "run" => wchan[l] = None
    BY Zenon DEF TsInv, Lending
  <2> QED  BY <1>1, <1>2, <2>1, Zenon DEF TsInv, TsTypes
<1> QED  BY <1>1, <1>4, <1>5, PcStep, Zenon DEF Lending

\* lwp_lendpri moves a sleeper in its queue.
LEMMA LendPriQueues ==
    ASSUME TsTypes, Sleeping, Spare, NEW o \in Lwp, NEW p \in Pri, LendPri(o, p),
           UNCHANGED <<tsobj, tsfree, lts, wchan>>
    PROVE  /\ Sleeping' /\ Spare' /\ sleepq' \in [TS -> [Queue -> Seq(Lwp)]]
           /\ \A l \in Lwp : \A t \in TS : \A q \in Queue : On(l, t, q)' <=> On(l, t, q)
<1> DEFINE e == [k \in Lwp |-> IF k = o THEN Higher(Prio[o], p) ELSE Eprio(k)]
<1>1. sleepq' = [t \in TS |-> [q \in Queue |->
                    IF o \in Members(sleepq[t][q]) THEN Reinsert(sleepq[t][q], o, e)
                    ELSE sleepq[t][q]]]
  BY Zenon DEF LendPri
<1> HIDE DEF e
<1>2. ASSUME NEW t \in TS, NEW q \in Queue
      PROVE  /\ sleepq'[t][q] \in Seq(Lwp) /\ Distinct(sleepq'[t][q])
             /\ Len(sleepq'[t][q]) = Len(sleepq[t][q])
             /\ \A l \in Lwp : On(l, t, q)' <=> On(l, t, q)
  <2>1. sleepq[t][q] \in Seq(Lwp) /\ Distinct(sleepq[t][q])
    BY QueueTypes, Zenon DEF Sleeping, Unrepeated
  <2>2. sleepq'[t][q] = IF o \in Members(sleepq[t][q]) THEN Reinsert(sleepq[t][q], o, e)
                        ELSE sleepq[t][q]
    BY <1>1, Zenon
  <2>3. CASE o \in Members(sleepq[t][q])
    <3>1. sleepq'[t][q] = Reinsert(sleepq[t][q], o, e)
      BY <2>2, <2>3, Zenon
    <3>2. /\ Reinsert(sleepq[t][q], o, e) \in Seq(Lwp) /\ Distinct(Reinsert(sleepq[t][q], o, e))
          /\ Len(Reinsert(sleepq[t][q], o, e)) = Len(sleepq[t][q])
          /\ \A k \in Lwp : k \in Members(Reinsert(sleepq[t][q], o, e))
                            <=> k \in Members(sleepq[t][q])
      BY <2>1, <2>3, ReinsertIn, Zenon
    <3> QED  BY <3>1, <3>2, Zenon DEF On
  <2>4. CASE o \notin Members(sleepq[t][q])
    BY <2>1, <2>2, <2>4, Zenon DEF On
  <2> QED  BY <2>3, <2>4, Zenon
<1>3. sleepq' \in [TS -> [Queue -> Seq(Lwp)]]
  BY <1>1, <1>2, Zenon
<1> QED  BY <1>2, <1>3, SameQueues, Zenon

\* A loan of turnstile ts to LWP o, higher than what o inherits already
LEMMA LoanMade ==
    ASSUME TsTypes, Lent, NEW o \in Lwp, NEW ts \in TS, NEW p \in Pri, p > Eprio(o),
           inheritor[ts] \in {None, o},
           inheritor' = [inheritor EXCEPT ![ts] = o],
           lenders' = [lenders EXCEPT ![o] = @ \cup {ts}],
           tseprio' = [tseprio EXCEPT ![ts] = p],
           inherited' = [inherited EXCEPT ![o] = p]
    PROVE  Lent'
<1>0. None \notin Lwp
  BY TurnstileAssumption, Zenon
<1>1. /\ inheritor \in [TS -> Lwp \cup {None}] /\ tseprio \in [TS -> Pri \cup {NoPrio}]
      /\ lenders \in [Lwp -> SUBSET TS] /\ inherited \in [Lwp -> Pri \cup {NoPrio}]
  BY Zenon DEF TsTypes
<1>2. /\ inheritor'[ts] = o /\ \A t \in TS \ {ts} : inheritor'[t] = inheritor[t]
      /\ lenders'[o] = lenders[o] \cup {ts} /\ \A k \in Lwp \ {o} : lenders'[k] = lenders[k]
      /\ tseprio'[ts] = p /\ \A t \in TS \ {ts} : tseprio'[t] = tseprio[t]
      /\ inherited'[o] = p /\ \A k \in Lwp \ {o} : inherited'[k] = inherited[k]
  BY <1>1, Zenon
<1>3. ASSUME NEW k \in Lwp
      PROVE  /\ lenders[k] = {t \in TS : inheritor[t] = k} /\ lenders[k] \subseteq TS
             /\ IsHighest(inherited[k], lenders[k])
  BY <1>1, Zenon DEF Lent
<1>4. ASSUME NEW k \in Lwp PROVE lenders'[k] = {t \in TS : inheritor'[t] = k}
  <2>0. lenders[k] = {t \in TS : inheritor[t] = k}
    BY <1>3, Zenon
  <2>1. CASE k = o
    <3>1. lenders'[o] = {t \in TS : inheritor[t] = o} \cup {ts}
      BY <1>2, <2>0, <2>1, Zenon
    <3>2. \A t \in TS : inheritor'[t] = o <=> inheritor[t] = o \/ t = ts
      BY <1>2, Zenon
    <3> QED  BY <2>1, <3>1, <3>2, Zenon
  <2>2. CASE k # o
    <3>1. \A t \in TS : inheritor'[t] = k <=> inheritor[t] = k
      BY <1>0, <1>2, <2>2, Zenon
    <3>2. lenders'[k] = {t \in TS : inheritor[t] = k}
      BY <1>2, <2>0, <2>2, Zenon
    <3> QED  BY <3>1, <3>2, Zenon
  <2> QED  BY <2>1, <2>2, Zenon
<1>5. IsHighest(inherited[o], lenders[o])'
  <2>1. ASSUME NEW t \in lenders'[o] PROVE tseprio'[t] <= p
    <3>1. CASE t = ts
      BY <1>2, <3>1 DEF Pri
    <3>2. CASE t # ts
      <4>1. t \in lenders[o] /\ t \in TS
        BY <1>2, <1>3, <3>2, Zenon
      <4>2. tseprio[t] <= inherited[o]
        BY <1>3, <4>1, Zenon DEF IsHighest
      <4>3. tseprio'[t] = tseprio[t]
        BY <1>2, <3>2, <4>1, Zenon
      <4>4. Eprio(o) \in Pri /\ Eprio(o) >= inherited[o] /\ inherited[o] \in Int
        BY EprioIs, Zenon
      <4>5. tseprio[t] \in Int
        BY <1>1, <4>1 DEF Pri, NoPrio
      <4> HIDE DEF Eprio
      <4> QED  BY <4>2, <4>3, <4>4, <4>5 DEF Pri
    <3> QED  BY <3>1, <3>2, Zenon
  <2>2. ts \in lenders'[o] /\ inherited'[o] = tseprio'[ts] /\ inherited'[o] = p
    BY <1>2, Zenon
  <2> QED  BY <2>1, <2>2, Zenon DEF IsHighest
<1>6. ASSUME NEW k \in Lwp \ {o} PROVE IsHighest(inherited[k], lenders[k])'
  <2>1. ASSUME NEW t \in lenders[k] PROVE tseprio'[t] = tseprio[t]
    <3>1. t \in TS /\ inheritor[t] = k
      BY <1>3, Zenon
    <3>2. t # ts
      BY <1>0, <3>1, Zenon
    <3> QED  BY <1>2, <3>1, <3>2, Zenon
  <2>2. /\ lenders'[k] = lenders[k] /\ inherited'[k] = inherited[k]
        /\ IsHighest(inherited[k], lenders[k])
    BY <1>2, <1>3, Zenon
  <2> QED  BY <2>1, <2>2, Zenon DEF IsHighest
<1> QED  BY <1>4, <1>5, <1>6, Zenon DEF Lent

\* One step along the blocking chain
LEMMA LendInv ==
    ASSUME TsInv, NEW cur \in Lwp, Lend(cur)
    PROVE  TsInv'
<1> DEFINE l == at[cur]
           o == OwnerOf(l)
           ts == lts[l]
           p == prio[cur]
<1>0. None \notin Lwp /\ None \notin Lock
  BY TurnstileAssumption, Zenon
<1>1. /\ pc[cur] = "lend" /\ o \notin {None, cur} /\ p > Eprio(o)
      /\ UNCHANGED <<owner, readers, tsobj, tsfree, lts, wchan>>
      /\ \/ /\ inheritor[ts] = None
            /\ inheritor' = [inheritor EXCEPT ![ts] = o]
            /\ lenders' = [lenders EXCEPT ![o] = @ \cup {ts}]
            /\ tseprio' = [tseprio EXCEPT ![ts] = p] /\ LendPri(o, p)
         \/ /\ inheritor[ts] # None
            /\ inheritor' = [inheritor EXCEPT ![ts] = @]
            /\ lenders' = [lenders EXCEPT ![o] = @]
            /\ tseprio' = [tseprio EXCEPT ![ts] = p] /\ LendPri(o, p)
         \/ UNCHANGED <<privars, sleepq>>
      /\ \/ at' = [at EXCEPT ![cur] = o] /\ pc' = pc /\ prio' = prio
         \/ /\ at' = [at EXCEPT ![cur] = None]
            /\ pc' = [pc EXCEPT ![cur] = IF wchan[cur] = None THEN "run" ELSE "sleep"]
            /\ prio' = [prio EXCEPT ![cur] = NoPrio]
  BY Zenon DEF Lend, Lendable
<1>2. /\ l \in Lwp /\ wchan[l] # None /\ wchan[l] \in Lock /\ o = owner[wchan[l]]
      /\ o \in Lwp /\ ts \in TS /\ tsobj[ts] = wchan[l] /\ p \in Pri \cup {NoPrio}
  <2>1. l \in Lwp
    BY <1>1, Zenon DEF TsInv, Lending
  <2>2. wchan[l] # None /\ o = owner[wchan[l]]
    BY <1>1, Zenon DEF OwnerOf
  <2>3. wchan[l] \in Lock /\ ts \in TS /\ p \in Pri \cup {NoPrio}
    BY <2>1, <2>2, Zenon DEF TsInv, TsTypes
  <2>4. o \in Lwp
    <3>1. owner[wchan[l]] \in Lwp \cup {None}
      BY <2>3, Zenon DEF TsInv, TsTypes
    <3> QED  BY <1>1, <2>2, <3>1, Zenon
  <2> QED  BY <2>1, <2>2, <2>3, <2>4, Zenon DEF TsInv, Sleeping, Found
<1> HIDE DEF l, o, ts, p
<1>3. p \in Pri
  <2>1. Eprio(o) \in Pri
    BY <1>2, EprioIs, Zenon DEF TsInv
  <2> HIDE DEF Eprio
  <2> QED  BY <1>1, <1>2, <2>1 DEF Pri, NoPrio
<1>4. inheritor[ts] \in {None, o}
  <2>1. ts \in Active(wchan[l])
    BY <1>2, Zenon DEF Active
  <2> QED  BY <1>0, <1>2, <2>1, HolderInherits, Zenon
<1>5. \/ /\ inheritor' = [inheritor EXCEPT ![ts] = o]
         /\ lenders' = [lenders EXCEPT ![o] = @ \cup {ts}]
         /\ tseprio' = [tseprio EXCEPT ![ts] = p] /\ LendPri(o, p)
      \/ UNCHANGED <<privars, sleepq>>
  <2>1. CASE inheritor[ts] = None
    BY <1>1, <2>1, Zenon
  <2>2. CASE inheritor[ts] # None
    <3>1. inheritor[ts] = o
      BY <1>4, <2>2, Zenon
    <3>2. ts \in lenders[o]
      BY <1>2, <3>1, Zenon DEF TsInv, Lent
    <3>3. lenders[o] = lenders[o] \cup {ts}
      BY <3>2, Zenon
    <3> QED  BY <1>1, <2>2, <3>1, <3>3, Zenon
  <2> QED  BY <2>1, <2>2, Zenon
<1>6. /\ pc' \in [Lwp -> {"run", "lend", "restart", "sleep"}]
      /\ at' \in [Lwp -> Lwp \cup {None}] /\ prio' \in [Lwp -> Pri \cup {NoPrio}]
  <2>1. /\ pc \in [Lwp -> {"run", "lend", "restart", "sleep"}]
        /\ at \in [Lwp -> Lwp \cup {None}] /\ prio \in [Lwp -> Pri \cup {NoPrio}]
    BY Zenon DEF TsInv, TsTypes
  <2> QED  BY <1>1, <1>2, <2>1, Zenon
<1>7. Lending'
  <2>1. ASSUME NEW k \in Lwp
        PROVE  /\ pc'[k] \in {"lend", "restart"} => at'[k] \in Lwp
               /\ pc'[k] = "run" => wchan'[k] = None
    <3>1. /\ pc[k] \in {"lend", "restart"} => at[k] \in Lwp
          /\ pc[k] = "run" => wchan[k] = None
      BY Zenon DEF TsInv, Lending
    <3>2. at \in [Lwp -> Lwp \cup {None}]
          /\ pc \in [Lwp -> {"run", "lend", "restart", "sleep"}]
      BY Zenon DEF TsInv, TsTypes
    <3> QED  BY <1>1, <1>2, <3>1, <3>2, Zenon
  <2> QED  BY <2>1, Zenon DEF Lending
<1>8. CASE UNCHANGED <<privars, sleepq>>
  <2>1. UNCHANGED <<tsvars, privars, owner, readers>>
    BY <1>1, <1>8, Zenon DEF tsvars
  <2> QED  BY <1>6, <1>7, <2>1, PcStep, Zenon
<1>9. CASE /\ inheritor' = [inheritor EXCEPT ![ts] = o]
           /\ lenders' = [lenders EXCEPT ![o] = @ \cup {ts}]
           /\ tseprio' = [tseprio EXCEPT ![ts] = p] /\ LendPri(o, p)
  <2>1. /\ Sleeping' /\ Spare' /\ sleepq' \in [TS -> [Queue -> Seq(Lwp)]]
        /\ \A k \in Lwp : \A t \in TS : \A q \in Queue : On(k, t, q)' <=> On(k, t, q)
    BY <1>1, <1>2, <1>3, <1>9, LendPriQueues, Zenon DEF TsInv
  <2>2. inherited' = [inherited EXCEPT ![o] = p]
    BY <1>9, Zenon DEF LendPri
  <2>3. Lent'
    BY <1>1, <1>2, <1>3, <1>4, <1>9, <2>2, LoanMade, ZenonT(30) DEF TsInv
  <2>4. /\ inheritor' \in [TS -> Lwp \cup {None}] /\ tseprio' \in [TS -> Pri \cup {NoPrio}]
        /\ lenders' \in [Lwp -> SUBSET TS] /\ inherited' \in [Lwp -> Pri \cup {NoPrio}]
        /\ inheritor'[ts] = o /\ \A t \in TS \ {ts} : inheritor'[t] = inheritor[t]
    <3>1. /\ inheritor \in [TS -> Lwp \cup {None}] /\ tseprio \in [TS -> Pri \cup {NoPrio}]
          /\ lenders \in [Lwp -> SUBSET TS] /\ inherited \in [Lwp -> Pri \cup {NoPrio}]
      BY Zenon DEF TsInv, TsTypes
    <3> QED  BY <1>2, <1>3, <1>9, <2>2, <3>1, Zenon
  <2>5. TsTypes'
    BY <1>1, <1>6, <2>1, <2>4, Zenon DEF TsInv, TsTypes
  <2>6. InheritorIsOwner'
    <3>1. ASSUME NEW t \in TS, inheritor'[t] # None
          PROVE  /\ tsobj[t] # None
                 /\ owner[tsobj[t]] = inheritor'[t] \/ readers[tsobj[t]] = {inheritor'[t]}
      <4>1. CASE t = ts
        BY <1>2, <2>4, <4>1, Zenon
      <4>2. CASE t # ts
        BY <2>4, <3>1, <4>2, Zenon DEF TsInv, InheritorIsOwner
      <4> QED  BY <4>1, <4>2, Zenon
    <3> QED  BY <1>1, <3>1, Zenon DEF InheritorIsOwner
  <2>7. Held'
    <3>1. ASSUME NEW x \in Lock, NEW t \in Active(x)', owner'[x] = None
          PROVE  readers'[x] # {} /\ \E k \in Lwp : On(k, t, "W")'
      <4>1. t \in Active(x) /\ t \in TS /\ "W" \in Queue
        BY <1>1, TurnstileAssumption, Zenon DEF Active
      <4>2. readers[x] # {} /\ \E k \in Lwp : On(k, t, "W")
        BY <1>1, <3>1, <4>1, Zenon DEF TsInv, Held
      <4> QED  BY <1>1, <2>1, <4>1, <4>2, Zenon
    <3>2. \A x \in Lock : owner'[x] # None => readers'[x] = {}
      BY <1>1, Zenon DEF TsInv, Held
    <3> QED  BY <3>1, <3>2, Zenon DEF Held
  <2> QED  BY <1>7, <2>1, <2>3, <2>5, <2>6, <2>7, Zenon DEF TsInv
<1> QED  BY <1>5, <1>8, <1>9, Zenon

-----------------------------------------------------------------------------
(* turnstile_block                                                         *)

\* LWP l goes to sleep on queue q of turnstile ts, for lock o.
Blocks(l, o, q, ts) ==
    /\ wchan[l] = None /\ tsobj[lts[l]] = None
    /\ (ts = lts[l] /\ Active(o) = {}) \/ (ts # lts[l] /\ tsobj[ts] = o)
    /\ tsobj'[ts] = o /\ \A t \in TS \ {ts} : tsobj'[t] = tsobj[t]
    /\ lts'[l] = ts /\ wchan'[l] = o
    /\ \A k \in Lwp \ {l} : lts'[k] = lts[k] /\ wchan'[k] = wchan[k]
    /\ \A t, v \in TS : IsFree(v, t)' <=>
          IsFree(v, t) \/ (t = ts /\ v = lts[l] /\ ts # lts[l])
    /\ \A k \in Lwp : \A t \in TS : \A r \in Queue :
          On(k, t, r)' <=> On(k, t, r) \/ (k = l /\ t = ts /\ r = q)

\* What goes to sleep does not sleep, and its turnstile is not in use.
LEMMA OwnTurnstile ==
    ASSUME TsInv, NEW l \in Lwp, wchan[l] = None
    PROVE  /\ lts[l] \in TS /\ tsobj[lts[l]] = None /\ tsfree[lts[l]] = << >>
           /\ Total(lts[l]) = 0 /\ inheritor[lts[l]] = None
           /\ \A t \in TS : ~IsFree(lts[l], t)
           /\ \A t \in TS : \A r \in Queue : ~On(l, t, r)
<1>1. lts[l] \in TS
  BY Zenon DEF TsInv, TsTypes
<1>2. tsobj[lts[l]] = None
  BY Zenon DEF TsInv, Spare, HasOwn
<1>3. tsfree[lts[l]] = << >> /\ Total(lts[l]) = 0
  BY <1>1, <1>2, Zenon DEF TsInv, Sleeping, Lengths
<1>4. inheritor[lts[l]] = None
  BY <1>1, <1>2, Zenon DEF TsInv, InheritorIsOwner
<1>5. \A t \in TS : ~IsFree(lts[l], t)
  BY <1>1, Zenon DEF TsInv, Spare, FreeIsFree
<1>6. \A t \in TS : \A r \in Queue : ~On(l, t, r)
  BY Zenon DEF TsInv, Sleeping, OnTheirs
<1> QED  BY <1>1, <1>2, <1>3, <1>4, <1>5, <1>6, Zenon

\* The new free list
LEMMA BlockFree ==
    ASSUME TsInv, NEW l \in Lwp, wchan[l] = None, NEW ts \in TS,
           tsfree' = [tsfree EXCEPT ![ts] = FreeList(l, ts)]
    PROVE  /\ tsfree' \in [TS -> Seq(TS)] /\ \A t \in TS : Distinct(tsfree'[t])
           /\ \A t \in TS \ {ts} : tsfree'[t] = tsfree[t]
           /\ tsfree'[ts] \in Seq(TS)
           /\ IF ts = lts[l] THEN tsfree'[ts] = << >> ELSE Len(tsfree'[ts]) = Len(tsfree[ts]) + 1
           /\ \A t, v \in TS : IsFree(v, t)' <=>
                 IsFree(v, t) \/ (t = ts /\ v = lts[l] /\ ts # lts[l])
<1>1. tsfree \in [TS -> Seq(TS)] /\ \A t \in TS : Distinct(tsfree[t])
  BY Zenon DEF TsInv, TsTypes, Spare, FreeOnce
<1>2. tsfree'[ts] = FreeList(l, ts) /\ \A t \in TS \ {ts} : tsfree'[t] = tsfree[t]
  BY <1>1, Zenon
<1>3. /\ lts[l] \in TS /\ tsfree[lts[l]] = << >> /\ lts[l] \notin Members(tsfree[ts])
  BY OwnTurnstile, Zenon DEF IsFree
<1>4. << >> \in Seq(TS) /\ Distinct(<< >>) /\ Members(<< >>) = {}
  BY DEF Distinct, Members
<1>5. /\ FreeList(l, ts) \in Seq(TS) /\ Distinct(FreeList(l, ts))
      /\ IF ts = lts[l] THEN FreeList(l, ts) = << >>
         ELSE Len(FreeList(l, ts)) = Len(tsfree[ts]) + 1
      /\ \A v \in TS : v \in Members(FreeList(l, ts)) <=>
            v \in Members(tsfree[ts]) \/ (v = lts[l] /\ ts # lts[l])
  <2>1. CASE ts = lts[l]
    BY <1>3, <1>4, <2>1, Zenon DEF FreeList
  <2>2. CASE ts # lts[l]
    <3>1. FreeList(l, ts) = <<lts[l]>> \o tsfree[ts]
      BY <2>2, Zenon DEF FreeList
    <3>2. tsfree[ts] \in Seq(TS) /\ Distinct(tsfree[ts])
      BY <1>1, Zenon
    <3>3. /\ <<lts[l]>> \o tsfree[ts] \in Seq(TS) /\ Distinct(<<lts[l]>> \o tsfree[ts])
          /\ Len(<<lts[l]>> \o tsfree[ts]) = Len(tsfree[ts]) + 1
          /\ \A v \in TS : v \in Members(<<lts[l]>> \o tsfree[ts]) <=>
                v \in Members(tsfree[ts]) \/ v = lts[l]
      <4>1. Added(TS, <<lts[l]>> \o tsfree[ts], tsfree[ts], lts[l])
        BY <1>3, <3>2, InFront, Zenon
      <4> QED  BY <4>1, Zenon DEF Added
    <3> QED  BY <2>2, <3>1, <3>3, Zenon
  <2> QED  BY <2>1, <2>2, Zenon
<1>6. tsfree' \in [TS -> Seq(TS)]
  BY <1>1, <1>5, Zenon
<1>7. \A t \in TS : Distinct(tsfree'[t])
  BY <1>1, <1>2, <1>5, Zenon
<1>8. ASSUME NEW t \in TS, NEW v \in TS
      PROVE  IsFree(v, t)' <=> IsFree(v, t) \/ (t = ts /\ v = lts[l] /\ ts # lts[l])
  BY <1>2, <1>5, Zenon DEF IsFree
<1> QED  BY <1>2, <1>5, <1>6, <1>7, <1>8, Zenon

\* The new queue
LEMMA BlockQueue ==
    ASSUME TsInv, NEW l \in Lwp, wchan[l] = None, NEW ts \in TS, NEW q \in Queue, NEW e,
           sleepq' = [sleepq EXCEPT ![ts][q] = Insert(@, l, e)]
    PROVE  /\ sleepq' \in [TS -> [Queue -> Seq(Lwp)]] /\ Unrepeated'
           /\ \A t \in TS \ {ts} : Total(t)' = Total(t)
           /\ Total(ts)' = Total(ts) + 1
           /\ \A k \in Lwp : \A t \in TS : \A r \in Queue :
                 On(k, t, r)' <=> On(k, t, r) \/ (k = l /\ t = ts /\ r = q)
<1> DEFINE new == Insert(sleepq[ts][q], l, e)
<1>1. sleepq \in [TS -> [Queue -> Seq(Lwp)]]
  BY Zenon DEF TsInv, TsTypes
<1>2. \A t \in TS : \A r \in Queue : sleepq[t][r] \in Seq(Lwp) /\ Distinct(sleepq[t][r])
  BY QueueTypes, Zenon DEF TsInv, Sleeping, Unrepeated
<1>3. /\ new \in Seq(Lwp) /\ Len(new) = Len(sleepq[ts][q]) + 1 /\ Distinct(new)
      /\ \A k \in Lwp : k \in Members(new) <=> k \in Members(sleepq[ts][q]) \/ k = l
  <2>1. l \notin Members(sleepq[ts][q])
    BY OwnTurnstile, Zenon DEF On
  <2>2. Added(Lwp, new, sleepq[ts][q], l)
    BY <1>2, <2>1, InsertIn, Zenon
  <2> QED  BY <2>2, Zenon DEF Added
<1>4. sleepq' = [sleepq EXCEPT ![ts][q] = new]
  BY Zenon
<1> HIDE DEF new
<1>5. /\ sleepq'[ts][q] = new /\ \A r \in Queue \ {q} : sleepq'[ts][r] = sleepq[ts][r]
      /\ \A t \in TS \ {ts} : sleepq'[t] = sleepq[t]
      /\ sleepq' \in [TS -> [Queue -> Seq(Lwp)]]
  BY <1>1, <1>3, <1>4
<1>6. Unrepeated'
  BY <1>2, <1>3, <1>5, Zenon DEF Unrepeated
<1>7. \A t \in TS \ {ts} : Total(t)' = Total(t)
  BY <1>5, Zenon DEF Total
<1>8. Total(ts)' = Total(ts) + 1
  <2>0. q \in {"R", "W"} /\ "W" \in Queue
    BY TurnstileAssumption, Zenon
  <2>1. /\ Len(sleepq[ts]["W"]) \in Nat /\ ("R" \in Queue => Len(sleepq[ts]["R"]) \in Nat)
    BY <1>2, <2>0, SomeMember, Zenon
  <2>2. CASE q = "W"
    <3>1. /\ Len(sleepq'[ts]["W"]) = Len(sleepq[ts]["W"]) + 1
          /\ "R" \in Queue => Len(sleepq'[ts]["R"]) = Len(sleepq[ts]["R"])
      BY <1>3, <1>5, <2>2, Zenon
    <3> DEFINE n == IF "R" \in Queue THEN Len(sleepq[ts]["R"]) ELSE 0
    <3>2. Total(ts) = Len(sleepq[ts]["W"]) + n /\ Total(ts)' = Len(sleepq'[ts]["W"]) + n
      BY <3>1, Zenon DEF Total
    <3>3. n \in Nat
      BY <2>1, Zenon
    <3> HIDE DEF n
    <3> QED  BY <2>1, <3>1, <3>2, <3>3
  <2>3. CASE q = "R"
    <3>1. /\ Len(sleepq'[ts]["R"]) = Len(sleepq[ts]["R"]) + 1 /\ "R" \in Queue
          /\ Len(sleepq'[ts]["W"]) = Len(sleepq[ts]["W"])
      BY <1>3, <1>5, <2>0, <2>3, Zenon
    <3>2. /\ Total(ts) = Len(sleepq[ts]["W"]) + Len(sleepq[ts]["R"])
          /\ Total(ts)' = Len(sleepq'[ts]["W"]) + Len(sleepq'[ts]["R"])
      BY <3>1, Zenon DEF Total
    <3>3. Len(sleepq[ts]["W"]) \in Nat /\ Len(sleepq[ts]["R"]) \in Nat
      BY <2>1, <3>1, Zenon
    <3>4. \A a, b \in Nat : a + (b + 1) = (a + b) + 1
      OBVIOUS
    <3> QED  BY <3>1, <3>2, <3>3, <3>4, Zenon
  <2> QED  BY <2>0, <2>2, <2>3, Zenon
<1>9. ASSUME NEW k \in Lwp, NEW t \in TS, NEW r \in Queue
      PROVE  On(k, t, r)' <=> On(k, t, r) \/ (k = l /\ t = ts /\ r = q)
  BY <1>3, <1>5, Zenon DEF On
<1> QED  BY <1>5, <1>6, <1>7, <1>8, <1>9, Zenon

\* The queues and the turnstiles after turnstile_block
LEMMA BlockSleeping ==
    ASSUME TsInv, NEW l \in Lwp, NEW o \in Lock, NEW q \in Queue, NEW ts \in TS,
           Blocks(l, o, q, ts), Unrepeated', Lengths'
    PROVE  Sleeping'
<1>0. None \notin Lock
  BY TurnstileAssumption, Zenon
<1>1. /\ wchan[l] = None /\ tsobj[lts[l]] = None
      /\ (ts = lts[l] /\ Active(o) = {}) \/ (ts # lts[l] /\ tsobj[ts] = o)
  BY Zenon DEF Blocks
<1>2. /\ tsobj'[ts] = o /\ \A t \in TS \ {ts} : tsobj'[t] = tsobj[t]
      /\ lts'[l] = ts /\ wchan'[l] = o
      /\ \A k \in Lwp \ {l} : lts'[k] = lts[k] /\ wchan'[k] = wchan[k]
  BY Zenon DEF Blocks
<1>3. \A k \in Lwp : \A t \in TS : \A r \in Queue :
          On(k, t, r)' <=> On(k, t, r) \/ (k = l /\ t = ts /\ r = q)
  BY Zenon DEF Blocks
<1>4. \A t \in TS : tsobj[t] # None => tsobj'[t] = tsobj[t]
  BY <1>1, <1>2, Zenon
<1>5. \A t \in TS : \A r \in Queue : ~On(l, t, r)
  BY <1>1, OwnTurnstile, Zenon
<1>6. OnTheirs'
  <2>1. ASSUME NEW k \in Lwp, NEW t \in TS, NEW r \in Queue, On(k, t, r)'
        PROVE  lts'[k] = t /\ wchan'[k] = tsobj'[t] /\ wchan'[k] # None
    <3>1. CASE On(k, t, r)
      <4>1. lts[k] = t /\ wchan[k] = tsobj[t] /\ wchan[k] # None /\ k # l
        BY <1>5, <3>1, Zenon DEF TsInv, Sleeping, OnTheirs
      <4> QED  BY <1>2, <1>4, <4>1, Zenon
    <3>2. CASE k = l /\ t = ts
      BY <1>0, <1>2, <3>2, Zenon
    <3> QED  BY <1>3, <2>1, <3>1, <3>2, Zenon
  <2> QED  BY <2>1, Zenon DEF OnTheirs
<1>7. OnOne'
  <2>1. ASSUME NEW k \in Lwp, NEW t \in TS, NEW r \in Queue, NEW s \in Queue,
               On(k, t, r)', On(k, t, s)'
        PROVE  r = s
    <3>1. CASE k = l
      BY <1>3, <1>5, <2>1, <3>1, Zenon
    <3>2. CASE k # l
      <4>1. On(k, t, r) /\ On(k, t, s)
        BY <1>3, <2>1, <3>2, Zenon
      <4> QED  BY <4>1, Zenon DEF TsInv, Sleeping, OnOne
    <3> QED  BY <3>1, <3>2, Zenon
  <2> QED  BY <2>1, Zenon DEF OnOne
<1>8. Found'
  <2>1. ASSUME NEW k \in Lwp, wchan'[k] # None
        PROVE  tsobj'[lts'[k]] = wchan'[k] /\ \E r \in Queue : On(k, lts[k], r)'
    <3>1. CASE k = l
      <4>1. On(l, ts, q)'
        BY <1>3, Zenon
      <4> QED  BY <1>2, <3>1, <4>1, Zenon DEF On
    <3>2. CASE k # l
      <4>1. /\ lts'[k] = lts[k] /\ wchan'[k] = wchan[k] /\ tsobj[lts[k]] = wchan[k]
            /\ lts[k] \in TS /\ \E r \in Queue : On(k, lts[k], r)
        BY <1>2, <2>1, <3>2, Zenon DEF TsInv, TsTypes, Sleeping, Found
      <4>2. tsobj'[lts[k]] = wchan[k]
        BY <1>4, <2>1, <4>1, Zenon
      <4>3. \E r \in Queue : k \in Members(sleepq'[lts[k]][r])
        BY <1>3, <4>1, Zenon DEF On
      <4> QED  BY <4>1, <4>2, <4>3, Zenon DEF On
    <3> QED  BY <3>1, <3>2, Zenon
  <2> QED  BY <2>1, Zenon DEF Found
<1>9. OneEach'
  <2>1. ASSUME NEW t \in TS, t # ts PROVE tsobj[t] # o
    BY <1>0, <1>1, <2>1, Zenon DEF TsInv, Sleeping, OneEach, Active
  <2>2. ASSUME NEW t \in TS, NEW u \in TS, tsobj'[t] = tsobj'[u], tsobj'[t] # None
        PROVE  t = u
    <3>1. CASE t = ts \/ u = ts
      BY <1>2, <2>1, <2>2, <3>1, Zenon
    <3>2. CASE t # ts /\ u # ts
      <4>1. tsobj[t] = tsobj[u] /\ tsobj[t] # None
        BY <1>2, <2>2, <3>2, Zenon
      <4> QED  BY <4>1, Zenon DEF TsInv, Sleeping, OneEach
    <3> QED  BY <3>1, <3>2, Zenon
  <2> QED  BY <2>2, Zenon DEF OneEach
<1> QED  BY <1>6, <1>7, <1>8, <1>9, Zenon DEF Sleeping

\* The turnstiles not in use after turnstile_block: the one the LWP brought is
\* in use now, or on the free list of the lock's.
LEMMA BlockSpare ==
    ASSUME TsInv, NEW l \in Lwp, NEW o \in Lock, NEW q \in Queue, NEW ts \in TS,
           Blocks(l, o, q, ts), \A t \in TS : Distinct(tsfree'[t])
    PROVE  Spare'
<1>0. None \notin Lock
  BY TurnstileAssumption, Zenon
<1>1. /\ wchan[l] = None /\ tsobj[lts[l]] = None /\ lts[l] \in TS
      /\ (ts = lts[l] /\ Active(o) = {}) \/ (ts # lts[l] /\ tsobj[ts] = o)
      /\ \A t \in TS : ~IsFree(lts[l], t)
  BY OwnTurnstile, Zenon DEF Blocks
<1>2. /\ tsobj'[ts] = o /\ \A t \in TS \ {ts} : tsobj'[t] = tsobj[t]
      /\ lts'[l] = ts /\ wchan'[l] = o
      /\ \A k \in Lwp \ {l} : lts'[k] = lts[k] /\ wchan'[k] = wchan[k]
  BY Zenon DEF Blocks
<1>3. \A t, v \in TS : IsFree(v, t)' <=>
          IsFree(v, t) \/ (t = ts /\ v = lts[l] /\ ts # lts[l])
  BY Zenon DEF Blocks
<1>4. ASSUME NEW k \in Lwp, wchan'[k] = None
      PROVE  /\ k # l /\ wchan[k] = None /\ lts'[k] = lts[k] /\ lts[k] # lts[l] /\ lts[k] \in TS
             /\ tsobj[lts[k]] = None
  <2>1. k # l /\ wchan[k] = None /\ lts'[k] = lts[k]
    BY <1>0, <1>2, <1>4, Zenon
  <2>2. lts[k] # lts[l]
    BY <1>1, <2>1, Zenon DEF TsInv, Spare, OwnDiffer
  <2>3. lts[k] \in TS /\ tsobj[lts[k]] = None
    BY <2>1, Zenon DEF TsInv, TsTypes, Spare, HasOwn
  <2> QED  BY <2>1, <2>2, <2>3, Zenon
<1>5. HasOwn'
  <2>1. ASSUME NEW k \in Lwp, wchan'[k] = None PROVE tsobj'[lts'[k]] = None
    <3>1. lts'[k] = lts[k] /\ lts[k] # lts[l] /\ lts[k] \in TS /\ tsobj[lts[k]] = None
      BY <1>4, <2>1, Zenon
    <3>2. lts[k] # ts
      BY <1>0, <1>1, <3>1, Zenon
    <3>3. tsobj'[lts[k]] = None
      BY <1>2, <3>1, <3>2, Zenon
    <3> QED  BY <3>1, <3>3, Zenon
  <2> QED  BY <2>1, Zenon DEF HasOwn
<1>6. OwnDiffer'
  BY <1>4, ZenonT(30) DEF TsInv, Spare, OwnDiffer
<1>7. FreeIsFree'
  <2>1. ASSUME NEW t \in TS, NEW v \in TS, IsFree(v, t)'
        PROVE  tsobj'[v] = None /\ \A k \in Lwp : wchan'[k] = None => lts'[k] # v
    <3>1. CASE IsFree(v, t)
      <4>1. /\ tsobj[v] = None /\ v # lts[l] /\ \A k \in Lwp : wchan[k] = None => lts[k] # v
        BY <1>1, <3>1, Zenon DEF TsInv, Spare, FreeIsFree
      <4>2. v # ts
        BY <1>0, <1>1, <4>1, Zenon
      <4> QED  BY <1>2, <1>4, <4>1, <4>2, Zenon
    <3>2. CASE v = lts[l] /\ ts # lts[l]
      BY <1>1, <1>2, <1>4, <3>2, Zenon
    <3> QED  BY <1>3, <2>1, <3>1, <3>2, Zenon
  <2> QED  BY <2>1, Zenon DEF FreeIsFree
<1>8. FreeOnce'
  <2>1. ASSUME NEW t \in TS, NEW u \in TS, NEW v \in TS, IsFree(v, t)', IsFree(v, u)'
        PROVE  t = u
    <3>1. CASE v = lts[l]
      BY <1>1, <1>3, <2>1, <3>1, Zenon
    <3>2. CASE v # lts[l]
      <4>1. IsFree(v, t) /\ IsFree(v, u)
        BY <1>3, <2>1, <3>2, Zenon
      <4> QED  BY <4>1, Zenon DEF TsInv, Spare, FreeOnce
    <3> QED  BY <3>1, <3>2, Zenon
  <2> QED  BY <2>1, Zenon DEF FreeOnce
<1>9. Somewhere'
  <2>1. ASSUME NEW v \in TS
        PROVE  \/ tsobj'[v] # None \/ \E k \in Lwp : wchan'[k] = None /\ lts'[k] = v
               \/ \E t \in TS : IsFree(v, t)'
    <3>1. CASE tsobj[v] # None
      BY <1>0, <1>2, <3>1, Zenon
    <3>2. CASE v = lts[l]
      BY <1>0, <1>1, <1>2, <1>3, <3>2, Zenon
    <3>3. ASSUME NEW k \in Lwp, wchan[k] = None, lts[k] = v, k # l
          PROVE  wchan'[k] = None /\ lts'[k] = v
      BY <1>2, <3>3, Zenon
    <3>4. ASSUME NEW t \in TS, IsFree(v, t) PROVE IsFree(v, t)'
      BY <1>3, <3>4, Zenon
    <3> QED  BY <3>1, <3>2, <3>3, <3>4, Zenon DEF TsInv, Spare, Somewhere
  <2> QED  BY <2>1, Zenon DEF Somewhere
<1> QED  BY <1>5, <1>6, <1>7, <1>8, <1>9, Zenon DEF Spare

\* turnstile_block, up to where it begins to lend
LEMMA BlockInv ==
    ASSUME TsInv, NEW l \in Lwp, NEW o \in Lock, NEW q \in Queue, Block(l, o, q)
    PROVE  TsInv'
<1>0. None \notin Lock
  BY TurnstileAssumption, Zenon
<1> DEFINE first == Active(o) = {}
           e == [k \in Lwp |-> Eprio(k)]
<1>2. wchan[l] = None
  BY Zenon DEF Block, MayAsk, TsInv, Lending
<1>3. /\ lts[l] \in TS /\ tsobj[lts[l]] = None /\ tsfree[lts[l]] = << >> /\ Total(lts[l]) = 0
      /\ inheritor[lts[l]] = None
  BY <1>2, OwnTurnstile, Zenon
<1>4. PICK ts \in TS : /\ ts = IF first THEN lts[l] ELSE CHOOSE t \in Active(o) : TRUE
                       /\ (ts = lts[l] /\ first) \/ (ts # lts[l] /\ tsobj[ts] = o)
  <2>1. CASE first
    BY <1>3, <2>1, Zenon
  <2>2. CASE ~first
    <3>1. PICK t \in Active(o) : t = CHOOSE u \in Active(o) : TRUE
      BY <2>2, Zenon
    <3>2. t \in TS /\ tsobj[t] = o /\ t # lts[l]
      BY <1>0, <1>3, Zenon DEF Active
    <3> QED  BY <2>2, <3>1, <3>2, Zenon
  <2> QED  BY <2>1, <2>2, Zenon
<1>1. /\ pc[l] = "run" /\ MustWait(l, o, q)
      /\ tsobj' = [tsobj EXCEPT ![ts] = o]
      /\ inheritor' = [inheritor EXCEPT ![ts] = IF first THEN None ELSE @]
      /\ tsfree' = [tsfree EXCEPT ![ts] = FreeList(l, ts)]
      /\ lts' = [lts EXCEPT ![l] = ts]
      /\ sleepq' = [sleepq EXCEPT ![ts][q] = Insert(@, l, e)]
      /\ wchan' = [wchan EXCEPT ![l] = o]
      /\ pc' = [pc EXCEPT ![l] = "lend"] /\ at' = [at EXCEPT ![l] = l]
      /\ prio' = [prio EXCEPT ![l] = Eprio(l)]
      /\ UNCHANGED <<owner, readers, tseprio, lenders, inherited>>
  BY <1>4, Zenon DEF Block, MayAsk
<1> HIDE DEF e
<1>5. first => ts = lts[l]
  BY <1>4, Zenon
<1>6. inheritor' = inheritor
  <2>1. inheritor \in [TS -> Lwp \cup {None}]
    BY Zenon DEF TsInv, TsTypes
  <2>2. (IF first THEN None ELSE inheritor[ts]) = inheritor[ts]
    BY <1>3, <1>5, Zenon
  <2>3. inheritor' = [inheritor EXCEPT ![ts] = inheritor[ts]]
    BY <1>1, <2>2, Zenon
  <2> QED  BY <2>1, <2>3, Zenon
<1>7. /\ tsfree' \in [TS -> Seq(TS)] /\ \A t \in TS : Distinct(tsfree'[t])
      /\ \A t \in TS \ {ts} : tsfree'[t] = tsfree[t]
      /\ IF ts = lts[l] THEN tsfree'[ts] = << >> ELSE Len(tsfree'[ts]) = Len(tsfree[ts]) + 1
      /\ \A t, v \in TS : IsFree(v, t)' <=>
            IsFree(v, t) \/ (t = ts /\ v = lts[l] /\ ts # lts[l])
  <2>1. ts \in TS /\ tsfree' = [tsfree EXCEPT ![ts] = FreeList(l, ts)]
    BY <1>1, <1>4, Zenon
  <2> QED  BY <1>2, <2>1, BlockFree, Zenon
<1>8. /\ sleepq' \in [TS -> [Queue -> Seq(Lwp)]] /\ Unrepeated'
      /\ \A t \in TS \ {ts} : Total(t)' = Total(t)
      /\ Total(ts)' = Total(ts) + 1
      /\ \A k \in Lwp : \A t \in TS : \A r \in Queue :
            On(k, t, r)' <=> On(k, t, r) \/ (k = l /\ t = ts /\ r = q)
  <2>1. ts \in TS /\ sleepq' = [sleepq EXCEPT ![ts][q] = Insert(@, l, e)]
    BY <1>1, <1>4, Zenon
  <2> QED  BY <1>2, <2>1, BlockQueue, ZenonT(30)
<1>9. /\ tsobj' \in [TS -> Lock \cup {None}] /\ lts' \in [Lwp -> TS]
      /\ wchan' \in [Lwp -> Lock \cup {None}]
      /\ tsobj'[ts] = o /\ \A t \in TS \ {ts} : tsobj'[t] = tsobj[t]
      /\ lts'[l] = ts /\ wchan'[l] = o
      /\ \A k \in Lwp \ {l} : lts'[k] = lts[k] /\ wchan'[k] = wchan[k]
  <2>1. /\ tsobj \in [TS -> Lock \cup {None}] /\ lts \in [Lwp -> TS]
        /\ wchan \in [Lwp -> Lock \cup {None}]
    BY Zenon DEF TsInv, TsTypes
  <2> QED  BY <1>1, <1>4, <2>1, Zenon
<1>10. Blocks(l, o, q, ts)
  BY <1>2, <1>3, <1>4, <1>7, <1>8, <1>9, Zenon DEF Blocks
<1>11. Lengths'
  <2>1. ASSUME NEW t \in TS
        PROVE  /\ tsobj'[t] # None => Len(tsfree'[t]) + 1 = Total(t)'
               /\ tsobj'[t] = None => tsfree'[t] = << >> /\ Total(t)' = 0
    <3>1. CASE t # ts
      BY <1>7, <1>8, <1>9, <3>1, ZenonT(30) DEF TsInv, Sleeping, Lengths
    <3>2. CASE t = ts
      <4>1. tsobj'[ts] # None
        BY <1>0, <1>9, Zenon
      <4>2. CASE ts = lts[l]
        <5>1. Len(tsfree'[ts]) = 0 /\ Total(ts)' = 0 + 1
          <6>1. Len(<< >>) = 0
            BY Zenon
          <6> QED  BY <1>3, <1>4, <1>7, <1>8, <4>2, <6>1, Zenon
        <5>2. Len(tsfree'[ts]) + 1 = Total(ts)'
          BY <5>1, Zenon
        <5> QED  BY <3>2, <4>1, <5>2, Zenon
      <4>3. CASE ts # lts[l]
        <5>1. tsobj[ts] # None /\ tsfree[ts] \in Seq(TS)
          BY <1>0, <1>4, <4>3, QueueTypes, Zenon DEF TsInv
        <5>2. Total(ts) = Len(tsfree[ts]) + 1
          BY <1>4, <5>1, Zenon DEF TsInv, Sleeping, Lengths
        <5>3. Len(tsfree'[ts]) = Len(tsfree[ts]) + 1 /\ Total(ts)' = Total(ts) + 1
          BY <1>4, <1>7, <1>8, <4>3, Zenon
        <5>4. Len(tsfree'[ts]) + 1 = Total(ts)'
          BY <5>2, <5>3, Zenon
        <5> QED  BY <3>2, <4>1, <5>4, Zenon
      <4> QED  BY <4>2, <4>3, Zenon
    <3> QED  BY <3>1, <3>2, Zenon
  <2> QED  BY <2>1, Zenon DEF Lengths
<1>12. Sleeping' /\ Spare'
  BY <1>4, <1>7, <1>8, <1>10, <1>11, BlockSleeping, BlockSpare, Zenon
<1>13. Lent'
  <2>1. UNCHANGED privars
    BY <1>1, <1>6, Zenon DEF privars
  <2> QED  BY <2>1, LoansRest, Zenon DEF TsInv
<1>14. /\ pc' \in [Lwp -> {"run", "lend", "restart", "sleep"}]
       /\ at' \in [Lwp -> Lwp \cup {None}] /\ prio' \in [Lwp -> Pri \cup {NoPrio}]
       /\ pc'[l] = "lend" /\ at'[l] = l
       /\ \A k \in Lwp \ {l} : pc'[k] = pc[k] /\ at'[k] = at[k]
  <2>1. /\ pc \in [Lwp -> {"run", "lend", "restart", "sleep"}]
        /\ at \in [Lwp -> Lwp \cup {None}] /\ prio \in [Lwp -> Pri \cup {NoPrio}]
    BY Zenon DEF TsInv, TsTypes
  <2>2. Eprio(l) \in Pri
    BY EprioIs, Zenon DEF TsInv
  <2> HIDE DEF Eprio
  <2> QED  BY <1>1, <2>1, <2>2, Zenon
<1>15. TsTypes'
  BY <1>1, <1>6, <1>7, <1>8, <1>9, <1>14, ZenonT(30) DEF TsInv, TsTypes
<1>16. Lending'
  <2>1. ASSUME NEW k \in Lwp
        PROVE  /\ pc'[k] \in {"lend", "restart"} => at'[k] \in Lwp
               /\ pc'[k] = "run" => wchan'[k] = None
    <3>1. CASE k = l
      BY <1>14, <3>1, Zenon
    <3>2. CASE k # l
      BY <1>9, <1>14, <3>2, Zenon DEF TsInv, Lending
    <3> QED  BY <3>1, <3>2, Zenon
  <2> QED  BY <2>1, Zenon DEF Lending
<1>17. InheritorIsOwner'
  <2>1. ASSUME NEW t \in TS, inheritor[t] # None PROVE tsobj'[t] = tsobj[t]
    BY <1>3, <1>4, <1>9, <2>1, Zenon
  <2> QED  BY <1>1, <1>6, <2>1, Zenon DEF TsInv, InheritorIsOwner
<1>18. Held'
  <2>1. ASSUME NEW x \in Lock, NEW t \in Active(x)', owner[x] = None
        PROVE  readers[x] # {} /\ \E k \in Lwp : On(k, t, "W")'
    <3>1. t \in TS /\ tsobj'[t] = x /\ "W" \in Queue
      BY TurnstileAssumption, Zenon DEF Active
    <3>2. CASE t \in Active(x)
      BY <1>8, <2>1, <3>1, <3>2, Zenon DEF TsInv, Held
    <3>3. CASE t \notin Active(x)
      <4>1. t = ts /\ x = o /\ first
        BY <1>4, <1>9, <3>1, <3>3, ZenonT(30) DEF Active
      <4>2. Sleepers(o, "W") = {}
        BY <4>1, Zenon DEF Sleepers
      <4>3. q = "W" /\ readers[o] # {}
        BY <1>1, <2>1, <4>1, <4>2, Zenon DEF MustWait
      <4> QED  BY <1>4, <1>8, <4>1, <4>3, Zenon
    <3> QED  BY <3>2, <3>3, Zenon
  <2>2. \A x \in Lock : owner'[x] # None => readers'[x] = {}
    BY <1>1, Zenon DEF TsInv, Held
  <2> QED  BY <1>1, <2>1, <2>2, Zenon DEF Held
<1> QED  BY <1>12, <1>13, <1>15, <1>16, <1>17, <1>18, ZenonT(30) DEF TsInv

-----------------------------------------------------------------------------
(* turnstile_wakeup                                                        *)

\* All who sleep on a turnstile are as many as its queues are long.
LEMMA AllCount ==
    ASSUME TsTypes, Sleeping, NEW t \in TS
    PROVE  /\ IsFiniteSet(AllWaiters(t)) /\ Cardinality(AllWaiters(t)) = Total(t)
           /\ \A k : k \in AllWaiters(t) <=> \E r \in Queue : On(k, t, r)
           /\ AllWaiters(t) \subseteq Lwp
<1>0. "W" \in Queue /\ Queue \subseteq {"R", "W"}
  BY TurnstileAssumption, Zenon
<1>1. \A r \in Queue : sleepq[t][r] \in Seq(Lwp) /\ Distinct(sleepq[t][r])
  BY QueueTypes, Zenon DEF Sleeping, Unrepeated
<1>2. \A r \in Queue : /\ IsFiniteSet(Members(sleepq[t][r]))
                       /\ Cardinality(Members(sleepq[t][r])) = Len(sleepq[t][r])
                       /\ Len(sleepq[t][r]) \in Nat /\ Members(sleepq[t][r]) \subseteq Lwp
  BY <1>1, CountMembers, SomeMember, Zenon
<1>3. CASE "R" \in Queue
  <2> DEFINE W == Members(sleepq[t]["W"])
             R == Members(sleepq[t]["R"])
  <2>1. AllWaiters(t) = W \cup R
    BY <1>3, Zenon DEF AllWaiters
  <2>2. W \cap R = {}
    <3>1. ASSUME NEW k \in Lwp, k \in W, k \in R PROVE FALSE
      <4>1. On(k, t, "W") /\ On(k, t, "R")
        BY <3>1, Zenon DEF On
      <4>2. "W" = "R"
        BY <1>0, <1>3, <4>1, Zenon DEF Sleeping, OnOne
      <4> QED  BY <4>2, Zenon
    <3> QED  BY <1>0, <1>2, <3>1, Zenon
  <2>3. /\ IsFiniteSet(W) /\ IsFiniteSet(R) /\ W \subseteq Lwp /\ R \subseteq Lwp
        /\ Cardinality(W) = Len(sleepq[t]["W"]) /\ Cardinality(R) = Len(sleepq[t]["R"])
        /\ Len(sleepq[t]["W"]) \in Nat /\ Len(sleepq[t]["R"]) \in Nat
    BY <1>0, <1>2, <1>3, Zenon
  <2>4. Total(t) = Len(sleepq[t]["W"]) + Len(sleepq[t]["R"])
    BY <1>3, Zenon DEF Total
  <2>5. \A k : k \in W \cup R <=> \E r \in Queue : On(k, t, r)
    BY <1>0, <1>3, Zenon DEF On
  <2> HIDE DEF W, R
  <2>6. /\ IsFiniteSet(W \cup R)
        /\ Cardinality(W \cup R) = Cardinality(W) + Cardinality(R) - Cardinality(W \cap R)
    BY <2>3, FS_Union, Zenon
  <2>7. Cardinality({}) = 0 /\ \A m, n \in Nat : m + n - 0 = m + n
    BY FS_EmptySet
  <2>8. Cardinality(W \cup R) = Total(t)
    BY <2>2, <2>3, <2>4, <2>6, <2>7, ZenonT(30)
  <2>9. W \cup R \subseteq Lwp
    BY <2>3, Zenon
  <2> QED  BY <2>1, <2>5, <2>6, <2>8, <2>9, Zenon
<1>4. CASE "R" \notin Queue
  <2>1. AllWaiters(t) = Members(sleepq[t]["W"])
    BY <1>4, Zenon DEF AllWaiters
  <2>2. Total(t) = Len(sleepq[t]["W"])
    <3>1. Total(t) = Len(sleepq[t]["W"]) + 0 /\ Len(sleepq[t]["W"]) \in Nat
      BY <1>0, <1>2, <1>4, Zenon DEF Total
    <3> QED  BY <3>1
  <2>3. \A k : k \in AllWaiters(t) <=> \E r \in Queue : On(k, t, r)
    BY <1>0, <1>4, <2>1, Zenon DEF On
  <2> QED  BY <1>0, <1>2, <2>1, <2>2, <2>3, Zenon
<1> QED  BY <1>3, <1>4, Zenon

\* The first n of a list
LEMMA FirstOf ==
    ASSUME NEW S, NEW q \in Seq(S), NEW n \in 0 .. Len(q), Distinct(q)
    PROVE  /\ SubSeq(q, 1, n) \in Seq(S) /\ Len(SubSeq(q, 1, n)) = n
           /\ Distinct(SubSeq(q, 1, n)) /\ Members(SubSeq(q, 1, n)) = {q[i] : i \in 1 .. n}
           /\ \A i \in 1 .. n : SubSeq(q, 1, n)[i] = q[i]
<1> DEFINE r == SubSeq(q, 1, n)
<1>1. /\ r \in Seq(S) /\ Len(r) = n /\ DOMAIN r = 1 .. n
      /\ \A i \in 1 .. n : r[i] = q[i]
  OBVIOUS
<1> HIDE DEF r
<1>2. 1 .. n \subseteq DOMAIN q
  OBVIOUS
<1>3. Distinct(r)
  BY <1>1, <1>2, Zenon DEF Distinct
<1>4. Members(r) = {q[i] : i \in 1 .. n}
  BY <1>1, Zenon DEF Members
<1> QED  BY <1>1, <1>3, <1>4, Zenon DEF r

\* The first n of queue q of turnstile ts are all its sleepers, and one more
\* than the free list is long, or are at most as many as that.
LEMMA WakeCount ==
    ASSUME TsTypes, Sleeping, NEW ts \in TS, tsobj[ts] # None, NEW q \in Queue,
           NEW n \in 1 .. Len(sleepq[ts][q]),
           NEW S, S = Members(SubSeq(sleepq[ts][q], 1, n))
    PROVE  /\ Len(tsfree[ts]) \in Nat /\ Total(ts) = Len(tsfree[ts]) + 1
           /\ \/ S = AllWaiters(ts) /\ n = Len(tsfree[ts]) + 1
              \/ S # AllWaiters(ts) /\ n <= Len(tsfree[ts])
           /\ \A k \in S : On(k, ts, q)
<1>1. sleepq[ts][q] \in Seq(Lwp) /\ Distinct(sleepq[ts][q]) /\ tsfree[ts] \in Seq(TS)
  BY QueueTypes, Zenon DEF Sleeping, Unrepeated
<1>2. Len(tsfree[ts]) \in Nat /\ Len(sleepq[ts][q]) \in Nat
  BY <1>1, SomeMember, Zenon
<1>3. n \in Nat /\ n \in 0 .. Len(sleepq[ts][q]) /\ DOMAIN sleepq[ts][q] = 1 .. Len(sleepq[ts][q])
  BY <1>1, <1>2
<1>4. /\ SubSeq(sleepq[ts][q], 1, n) \in Seq(Lwp) /\ Distinct(SubSeq(sleepq[ts][q], 1, n))
      /\ Len(SubSeq(sleepq[ts][q], 1, n)) = n
      /\ Members(SubSeq(sleepq[ts][q], 1, n)) = {sleepq[ts][q][i] : i \in 1 .. n}
  <2>1. sleepq[ts][q] \in Seq(Lwp) /\ Distinct(sleepq[ts][q]) /\ n \in 0 .. Len(sleepq[ts][q])
    BY <1>1, <1>3, Zenon
  <2> QED  BY <2>1, FirstOf
<1>5. IsFiniteSet(S) /\ Cardinality(S) = n
  BY <1>4, CountMembers, Zenon
<1>6. \A k \in S : On(k, ts, q)
  <2>1. S = {sleepq[ts][q][i] : i \in 1 .. n}
    BY <1>4, Zenon
  <2> QED  BY <1>2, <1>3, <2>1 DEF On, Members
<1>7. /\ IsFiniteSet(AllWaiters(ts)) /\ Cardinality(AllWaiters(ts)) = Total(ts)
      /\ S \subseteq AllWaiters(ts)
  BY <1>6, AllCount, Zenon
<1>8. Total(ts) = Len(tsfree[ts]) + 1
  BY Zenon DEF Sleeping, Lengths
<1>9. n <= Total(ts) /\ (n = Total(ts) => S = AllWaiters(ts))
  BY <1>5, <1>7, FS_Subset, Zenon
<1>10. S = AllWaiters(ts) => n = Total(ts)
  BY <1>5, <1>7, Zenon
<1>11. n = Len(tsfree[ts]) + 1 \/ n <= Len(tsfree[ts])
  BY <1>2, <1>3, <1>8, <1>9
<1>12. n = Len(tsfree[ts]) + 1 => ~(n <= Len(tsfree[ts]))
  BY <1>2
<1> QED  BY <1>2, <1>6, <1>8, <1>9, <1>10, <1>11, <1>12, Zenon

\* LWPs S, the first of queue q of turnstile ts, are woken, each with a
\* turnstile of its own.
Wakes(ts, q, S) ==
    /\ S \subseteq Lwp /\ \A k \in S : On(k, ts, q)
    /\ \A k \in S : wchan'[k] = None
    /\ \A k \in Lwp \ S : wchan'[k] = wchan[k] /\ lts'[k] = lts[k]
    /\ \A t \in TS \ {ts} : tsobj'[t] = tsobj[t] /\ tsfree'[t] = tsfree[t]
    /\ \A k \in Lwp : \A t \in TS : \A r \in Queue : On(k, t, r)' <=> On(k, t, r) /\ k \notin S
    /\ \A k \in S : \/ lts'[k] \in TS /\ IsFree(lts'[k], ts)
                    \/ lts'[k] = ts /\ S = AllWaiters(ts)
    /\ \A j, k \in S : lts'[j] = lts'[k] => j = k
    /\ \A v \in TS : IsFree(v, ts)' <=> IsFree(v, ts) /\ \A k \in S : lts'[k] # v
    /\ IF S = AllWaiters(ts) THEN tsobj'[ts] = None /\ \E k \in S : lts'[k] = ts
       ELSE tsobj'[ts] = tsobj[ts]

\* The first n leave queue q of turnstile ts.
Cuts(ts, q, n) == sleepq' = [sleepq EXCEPT ![ts][q] = SubSeq(@, n + 1, Len(@))]

\* The queues of turnstile ts without the n LWPs in S
Left(ts, n, S) ==
    /\ sleepq' \in [TS -> [Queue -> Seq(Lwp)]] /\ Unrepeated'
    /\ \A k \in Lwp : \A t \in TS : \A r \in Queue : On(k, t, r)' <=> On(k, t, r) /\ k \notin S
    /\ \A t \in TS \ {ts} : Total(t)' = Total(t)
    /\ Total(ts)' = Total(ts) - n

\* turnstile_remove leaves the others on their queues.
LEMMA WakeQueue ==
    ASSUME TsTypes, Sleeping, NEW ts \in TS, tsobj[ts] # None, NEW q \in Queue,
           NEW n \in 1 .. Len(sleepq[ts][q]),
           NEW S, S = Members(SubSeq(sleepq[ts][q], 1, n)), Cuts(ts, q, n)
    PROVE  Left(ts, n, S)
<1> DEFINE sq == sleepq[ts][q]
           new == SubSeq(sq, n + 1, Len(sq))
<1>1. sleepq \in [TS -> [Queue -> Seq(Lwp)]]
  BY Zenon DEF TsTypes
<1>2. \A t \in TS : \A r \in Queue : sleepq[t][r] \in Seq(Lwp) /\ Distinct(sleepq[t][r])
  BY QueueTypes, Zenon DEF Sleeping, Unrepeated
<1>3. sleepq' = [sleepq EXCEPT ![ts][q] = new]
  BY Zenon DEF Cuts
<1>4. S = Members(SubSeq(sq, 1, n)) /\ n \in 1 .. Len(sq) /\ sq \in Seq(Lwp) /\ Distinct(sq)
  BY <1>2, Zenon
<1>5. \A k : On(k, ts, q) <=> k \in Members(sq)
  BY Zenon DEF On
<1>6. \A k \in S : On(k, ts, q)
  BY WakeCount, Zenon
<1>7. ASSUME NEW k, NEW t \in TS, NEW r \in Queue, k \in S, On(k, t, r)
      PROVE  t = ts /\ r = q
  <2>1. On(k, ts, q) /\ k \in Lwp
    <3>1. On(k, ts, q)
      BY <1>6, <1>7, Zenon
    <3>2. Members(sq) \subseteq Lwp
      BY <1>4, SomeMember, Zenon
    <3> QED  BY <1>5, <3>1, <3>2, Zenon
  <2>2. lts[k] = ts /\ lts[k] = t
    BY <1>7, <2>1, Zenon DEF Sleeping, OnTheirs
  <2> QED  BY <1>7, <2>1, <2>2, Zenon DEF Sleeping, OnOne
<1> HIDE DEF sq
<1>8. Len(sq) \in Nat /\ n \in Nat /\ n \in 0 .. Len(sq) /\ DOMAIN sq = 1 .. Len(sq)
  BY <1>4, SMTT(30)
<1>9. /\ new \in Seq(Lwp) /\ Len(new) = Len(sq) - n /\ Distinct(new)
      /\ Members(new) = {sq[i] : i \in n + 1 .. Len(sq)}
  BY <1>4, <1>8, RestOf, Zenon
<1>10. Members(SubSeq(sq, 1, n)) = {sq[i] : i \in 1 .. n}
  BY <1>4, <1>8, FirstOf, ZenonT(30)
<1>11. \A k : k \in Members(new) <=> k \in Members(sq) /\ k \notin S
  <2> HIDE DEF new
  <2>1. S = {sq[i] : i \in 1 .. n}
    BY <1>4, <1>10, Zenon
  <2>2. ASSUME NEW i \in 1 .. Len(sq), NEW j \in 1 .. Len(sq), sq[i] = sq[j] PROVE i = j
    BY <1>4, <1>8, <2>2, Zenon DEF Distinct
  <2>3. ASSUME NEW k \in Members(new) PROVE k \in Members(sq) /\ k \notin S
    <3>1. PICK i \in n + 1 .. Len(sq) : k = sq[i]
      BY <1>9, Zenon
    <3>2. i \in 1 .. Len(sq) /\ \A j \in 1 .. n : j \in 1 .. Len(sq) /\ i # j
      BY <1>8
    <3>3. k \in Members(sq)
      BY <1>8, <3>1, <3>2, Zenon DEF Members
    <3>4. k \notin S
      BY <2>1, <2>2, <3>1, <3>2, Zenon
    <3> QED  BY <3>3, <3>4, Zenon
  <2>4. ASSUME NEW k \in Members(sq), k \notin S PROVE k \in Members(new)
    <3>1. PICK i \in 1 .. Len(sq) : k = sq[i]
      BY <1>8, Zenon DEF Members
    <3>2. i \notin 1 .. n
      BY <2>1, <2>4, <3>1, Zenon
    <3>3. i \in n + 1 .. Len(sq)
      BY <1>8, <3>2
    <3> QED  BY <1>9, <3>1, <3>3, Zenon
  <2> QED  BY <2>3, <2>4, Zenon
<1> HIDE DEF new
<1>12. /\ sleepq'[ts][q] = new /\ \A r \in Queue \ {q} : sleepq'[ts][r] = sleepq[ts][r]
       /\ \A t \in TS \ {ts} : sleepq'[t] = sleepq[t]
       /\ sleepq' \in [TS -> [Queue -> Seq(Lwp)]]
  BY <1>1, <1>3, <1>9, Zenon
<1>13. Unrepeated'
  BY <1>2, <1>9, <1>12, Zenon DEF Unrepeated
<1>14. ASSUME NEW k \in Lwp, NEW t \in TS, NEW r \in Queue
       PROVE  On(k, t, r)' <=> On(k, t, r) /\ k \notin S
  <2>1. CASE t = ts /\ r = q
    BY <1>5, <1>11, <1>12, <2>1, Zenon DEF On
  <2>2. CASE ~(t = ts /\ r = q)
    <3>1. sleepq'[t][r] = sleepq[t][r]
      BY <1>12, <2>2, Zenon
    <3> QED  BY <1>7, <2>2, <3>1, Zenon DEF On
  <2> QED  BY <2>1, <2>2, Zenon
<1>15. \A t \in TS \ {ts} : Total(t)' = Total(t)
  BY <1>12, Zenon DEF Total
<1>16. Total(ts)' = Total(ts) - n
  <2>0. q \in {"R", "W"} /\ "W" \in Queue
    BY TurnstileAssumption, Zenon
  <2>1. Len(sleepq[ts]["W"]) \in Nat /\ ("R" \in Queue => Len(sleepq[ts]["R"]) \in Nat)
    BY <1>2, <2>0, SomeMember, Zenon
  <2>2. CASE q = "W"
    <3>1. /\ Len(sleepq'[ts]["W"]) = Len(sleepq[ts]["W"]) - n
          /\ "R" \in Queue => Len(sleepq'[ts]["R"]) = Len(sleepq[ts]["R"])
      BY <1>9, <1>12, <2>2, Zenon DEF sq
    <3> DEFINE m == IF "R" \in Queue THEN Len(sleepq[ts]["R"]) ELSE 0
    <3>2. Total(ts) = Len(sleepq[ts]["W"]) + m /\ Total(ts)' = Len(sleepq'[ts]["W"]) + m
      BY <3>1, Zenon DEF Total
    <3>3. m \in Nat
      BY <2>1, Zenon
    <3> HIDE DEF m
    <3>4. \A a, b \in Nat : (a - n) + b = (a + b) - n
      BY <1>8
    <3> QED  BY <2>1, <3>1, <3>2, <3>3, <3>4, ZenonT(30)
  <2>3. CASE q = "R"
    <3>1. /\ Len(sleepq'[ts]["R"]) = Len(sleepq[ts]["R"]) - n /\ "R" \in Queue
          /\ Len(sleepq'[ts]["W"]) = Len(sleepq[ts]["W"])
      BY <1>9, <1>12, <2>0, <2>3, Zenon DEF sq
    <3>2. /\ Total(ts) = Len(sleepq[ts]["W"]) + Len(sleepq[ts]["R"])
          /\ Total(ts)' = Len(sleepq'[ts]["W"]) + Len(sleepq'[ts]["R"])
      BY <3>1, Zenon DEF Total
    <3>3. Len(sleepq[ts]["W"]) \in Nat /\ Len(sleepq[ts]["R"]) \in Nat
      BY <2>1, <3>1, Zenon
    <3>4. \A a, b \in Nat : a + (b - n) = (a + b) - n
      BY <1>8
    <3> QED  BY <3>1, <3>2, <3>3, <3>4, Zenon
  <2> QED  BY <2>0, <2>2, <2>3, Zenon
<1> QED  BY <1>12, <1>13, <1>14, <1>15, <1>16, Zenon DEF Left

\* The turnstiles they go away with
LEMMA WakeFacts ==
    ASSUME TsInv, NEW l, NEW ts \in TS, tsobj[ts] # None, NEW q \in Queue,
           NEW n \in 1 .. Len(sleepq[ts][q]), WakeFirst(l, ts, q, n),
           NEW S, S = Members(SubSeq(sleepq[ts][q], 1, n))
    PROVE  /\ Wakes(ts, q, S) /\ Unrepeated' /\ Lengths'
           /\ \A t \in TS : Distinct(tsfree'[t])
           /\ sleepq' \in [TS -> [Queue -> Seq(Lwp)]] /\ tsfree' \in [TS -> Seq(TS)]
           /\ tsobj' \in [TS -> Lock \cup {None}] /\ lts' \in [Lwp -> TS]
           /\ wchan' \in [Lwp -> Lock \cup {None}]
<1> DEFINE woken == SubSeq(sleepq[ts][q], 1, n)
           Index(k) == CHOOSE i \in 1 .. n : woken[i] = k
           f == tsfree[ts]
           new == SubSeq(f, n + 1, Len(f))
<1>1. /\ sleepq' = [sleepq EXCEPT ![ts][q] = SubSeq(@, n + 1, Len(@))]
      /\ lts' = [k \in Lwp |-> IF k \in S THEN Given(k, ts, Index(k)) ELSE lts[k]]
      /\ tsfree' = [tsfree EXCEPT ![ts] = new]
      /\ tsobj' = [tsobj EXCEPT ![ts] = IF S = AllWaiters(ts) THEN None ELSE @]
      /\ wchan' = [k \in Lwp |-> IF k \in S THEN None ELSE wchan[k]]
  <2> DEFINE M == Members(woken)
  <2>1. /\ sleepq' = [sleepq EXCEPT ![ts][q] = SubSeq(@, n + 1, Len(@))]
        /\ lts' = [k \in Lwp |-> IF k \in M THEN Given(k, ts, Index(k)) ELSE lts[k]]
        /\ tsfree' = [tsfree EXCEPT ![ts] = new]
        /\ tsobj' = [tsobj EXCEPT ![ts] = IF M = AllWaiters(ts) THEN None ELSE @]
        /\ wchan' = [k \in Lwp |-> IF k \in M THEN None ELSE wchan[k]]
    BY Zenon DEF WakeFirst
  <2>2. S = M
    BY Zenon
  <2> HIDE DEF M, Index
  <2> QED  BY <2>1, <2>2, Zenon
<1>2. /\ tsobj \in [TS -> Lock \cup {None}] /\ lts \in [Lwp -> TS]
      /\ wchan \in [Lwp -> Lock \cup {None}] /\ tsfree \in [TS -> Seq(TS)]
  BY Zenon DEF TsInv, TsTypes
<1>3. TsTypes /\ Sleeping
  BY Zenon DEF TsInv
<1>4. /\ Len(f) \in Nat /\ Total(ts) = Len(f) + 1
      /\ (S = AllWaiters(ts) /\ n = Len(f) + 1) \/ (S # AllWaiters(ts) /\ n <= Len(f))
      /\ \A k \in S : On(k, ts, q)
  BY <1>3, WakeCount, Zenon
<1>5. /\ sleepq' \in [TS -> [Queue -> Seq(Lwp)]] /\ Unrepeated'
      /\ \A k \in Lwp : \A t \in TS : \A r \in Queue :
            On(k, t, r)' <=> On(k, t, r) /\ k \notin S
      /\ \A t \in TS \ {ts} : Total(t)' = Total(t)
      /\ Total(ts)' = Total(ts) - n
  <2>1. Cuts(ts, q, n)
    BY <1>1, Zenon DEF Cuts
  <2>2. Left(ts, n, S)
    BY <1>3, <2>1, WakeQueue, Zenon
  <2> QED  BY <2>2, Zenon DEF Left
<1>6. f \in Seq(TS) /\ Distinct(f)
  BY <1>2, Zenon DEF TsInv, Spare, FreeOnce
<1>7. /\ sleepq[ts][q] \in Seq(Lwp) /\ Distinct(sleepq[ts][q])
  BY <1>3, QueueTypes, Zenon DEF Sleeping, Unrepeated
<1>8. /\ woken \in Seq(Lwp) /\ Len(woken) = n /\ DOMAIN woken = 1 .. n /\ n \in Nat
      /\ S \subseteq Lwp /\ S = {woken[i] : i \in 1 .. n}
  <2>1. n \in 0 .. Len(sleepq[ts][q]) /\ n \in Nat
    BY <1>7
  <2>2. woken \in Seq(Lwp) /\ Len(woken) = n
    BY <1>7, <2>1, FirstOf, Zenon
  <2> HIDE DEF woken
  <2>3. DOMAIN woken = 1 .. n /\ \A i \in 1 .. n : woken[i] \in Lwp
    BY <2>1, <2>2
  <2>4. S = Members(woken)
    BY Zenon DEF woken
  <2> QED  BY <2>1, <2>2, <2>3, <2>4, Zenon DEF Members
<1>9. ASSUME NEW k \in S PROVE Index(k) \in 1 .. n /\ woken[Index(k)] = k
  BY <1>8, Zenon
<1> HIDE DEF woken, Index, f
<1>10. ASSUME NEW i \in 1 .. n
       PROVE  i \in 1 .. Len(f) \/ (i = n /\ n = Len(f) + 1 /\ S = AllWaiters(ts))
  BY <1>4, <1>8
<1>11. ASSUME NEW k \in S
       PROVE  /\ Index(k) \in 1 .. Len(f) => lts'[k] = f[Index(k)]
              /\ Index(k) = Len(f) + 1 => lts'[k] = ts
  <2>1. lts'[k] = Given(k, ts, Index(k))
    BY <1>1, <1>8, Zenon
  <2>2. Index(k) \in 1 .. Len(f) => Index(k) <= Len(f)
    BY <1>4
  <2>3. Index(k) = Len(f) + 1 => ~(Index(k) <= Len(f))
    BY <1>4
  <2>4. lts[k] = ts
    BY <1>3, <1>4, <1>8, Zenon DEF Sleeping, OnTheirs
  <2> QED  BY <2>1, <2>2, <2>3, <2>4, Zenon DEF Given, f
<1>12. \A v \in TS : IsFree(v, ts) <=> \E i \in 1 .. Len(f) : f[i] = v
  BY <1>6 DEF IsFree, Members, f
<1>13. \A i, j \in 1 .. Len(f) : f[i] = f[j] => i = j
  BY <1>6 DEF Distinct
<1>14. \A i \in 1 .. Len(f) : f[i] \in TS /\ f[i] # ts
  <2>1. ASSUME NEW i \in 1 .. Len(f) PROVE f[i] \in TS
    BY <1>6
  <2>2. ~IsFree(ts, ts)
    BY Zenon DEF TsInv, Spare, FreeIsFree
  <2> QED  BY <1>12, <2>1, <2>2, Zenon
<1>15. ASSUME NEW k \in S
       PROVE  \/ lts'[k] \in TS /\ IsFree(lts'[k], ts)
              \/ lts'[k] = ts /\ S = AllWaiters(ts)
  <2>1. CASE Index(k) \in 1 .. Len(f)
    <3>1. lts'[k] = f[Index(k)] /\ f[Index(k)] \in TS
      BY <1>11, <1>14, <2>1, Zenon
    <3>2. IsFree(lts'[k], ts)
      BY <1>12, <2>1, <3>1, Zenon
    <3> QED  BY <3>1, <3>2, Zenon
  <2>2. CASE Index(k) = Len(f) + 1 /\ S = AllWaiters(ts)
    BY <1>11, <2>2, Zenon
  <2> QED  BY <1>9, <1>10, <2>1, <2>2, Zenon
<1>16. ASSUME NEW j \in S, NEW k \in S, lts'[j] = lts'[k] PROVE j = k
  <2>1. Index(j) = Index(k)
    <3>1. \/ Index(j) \in 1 .. Len(f) \/ Index(j) = Len(f) + 1
      BY <1>9, <1>10, Zenon
    <3>2. \/ Index(k) \in 1 .. Len(f) \/ Index(k) = Len(f) + 1
      BY <1>9, <1>10, Zenon
    <3>3. CASE Index(j) \in 1 .. Len(f) /\ Index(k) \in 1 .. Len(f)
      <4>1. f[Index(j)] = f[Index(k)]
        BY <1>11, <1>16, <3>3, Zenon
      <4> QED  BY <1>13, <3>3, <4>1, Zenon
    <3>4. ASSUME NEW x \in S, NEW y \in S, lts'[x] = lts'[y], Index(x) = Len(f) + 1
          PROVE  Index(y) \notin 1 .. Len(f)
      BY <1>11, <1>14, <3>4, Zenon
    <3> QED  BY <1>16, <3>1, <3>2, <3>3, <3>4, Zenon
  <2> QED  BY <1>9, <2>1, Zenon
<1>17. /\ new \in Seq(TS) /\ Distinct(new) /\ Len(new) = IF n <= Len(f) THEN Len(f) - n ELSE 0
       /\ Members(new) = {f[i] : i \in n + 1 .. Len(f)}
  <2>1. CASE n <= Len(f)
    <3>1. n \in 0 .. Len(f)
      BY <1>4, <1>8, <2>1
    <3> QED  BY <1>6, <2>1, <3>1, RestOf, Zenon
  <2>2. CASE n = Len(f) + 1
    <3>1. new = << >> /\ n + 1 .. Len(f) = {} /\ ~(n <= Len(f))
      BY <1>4, <1>6, <2>2
    <3>2. << >> \in Seq(TS) /\ Distinct(<< >>) /\ Len(<< >>) = 0 /\ Members(<< >>) = {}
      BY DEF Distinct, Members
    <3> HIDE DEF new
    <3> QED  BY <3>1, <3>2
  <2> QED  BY <1>4, <2>1, <2>2, Zenon
<1> HIDE DEF new
<1>18. /\ tsfree'[ts] = new /\ tsfree' \in [TS -> Seq(TS)]
       /\ \A t \in TS \ {ts} : tsobj'[t] = tsobj[t] /\ tsfree'[t] = tsfree[t]
       /\ tsobj'[ts] = IF S = AllWaiters(ts) THEN None ELSE tsobj[ts]
       /\ tsobj' \in [TS -> Lock \cup {None}]
  BY <1>1, <1>2, <1>17, Zenon
<1>19. /\ \A k \in S : wchan'[k] = None
       /\ \A k \in Lwp \ S : wchan'[k] = wchan[k] /\ lts'[k] = lts[k]
       /\ wchan' \in [Lwp -> Lock \cup {None}]
  BY <1>1, <1>2, <1>8, Zenon
<1>20. lts' \in [Lwp -> TS]
  <2>1. \A k \in Lwp : lts'[k] \in TS
    BY <1>2, <1>15, <1>19, ZenonT(30)
  <2>2. lts' = [k \in Lwp |-> lts'[k]]
    BY <1>1, Zenon
  <2> QED  BY <2>1, <2>2, Zenon
<1>21. ASSUME NEW v \in TS
       PROVE  IsFree(v, ts)' <=> IsFree(v, ts) /\ \A k \in S : lts'[k] # v
  <2>1. IsFree(v, ts)' <=> \E i \in n + 1 .. Len(f) : f[i] = v
    BY <1>17, <1>18, ZenonT(30) DEF IsFree
  <2>2. \A i \in n + 1 .. Len(f) : i \in 1 .. Len(f) /\ \A j \in 1 .. n : i # j
    BY <1>4, <1>8
  <2>3. \A i \in 1 .. Len(f) : i \in 1 .. n \/ i \in n + 1 .. Len(f)
    BY <1>4, <1>8
  <2>4. ASSUME NEW i \in n + 1 .. Len(f), f[i] = v
        PROVE  IsFree(v, ts) /\ \A k \in S : lts'[k] # v
    <3>1. i \in 1 .. Len(f) /\ IsFree(v, ts)
      BY <1>12, <2>2, <2>4, Zenon
    <3>2. ASSUME NEW k \in S, lts'[k] = v PROVE FALSE
      <4>1. Index(k) \in 1 .. n /\ i # Index(k)
        BY <1>9, <2>2, Zenon
      <4>2. CASE Index(k) \in 1 .. Len(f)
        BY <1>11, <1>13, <2>4, <3>1, <3>2, <4>1, <4>2, ZenonT(30)
      <4>3. CASE Index(k) = Len(f) + 1
        BY <1>11, <1>14, <2>4, <3>1, <3>2, <4>3, ZenonT(30)
      <4> QED  BY <1>10, <4>1, <4>2, <4>3, Zenon
    <3> QED  BY <3>1, <3>2, Zenon
  <2>5. ASSUME IsFree(v, ts), \A k \in S : lts'[k] # v
        PROVE  \E i \in n + 1 .. Len(f) : f[i] = v
    <3>1. PICK i \in 1 .. Len(f) : f[i] = v
      BY <1>12, <2>5, Zenon
    <3>2. ASSUME i \in 1 .. n PROVE FALSE
      <4>1. woken[i] \in S /\ Index(woken[i]) = i
        <5>1. woken[i] \in S
          BY <1>8, <3>2, Zenon
        <5>2. \A j \in 1 .. n : woken[j] = woken[i] => j = i
          <6>1. Distinct(woken)
            <7>1. n \in 0 .. Len(sleepq[ts][q])
              BY <1>7
            <7> QED  BY <1>7, <7>1, FirstOf, Zenon DEF woken
          <6> QED  BY <1>8, <3>2, <6>1, ZenonT(30) DEF Distinct
        <5> QED  BY <1>9, <3>2, <5>1, <5>2, Zenon
      <4>2. lts'[woken[i]] = f[i]
        BY <1>11, <3>1, <4>1, Zenon
      <4> QED  BY <2>5, <3>1, <4>1, <4>2, Zenon
    <3> QED  BY <2>3, <3>1, <3>2, Zenon
  <2> QED  BY <2>1, <2>4, <2>5, Zenon
<1>22. S = AllWaiters(ts) => \E k \in S : lts'[k] = ts
  <2>1. ASSUME S = AllWaiters(ts) PROVE \E k \in S : lts'[k] = ts
    <3>1. n = Len(f) + 1 /\ n \in 1 .. n
      BY <1>4, <1>8, <2>1
    <3>2. woken[n] \in S
      BY <1>8, <3>1, Zenon
    <3>3. Index(woken[n]) = n
      <4>1. Distinct(woken)
        <5>1. n \in 0 .. Len(sleepq[ts][q])
          BY <1>7
        <5> QED  BY <1>7, <5>1, FirstOf, Zenon DEF woken
      <4> QED  BY <1>8, <1>9, <3>1, <3>2, <4>1, ZenonT(30) DEF Distinct
    <3> QED  BY <1>11, <3>1, <3>2, <3>3, ZenonT(30)
  <2> QED  BY <2>1, Zenon
<1>23. Wakes(ts, q, S)
  BY <1>4, <1>5, <1>8, <1>15, <1>16, <1>18, <1>19, <1>21, <1>22, ZenonT(30) DEF Wakes
<1>24. \A t \in TS : Distinct(tsfree'[t])
  BY <1>17, <1>18, Zenon DEF TsInv, Spare, FreeOnce
<1>25. Lengths'
  <2>1. ASSUME NEW t \in TS \ {ts}
        PROVE  /\ tsobj'[t] # None => Len(tsfree'[t]) + 1 = Total(t)'
               /\ tsobj'[t] = None => tsfree'[t] = << >> /\ Total(t)' = 0
    BY <1>3, <1>5, <1>18, Zenon DEF Sleeping, Lengths
  <2>2. /\ tsobj'[ts] # None => Len(tsfree'[ts]) + 1 = Total(ts)'
        /\ tsobj'[ts] = None => tsfree'[ts] = << >> /\ Total(ts)' = 0
    <3>1. CASE S = AllWaiters(ts) /\ n = Len(f) + 1
      <4>1. ~(n <= Len(f)) /\ (Len(f) + 1) - (Len(f) + 1) = 0
        BY <1>4, <3>1
      <4>2. Total(ts)' = 0
        BY <1>4, <1>5, <3>1, <4>1, Zenon
      <4>3. tsfree'[ts] = << >>
        <5>1. Len(new) = 0
          BY <1>17, <4>1, Zenon
        <5> QED  BY <1>17, <1>18, <5>1, SomeMember, ZenonT(30)
      <4> QED  BY <1>18, <3>1, <4>2, <4>3, ZenonT(30)
    <3>2. CASE S # AllWaiters(ts) /\ n <= Len(f)
      <4>1. tsobj'[ts] # None
        BY <1>18, <3>2, Zenon
      <4>2. (Len(f) - n) + 1 = (Len(f) + 1) - n
        BY <1>4, <1>8
      <4>3. Len(tsfree'[ts]) = Len(f) - n
        BY <1>17, <1>18, <3>2, Zenon
      <4> QED  BY <1>4, <1>5, <4>1, <4>2, <4>3, ZenonT(30)
    <3> QED  BY <1>4, <3>1, <3>2, Zenon
  <2>3. ASSUME NEW t \in TS
        PROVE  /\ tsobj'[t] # None => Len(tsfree'[t]) + 1 = Total(t)'
               /\ tsobj'[t] = None => tsfree'[t] = << >> /\ Total(t)' = 0
    BY <2>1, <2>2, Zenon
  <2> QED  BY <2>3, Zenon DEF Lengths
<1> QED
  BY <1>5, <1>18, <1>19, <1>20, <1>23, <1>24, <1>25, ZenonT(30)

\* The queues and the turnstiles after turnstile_wakeup
LEMMA WakeSleeping ==
    ASSUME TsInv, NEW ts \in TS, tsobj[ts] # None, NEW q \in Queue, NEW S,
           Wakes(ts, q, S), Unrepeated', Lengths'
    PROVE  Sleeping'
<1>1. /\ \A k \in S : wchan'[k] = None
      /\ \A k \in Lwp \ S : wchan'[k] = wchan[k] /\ lts'[k] = lts[k]
      /\ \A k \in Lwp : \A t \in TS : \A r \in Queue : On(k, t, r)' <=> On(k, t, r) /\ k \notin S
  BY Zenon DEF Wakes
<1>2. /\ \A t \in TS \ {ts} : tsobj'[t] = tsobj[t]
      /\ tsobj'[ts] = IF S = AllWaiters(ts) THEN None ELSE tsobj[ts]
  BY Zenon DEF Wakes
<1>3. ASSUME NEW k \in Lwp, NEW t \in TS, NEW r \in Queue, On(k, t, r)'
      PROVE  tsobj'[t] = tsobj[t]
  <2>1. On(k, t, r) /\ k \notin S
    BY <1>1, <1>3, Zenon
  <2>2. CASE t = ts
    <3>1. k \in AllWaiters(ts)
      BY <2>1, <2>2, AllCount, Zenon DEF TsInv
    <3> QED  BY <1>2, <2>1, <2>2, <3>1, Zenon
  <2> QED  BY <1>2, <2>2, Zenon
<1>4. OnTheirs'
  <2>1. ASSUME NEW k \in Lwp, NEW t \in TS, NEW r \in Queue, On(k, t, r)'
        PROVE  lts'[k] = t /\ wchan'[k] = tsobj'[t] /\ wchan'[k] # None
    <3>1. On(k, t, r) /\ k \notin S /\ tsobj'[t] = tsobj[t]
      BY <1>1, <1>3, <2>1, Zenon
    <3>2. lts[k] = t /\ wchan[k] = tsobj[t] /\ wchan[k] # None
      BY <3>1, Zenon DEF TsInv, Sleeping, OnTheirs
    <3> QED  BY <1>1, <3>1, <3>2, Zenon
  <2> QED  BY <2>1, Zenon DEF OnTheirs
<1>5. OnOne'
  <2>1. ASSUME NEW k \in Lwp, NEW t \in TS, NEW r \in Queue, NEW s \in Queue,
               On(k, t, r)', On(k, t, s)'
        PROVE  r = s
    <3>1. On(k, t, r) /\ On(k, t, s)
      BY <1>1, <2>1, Zenon
    <3> QED  BY <3>1, Zenon DEF TsInv, Sleeping, OnOne
  <2> QED  BY <2>1, Zenon DEF OnOne
<1>6. Found'
  <2>1. ASSUME NEW k \in Lwp, wchan'[k] # None
        PROVE  tsobj'[lts'[k]] = wchan'[k] /\ \E r \in Queue : On(k, lts[k], r)'
    <3>1. k \notin S /\ wchan'[k] = wchan[k] /\ lts'[k] = lts[k] /\ lts[k] \in TS
      BY <1>1, <2>1, Zenon DEF TsInv, TsTypes
    <3>2. PICK r \in Queue : On(k, lts[k], r) /\ tsobj[lts[k]] = wchan[k]
      BY <2>1, <3>1, Zenon DEF TsInv, Sleeping, Found
    <3>3. PICK t \in TS : t = lts[k]
      BY <3>1, Zenon
    <3>4. On(k, t, r)' /\ tsobj'[t] = tsobj[t]
      BY <1>1, <1>3, <3>1, <3>2, <3>3, Zenon
    <3> QED  BY <3>1, <3>2, <3>3, <3>4, Zenon DEF On
  <2> QED  BY <2>1, Zenon DEF Found
<1>7. OneEach'
  <2>1. ASSUME NEW t \in TS, tsobj'[t] # None PROVE tsobj'[t] = tsobj[t]
    BY <1>2, <2>1, Zenon
  <2> QED  BY <2>1, Zenon DEF TsInv, Sleeping, OneEach
<1> QED  BY <1>4, <1>5, <1>6, <1>7, Zenon DEF Sleeping

\* The turnstiles not in use after turnstile_wakeup: each LWP takes one along,
\* and the last of them the one that was in use.
LEMMA WakeSpare ==
    ASSUME TsInv, NEW ts \in TS, tsobj[ts] # None, NEW q \in Queue, NEW S,
           Wakes(ts, q, S), \A t \in TS : Distinct(tsfree'[t])
    PROVE  Spare'
<1>1. /\ S \subseteq Lwp /\ \A k \in S : wchan'[k] = None
      /\ \A k \in Lwp \ S : wchan'[k] = wchan[k] /\ lts'[k] = lts[k]
  BY Zenon DEF Wakes
<1>2. /\ \A t \in TS \ {ts} : tsobj'[t] = tsobj[t] /\ tsfree'[t] = tsfree[t]
      /\ IF S = AllWaiters(ts) THEN tsobj'[ts] = None /\ \E k \in S : lts'[k] = ts
         ELSE tsobj'[ts] = tsobj[ts]
  BY Zenon DEF Wakes
<1>3. ASSUME NEW k \in S
      PROVE  \/ lts'[k] \in TS /\ IsFree(lts'[k], ts)
             \/ lts'[k] = ts /\ S = AllWaiters(ts)
  BY Zenon DEF Wakes
<1>4. \A j, k \in S : lts'[j] = lts'[k] => j = k
  BY Zenon DEF Wakes
<1>5. \A v \in TS : IsFree(v, ts)' <=> IsFree(v, ts) /\ \A k \in S : lts'[k] # v
  BY Zenon DEF Wakes
<1>6. ASSUME NEW v \in TS, NEW t \in TS, IsFree(v, t)
      PROVE  /\ v # ts /\ tsobj[v] = None /\ tsobj'[v] = None
             /\ \A k \in Lwp : wchan[k] = None => lts[k] # v
  <2>1. tsobj[v] = None /\ \A k \in Lwp : wchan[k] = None => lts[k] # v
    BY <1>6, Zenon DEF TsInv, Spare, FreeIsFree
  <2>2. v # ts
    BY <2>1, Zenon
  <2> QED  BY <1>2, <2>1, <2>2, Zenon
<1>7. ASSUME NEW k \in Lwp, k \notin S, wchan'[k] = None
      PROVE  /\ wchan[k] = None /\ lts'[k] = lts[k] /\ lts[k] \in TS
             /\ tsobj[lts[k]] = None /\ lts[k] # ts
  <2>1. wchan[k] = None /\ lts'[k] = lts[k]
    BY <1>1, <1>7, Zenon
  <2>2. lts[k] \in TS /\ tsobj[lts[k]] = None
    BY <2>1, Zenon DEF TsInv, TsTypes, Spare, HasOwn
  <2> QED  BY <2>1, <2>2, Zenon
<1>8. HasOwn'
  <2>1. ASSUME NEW k \in Lwp, wchan'[k] = None PROVE tsobj'[lts'[k]] = None
    <3>1. CASE k \in S
      BY <1>2, <1>3, <1>6, <3>1, Zenon
    <3>2. CASE k \notin S
      <4>1. lts'[k] = lts[k] /\ lts[k] \in TS /\ tsobj[lts[k]] = None /\ lts[k] # ts
        BY <1>7, <2>1, <3>2, Zenon
      <4> QED  BY <1>2, <4>1, Zenon
    <3> QED  BY <3>1, <3>2, Zenon
  <2> QED  BY <2>1, Zenon DEF HasOwn
<1>9. OwnDiffer'
  <2>1. ASSUME NEW j \in S, NEW k \in Lwp, k \notin S, wchan'[k] = None PROVE lts'[j] # lts'[k]
    <3>1. wchan[k] = None /\ lts'[k] = lts[k] /\ lts[k] # ts
      BY <1>7, <2>1, Zenon
    <3> QED  BY <1>3, <1>6, <3>1, Zenon
  <2>2. ASSUME NEW j \in Lwp, NEW k \in Lwp, j \notin S, k \notin S,
               wchan'[j] = None, wchan'[k] = None, lts'[j] = lts'[k]
        PROVE  j = k
    <3>1. wchan[j] = None /\ wchan[k] = None /\ lts[j] = lts[k]
      BY <1>7, <2>2, Zenon
    <3> QED  BY <3>1, Zenon DEF TsInv, Spare, OwnDiffer
  <2>3. ASSUME NEW j \in Lwp, NEW k \in Lwp, wchan'[j] = None, wchan'[k] = None, lts'[j] = lts'[k]
        PROVE  j = k
    BY <1>4, <2>1, <2>2, <2>3, Zenon
  <2> QED  BY <2>3, Zenon DEF OwnDiffer
<1>10. ASSUME NEW t \in TS, NEW v \in TS, IsFree(v, t)' PROVE IsFree(v, t)
  <2>1. CASE t = ts
    BY <1>5, <1>10, <2>1, Zenon
  <2>2. CASE t # ts
    BY <1>2, <1>10, <2>2, Zenon DEF IsFree
  <2> QED  BY <2>1, <2>2, Zenon
<1>11. FreeIsFree'
  <2>1. ASSUME NEW t \in TS, NEW v \in TS, IsFree(v, t)'
        PROVE  tsobj'[v] = None /\ \A k \in Lwp : wchan'[k] = None => lts'[k] # v
    <3>1. IsFree(v, t)
      BY <1>10, <2>1, Zenon
    <3>2. /\ v # ts /\ tsobj'[v] = None /\ \A k \in Lwp : wchan[k] = None => lts[k] # v
      BY <1>6, <3>1, Zenon
    <3>3. ASSUME NEW k \in S PROVE lts'[k] # v
      <4>1. CASE t = ts
        BY <1>5, <2>1, <4>1, Zenon
      <4>2. CASE t # ts
        <5>1. lts'[k] = v => IsFree(v, ts)
          BY <1>3, <3>2, Zenon
        <5> QED  BY <3>1, <4>2, <5>1, Zenon DEF TsInv, Spare, FreeOnce
      <4> QED  BY <4>1, <4>2, Zenon
    <3>4. ASSUME NEW k \in Lwp, k \notin S, wchan'[k] = None PROVE lts'[k] # v
      BY <1>7, <3>2, <3>4, Zenon
    <3> QED  BY <3>2, <3>3, <3>4, Zenon
  <2> QED  BY <2>1, Zenon DEF FreeIsFree
<1>12. FreeOnce'
  <2>1. ASSUME NEW t \in TS, NEW u \in TS, NEW v \in TS, IsFree(v, t)', IsFree(v, u)'
        PROVE  t = u
    <3>1. IsFree(v, t) /\ IsFree(v, u)
      BY <1>10, <2>1, Zenon
    <3> QED  BY <3>1, Zenon DEF TsInv, Spare, FreeOnce
  <2> QED  BY <2>1, Zenon DEF FreeOnce
<1>13. Somewhere'
  <2>1. ASSUME NEW v \in TS
        PROVE  \/ tsobj'[v] # None \/ \E k \in Lwp : wchan'[k] = None /\ lts'[k] = v
               \/ \E t \in TS : IsFree(v, t)'
    <3>1. CASE tsobj[v] # None
      BY <1>1, <1>2, <3>1, Zenon
    <3>2. ASSUME NEW k \in Lwp, wchan[k] = None, lts[k] = v
          PROVE  wchan'[k] = None /\ lts'[k] = v
      <4>1. k \notin S
        <5>1. \A r \in Queue : ~On(k, ts, r)
          BY <3>2, OwnTurnstile, Zenon
        <5> QED  BY <5>1, Zenon DEF Wakes
      <4> QED  BY <1>1, <3>2, <4>1, Zenon
    <3>3. ASSUME NEW t \in TS, IsFree(v, t)
          PROVE  IsFree(v, t)' \/ \E k \in S : lts'[k] = v
      <4>1. CASE t = ts
        BY <1>5, <3>3, <4>1, Zenon
      <4>2. CASE t # ts
        BY <1>2, <3>3, <4>2, Zenon DEF IsFree
      <4> QED  BY <4>1, <4>2, Zenon
    <3>4. \/ tsobj[v] # None \/ \E k \in Lwp : wchan[k] = None /\ lts[k] = v
          \/ \E t \in TS : IsFree(v, t)
      BY Zenon DEF TsInv, Spare, Somewhere
    <3> QED  BY <1>1, <3>1, <3>2, <3>3, <3>4, ZenonT(30)
  <2> QED  BY <2>1, Zenon DEF Somewhere
<1> QED  BY <1>8, <1>9, <1>11, <1>12, <1>13, Zenon DEF Spare

\* What is left to an LWP is what its other lenders lend.
LEMMA HighestType ==
    ASSUME TsTypes, NEW S \in SUBSET TS
    PROVE  Highest(S) \in Pri \cup {NoPrio} /\ IsHighest(Highest(S), S)
<1>1. CASE S = {}
  BY <1>1, Zenon DEF Highest, IsHighest
<1>2. CASE S # {}
  <2>1. tseprio \in [TS -> Pri \cup {NoPrio}]
    BY Zenon DEF TsTypes
  <2>2. PICK t \in S : t = CHOOSE u \in S : \A v \in S : tseprio[u] >= tseprio[v]
    BY <1>2, <2>1, SomeHighest, Zenon
  <2>3. Highest(S) = tseprio[t] /\ tseprio[t] \in Pri \cup {NoPrio}
    BY <1>2, <2>1, <2>2, Zenon DEF Highest
  <2>4. PRI_COUNT \in Nat
    BY TurnstileAssumption, Zenon
  <2>5. Highest(S) \in Int
    BY <2>3, <2>4 DEF Pri, NoPrio
  <2> QED  BY <2>3, <2>5, HighestIs, Zenon
<1> QED  BY <1>1, <1>2, Zenon

\* turnstile_unlendpri
LEMMA UnlendInv ==
    ASSUME TsTypes, Lent, NEW l \in Lwp, NEW ts \in TS, inheritor[ts] \in {None, l}, Unlend(l, ts)
    PROVE  /\ Lent' /\ inheritor'[ts] = None /\ \A t \in TS \ {ts} : inheritor'[t] = inheritor[t]
           /\ inheritor' \in [TS -> Lwp \cup {None}] /\ tseprio' \in [TS -> Pri \cup {NoPrio}]
           /\ lenders' \in [Lwp -> SUBSET TS] /\ inherited' \in [Lwp -> Pri \cup {NoPrio}]
<1>0. None \notin Lwp
  BY TurnstileAssumption, Zenon
<1>1. /\ inheritor \in [TS -> Lwp \cup {None}] /\ tseprio \in [TS -> Pri \cup {NoPrio}]
      /\ lenders \in [Lwp -> SUBSET TS] /\ inherited \in [Lwp -> Pri \cup {NoPrio}]
  BY Zenon DEF TsTypes
<1>2. CASE inheritor[ts] = None
  <2>1. UNCHANGED privars
    BY <1>2, Zenon DEF Unlend
  <2>2. UNCHANGED <<inheritor, tseprio, lenders, inherited>>
    BY <2>1, Zenon DEF privars
  <2>3. Lent'
    BY <2>1, LoansRest, Zenon
  <2> QED  BY <1>1, <1>2, <2>2, <2>3, Zenon
<1>3. CASE inheritor[ts] # None
  <2>0. inheritor[ts] = l
    BY <1>3, Zenon
  <2> DEFINE rest == lenders[l] \ {ts}
             p == Highest(rest)
  <2>1. /\ inheritor' = [inheritor EXCEPT ![ts] = None]
        /\ tseprio' = [tseprio EXCEPT ![ts] = NoPrio]
        /\ lenders' = [lenders EXCEPT ![l] = rest]
        /\ inherited' = [inherited EXCEPT ![l] = p]
    BY <1>3, Zenon DEF Unlend, Remaining
  <2>2. rest \in SUBSET TS
    BY <1>1, Zenon
  <2>3. p \in Pri \cup {NoPrio} /\ IsHighest(p, rest)
    BY <2>2, HighestType, Zenon
  <2> HIDE DEF p, rest
  <2>4. /\ inheritor'[ts] = None /\ \A t \in TS \ {ts} : inheritor'[t] = inheritor[t]
        /\ \A t \in TS \ {ts} : tseprio'[t] = tseprio[t]
        /\ lenders'[l] = rest /\ \A k \in Lwp \ {l} : lenders'[k] = lenders[k]
        /\ inherited'[l] = p /\ \A k \in Lwp \ {l} : inherited'[k] = inherited[k]
        /\ inheritor' \in [TS -> Lwp \cup {None}] /\ tseprio' \in [TS -> Pri \cup {NoPrio}]
        /\ lenders' \in [Lwp -> SUBSET TS] /\ inherited' \in [Lwp -> Pri \cup {NoPrio}]
    BY <1>1, <2>1, <2>2, <2>3, Zenon
  <2>5. ASSUME NEW k \in Lwp PROVE lenders'[k] = {t \in TS : inheritor'[t] = k}
    <3>1. lenders[k] = {t \in TS : inheritor[t] = k}
      BY Zenon DEF Lent
    <3>2. CASE k = l
      <4>1. lenders'[k] = {t \in TS : inheritor[t] = k} \ {ts}
        BY <2>4, <3>1, <3>2, Zenon DEF rest
      <4>2. \A t \in TS : inheritor'[t] = k <=> inheritor[t] = k /\ t # ts
        BY <1>0, <2>4, Zenon
      <4> QED  BY <4>1, <4>2, Zenon
    <3>3. CASE k # l
      <4>1. lenders'[k] = {t \in TS : inheritor[t] = k}
        BY <2>4, <3>1, <3>3, Zenon
      <4>2. \A t \in TS : inheritor'[t] = k <=> inheritor[t] = k
        BY <1>0, <2>0, <2>4, <3>3, Zenon
      <4> QED  BY <4>1, <4>2, Zenon
    <3> QED  BY <3>2, <3>3, Zenon
  <2>6. ASSUME NEW k \in Lwp PROVE IsHighest(inherited[k], lenders[k])'
    <3>1. CASE k = l
      <4>1. \A t \in rest : tseprio'[t] = tseprio[t]
        BY <2>2, <2>4, Zenon DEF rest
      <4>2. lenders'[k] = rest /\ inherited'[k] = p
        BY <2>4, <3>1, Zenon
      <4> QED  BY <2>3, <4>1, <4>2, ZenonT(30) DEF IsHighest
    <3>2. CASE k # l
      <4>1. /\ lenders'[k] = lenders[k] /\ inherited'[k] = inherited[k]
            /\ IsHighest(inherited[k], lenders[k])
        BY <2>4, <3>2, Zenon DEF Lent
      <4>2. \A t \in lenders[k] : tseprio'[t] = tseprio[t]
        <5>1. \A t \in lenders[k] : t \in TS /\ inheritor[t] = k
          BY Zenon DEF Lent
        <5> QED  BY <2>0, <2>4, <3>2, <5>1, Zenon
      <4> QED  BY <4>1, <4>2, Zenon DEF IsHighest
    <3> QED  BY <3>1, <3>2, Zenon
  <2> QED  BY <2>4, <2>5, <2>6, Zenon DEF Lent
<1> QED  BY <1>2, <1>3, Zenon

\* Lock o when LWPs S were woken from its turnstile ts
HandOver(o, ts, S) ==
    /\ owner' \in [Lock -> Lwp \cup {None}] /\ readers' \in [Lock -> SUBSET Lwp]
    /\ \A x \in Lock \ {o} : owner'[x] = owner[x] /\ readers'[x] = readers[x]
    /\ owner'[o] # None => readers'[o] = {}
    /\ \A k \in Lwp : \A r \in Queue : On(k, ts, r) /\ k \notin S /\ owner'[o] = None =>
          readers'[o] # {} /\ \E j \in Lwp : On(j, ts, "W") /\ j \notin S

\* turnstile_wakeup of n LWPs of queue q, by who holds lock o
LEMMA WakeStep ==
    ASSUME TsInv, NEW l \in Lwp, NEW o \in Lock, NEW ts \in Active(o), NEW q \in Queue,
           NEW n \in 1 .. Len(sleepq[ts][q]), WakeFirst(l, ts, q, n),
           NEW S, S = Members(SubSeq(sleepq[ts][q], 1, n)),
           owner[o] = l \/ readers[o] = {l}, UNCHANGED <<at, prio>>, HandOver(o, ts, S)
    PROVE  TsInv'
<1>0. None \notin Lock /\ None \notin Lwp
  BY TurnstileAssumption, Zenon
<1>1. ts \in TS /\ tsobj[ts] = o /\ tsobj[ts] # None
  BY <1>0, Zenon DEF Active
<1>2. /\ Wakes(ts, q, S) /\ Unrepeated' /\ Lengths'
      /\ \A t \in TS : Distinct(tsfree'[t])
      /\ sleepq' \in [TS -> [Queue -> Seq(Lwp)]] /\ tsfree' \in [TS -> Seq(TS)]
      /\ tsobj' \in [TS -> Lock \cup {None}] /\ lts' \in [Lwp -> TS]
      /\ wchan' \in [Lwp -> Lock \cup {None}]
  BY <1>1, WakeFacts, Zenon
<1>3. Sleeping' /\ Spare'
  BY <1>1, <1>2, WakeSleeping, WakeSpare, Zenon
<1>4. inheritor[ts] \in {None, l}
  <2>1. ASSUME inheritor[ts] # None PROVE inheritor[ts] = l
    <3>1. \/ owner[o] = inheritor[ts] /\ readers[o] = {}
          \/ owner[o] = None /\ readers[o] = {inheritor[ts]}
      BY <2>1, HolderInherits, Zenon
    <3> QED  BY <1>0, <3>1, Zenon
  <2> QED  BY <2>1, Zenon
<1>5. /\ Lent' /\ inheritor'[ts] = None /\ \A t \in TS \ {ts} : inheritor'[t] = inheritor[t]
      /\ inheritor' \in [TS -> Lwp \cup {None}] /\ tseprio' \in [TS -> Pri \cup {NoPrio}]
      /\ lenders' \in [Lwp -> SUBSET TS] /\ inherited' \in [Lwp -> Pri \cup {NoPrio}]
  <2>1. Unlend(l, ts)
    BY Zenon DEF WakeFirst
  <2> QED  BY <1>1, <1>4, <2>1, UnlendInv, Zenon DEF TsInv
<1>6. /\ S \subseteq Lwp /\ \A k \in S : wchan'[k] = None /\ On(k, ts, q)
      /\ \A k \in Lwp \ S : wchan'[k] = wchan[k]
      /\ \A t \in TS \ {ts} : tsobj'[t] = tsobj[t]
      /\ \A k \in Lwp : \A t \in TS : \A r \in Queue : On(k, t, r)' <=> On(k, t, r) /\ k \notin S
      /\ tsobj'[ts] = IF S = AllWaiters(ts) THEN None ELSE tsobj[ts]
  BY <1>2, Zenon DEF Wakes
<1>7. \A k \in Lwp : pc'[k] = IF k \in S /\ pc[k] = "sleep" THEN "run" ELSE pc[k]
  <2>1. pc' = [k \in Lwp |-> IF k \in Members(SubSeq(sleepq[ts][q], 1, n)) /\ pc[k] = "sleep"
                             THEN "run" ELSE pc[k]]
    BY Zenon DEF WakeFirst
  <2> QED  BY <2>1, Zenon
<1>8. pc' \in [Lwp -> {"run", "lend", "restart", "sleep"}]
  <2>1. pc' = [k \in Lwp |-> pc'[k]]
    <3>1. pc' = [k \in Lwp |-> IF k \in Members(SubSeq(sleepq[ts][q], 1, n)) /\ pc[k] = "sleep"
                               THEN "run" ELSE pc[k]]
      BY Zenon DEF WakeFirst
    <3> QED  BY <3>1, Zenon
  <2>2. pc \in [Lwp -> {"run", "lend", "restart", "sleep"}]
    BY Zenon DEF TsInv, TsTypes
  <2> QED  BY <1>7, <2>1, <2>2, Zenon
<1>9. TsTypes'
  BY <1>2, <1>5, <1>8, Zenon DEF TsInv, TsTypes, HandOver
<1>10. Lending'
  <2>1. ASSUME NEW k \in Lwp
        PROVE  /\ pc'[k] \in {"lend", "restart"} => at'[k] \in Lwp
               /\ pc'[k] = "run" => wchan'[k] = None
    <3>1. /\ pc[k] \in {"lend", "restart"} => at[k] \in Lwp
          /\ pc[k] = "run" => wchan[k] = None
      BY Zenon DEF TsInv, Lending
    <3>2. pc'[k] = pc[k] \/ (k \in S /\ pc'[k] = "run")
      BY <1>7, Zenon
    <3>3. pc'[k] = "run" => pc'[k] \notin {"lend", "restart"}
      BY Zenon
    <3> QED  BY <1>6, <3>1, <3>2, <3>3, Zenon
  <2> QED  BY <2>1, Zenon DEF Lending
<1>11. InheritorIsOwner'
  <2>1. ASSUME NEW t \in TS, inheritor'[t] # None
        PROVE  /\ tsobj'[t] # None
               /\ owner'[tsobj'[t]] = inheritor'[t] \/ readers'[tsobj'[t]] = {inheritor'[t]}
    <3>1. t # ts /\ inheritor'[t] = inheritor[t] /\ tsobj'[t] = tsobj[t]
      BY <1>5, <1>6, <2>1, Zenon
    <3>2. /\ tsobj[t] # None
          /\ owner[tsobj[t]] = inheritor[t] \/ readers[tsobj[t]] = {inheritor[t]}
      BY <2>1, <3>1, Zenon DEF TsInv, InheritorIsOwner
    <3>3. tsobj[t] \in Lock /\ tsobj[t] # o
      BY <1>1, <3>1, <3>2, Zenon DEF TsInv, TsTypes, Sleeping, OneEach
    <3> QED  BY <3>1, <3>2, <3>3, Zenon DEF HandOver
  <2> QED  BY <2>1, Zenon DEF InheritorIsOwner
<1>12. Held'
  <2>0. "W" \in Queue
    BY TurnstileAssumption, Zenon
  <2>1. ASSUME NEW x \in Lock, NEW t \in Active(x)', owner'[x] = None
        PROVE  readers'[x] # {} /\ \E k \in Lwp : On(k, t, "W")'
    <3>1. t \in TS /\ tsobj'[t] = x /\ x # None
      BY <1>0, Zenon DEF Active
    <3>2. CASE t = ts
      <4>1. x = o /\ S # AllWaiters(ts)
        BY <1>1, <1>6, <3>1, <3>2, Zenon
      <4>2. \E k \in Lwp : \E r \in Queue : On(k, ts, r) /\ k \notin S
        <5>1. /\ \A k : k \in AllWaiters(ts) <=> \E r \in Queue : On(k, ts, r)
              /\ AllWaiters(ts) \subseteq Lwp
          BY <1>1, AllCount, Zenon DEF TsInv
        <5>2. S \subseteq AllWaiters(ts)
          BY <1>6, <5>1, Zenon
        <5>3. PICK k \in AllWaiters(ts) : k \notin S
          BY <4>1, <5>2, Zenon
        <5> QED  BY <5>1, <5>3, Zenon
      <4>3. readers'[o] # {} /\ \E j \in Lwp : On(j, ts, "W") /\ j \notin S
        BY <2>1, <4>1, <4>2, Zenon DEF HandOver
      <4> QED  BY <1>1, <1>6, <2>0, <3>2, <4>1, <4>3, ZenonT(30)
    <3>3. CASE t # ts
      <4>1. t \in Active(x) /\ x # o
        <5>1. tsobj[t] = x
          BY <1>6, <3>1, <3>3, Zenon
        <5> QED  BY <1>1, <3>1, <3>3, <5>1, Zenon DEF Active, TsInv, Sleeping, OneEach
      <4>2. PICK k \in Lwp : readers'[x] # {} /\ On(k, t, "W")
        <5>1. owner[x] = None /\ readers'[x] = readers[x]
          BY <2>1, <4>1, Zenon DEF HandOver
        <5> QED  BY <4>1, <5>1, Zenon DEF TsInv, Held
      <4>3. k \notin S
        <5>1. lts[k] = t
          BY <2>0, <3>1, <4>2, Zenon DEF TsInv, Sleeping, OnTheirs
        <5>2. k \in S => lts[k] = ts
          BY <1>1, <1>6, Zenon DEF TsInv, Sleeping, OnTheirs
        <5> QED  BY <3>3, <5>1, <5>2, Zenon
      <4> QED  BY <1>6, <2>0, <3>1, <4>1, <4>2, <4>3, ZenonT(30)
    <3> QED  BY <3>2, <3>3, Zenon
  <2>2. ASSUME NEW x \in Lock PROVE owner'[x] # None => readers'[x] = {}
    BY Zenon DEF TsInv, Held, HandOver
  <2> QED  BY <2>1, <2>2, Zenon DEF Held
<1> QED  BY <1>3, <1>5, <1>9, <1>10, <1>11, <1>12, Zenon DEF TsInv

\* The whole of a queue
LEMMA AllOf ==
    ASSUME NEW q \in Seq(Lwp), Distinct(q)
    PROVE  Members(SubSeq(q, 1, Len(q))) = Members(q)
<1>1. Len(q) \in 0 .. Len(q) /\ DOMAIN q = 1 .. Len(q)
  OBVIOUS
<1>2. Members(SubSeq(q, 1, Len(q))) = {q[i] : i \in 1 .. Len(q)}
  BY <1>1, FirstOf, Zenon
<1> QED  BY <1>1, <1>2, Zenon DEF Members

\* turnstile_wakeup, as the locks call it
LEMMA WakeupInv ==
    ASSUME TsInv, NEW l \in Lwp, NEW o \in Lock, Wakeup(l, o)
    PROVE  TsInv'
<1>0. None \notin Lwp /\ "W" \in Queue /\ Queue \subseteq {"R", "W"} /\ None \notin Lock
  BY TurnstileAssumption, Zenon
<1>1. owner[o] = l \/ readers[o] = {l}
  BY Zenon DEF Wakeup
<1>2. PICK ts \in Active(o) :
       \/ /\ Sleepers(o, "R") # {} /\ Sleepers(o, "W") # {}
          /\ owner' = [owner EXCEPT ![o] = Head(sleepq[ts]["W"])]
          /\ readers' = [readers EXCEPT ![o] = {}]
          /\ WakeFirst(l, ts, "W", 1)
       \/ /\ Sleepers(o, "R") = {}
          /\ owner' = [owner EXCEPT ![o] = None]
          /\ readers' = [readers EXCEPT ![o] = {}]
          /\ WakeFirst(l, ts, "W", Waiters(ts, "W"))
       \/ /\ Sleepers(o, "R") # {} /\ owner[o] = l
          /\ owner' = [owner EXCEPT ![o] = None]
          /\ \E kept \in {{}, {l}} :
                readers' = [readers EXCEPT ![o] = Sleepers(o, "R") \cup kept]
          /\ WakeFirst(l, ts, "R", Waiters(ts, "R"))
  BY Zenon DEF Wakeup
<1>3. UNCHANGED <<at, prio>>
  BY Zenon DEF Wakeup
<1>4. /\ ts \in TS /\ tsobj[ts] = o /\ tsobj[ts] # None
      /\ \A r \in Queue : Sleepers(o, r) = Members(sleepq[ts][r])
  BY <1>0, OneActive, Zenon DEF TsInv
<1>5. \A r \in Queue : sleepq[ts][r] \in Seq(Lwp) /\ Distinct(sleepq[ts][r])
  BY <1>4, QueueTypes, Zenon DEF TsInv, Sleeping, Unrepeated
<1>6. \A r \in Queue : Len(sleepq[ts][r]) \in Nat /\ Members(sleepq[ts][r]) \subseteq Lwp
  BY <1>5, SomeMember, Zenon
<1>7. \A r \in Queue : Sleepers(o, r) # {} => Len(sleepq[ts][r]) >= 1
  <2>1. ASSUME NEW r \in Queue, Sleepers(o, r) # {} PROVE Len(sleepq[ts][r]) # 0
    <3>1. sleepq[ts][r] \in Seq(Lwp) /\ Members(sleepq[ts][r]) # {}
      BY <1>4, <1>5, <2>1, Zenon
    <3> QED  BY <3>1, SomeMember, Zenon
  <2> QED  BY <1>6, <2>1
<1>8. Sleepers(o, "R") # {} => "R" \in Queue
  BY Zenon DEF Sleepers
<1>9. owner \in [Lock -> Lwp \cup {None}] /\ readers \in [Lock -> SUBSET Lwp]
  BY Zenon DEF TsInv, TsTypes
<1>10. \A r \in Queue : \A k : On(k, ts, r) <=> k \in Members(sleepq[ts][r])
  BY Zenon DEF On
<1>11. CASE /\ Sleepers(o, "R") # {} /\ Sleepers(o, "W") # {}
            /\ owner' = [owner EXCEPT ![o] = Head(sleepq[ts]["W"])]
            /\ readers' = [readers EXCEPT ![o] = {}]
            /\ WakeFirst(l, ts, "W", 1)
  <2>1. 1 \in 1 .. Len(sleepq[ts]["W"])
    BY <1>0, <1>6, <1>7, <1>11, SMTT(30)
  <2>2. Head(sleepq[ts]["W"]) \in Lwp
    BY <1>0, <1>5, <2>1
  <2>3. /\ owner' \in [Lock -> Lwp \cup {None}] /\ readers' \in [Lock -> SUBSET Lwp]
        /\ \A x \in Lock \ {o} : owner'[x] = owner[x] /\ readers'[x] = readers[x]
        /\ readers'[o] = {} /\ owner'[o] = Head(sleepq[ts]["W"])
    BY <1>9, <1>11, <2>2, Zenon
  <2>4. owner'[o] # None
    BY <1>0, <2>2, <2>3, Zenon
  <2>5. PICK S : S = Members(SubSeq(sleepq[ts]["W"], 1, 1))
    BY Zenon
  <2>6. HandOver(o, ts, S)
    BY <2>3, <2>4, Zenon DEF HandOver
  <2> QED  BY <1>0, <1>1, <1>3, <1>11, <2>1, <2>5, <2>6, WakeStep, ZenonT(30)
<1>12. CASE /\ Sleepers(o, "R") = {}
            /\ owner' = [owner EXCEPT ![o] = None]
            /\ readers' = [readers EXCEPT ![o] = {}]
            /\ WakeFirst(l, ts, "W", Waiters(ts, "W"))
  <2>1. PICK n \in 1 .. Len(sleepq[ts]["W"]) : n = Waiters(ts, "W")
    <3>1. tsfree[ts] \in Seq(TS) /\ Len(tsfree[ts]) + 1 = Total(ts)
      BY <1>4, QueueTypes, Zenon DEF TsInv, Sleeping, Lengths
    <3>2. Len(tsfree[ts]) \in Nat
      BY <3>1, SomeMember, Zenon
    <3>3. Total(ts) = Len(sleepq[ts]["W"]) + 0
      <4>1. CASE "R" \in Queue
        <5>1. Len(sleepq[ts]["R"]) = 0
          BY <1>4, <1>5, <1>12, <4>1, SomeMember, ZenonT(30)
        <5> QED  BY <4>1, <5>1, Zenon DEF Total
      <4>2. CASE "R" \notin Queue
        BY <4>2, Zenon DEF Total
      <4> QED  BY <4>1, <4>2, Zenon
    <3>4. Len(sleepq[ts]["W"]) \in Nat
      BY <1>0, <1>6, Zenon
    <3>5. Len(sleepq[ts]["W"]) \in 1 .. Len(sleepq[ts]["W"])
      BY <3>1, <3>2, <3>3, <3>4, SMTT(30)
    <3> QED  BY <3>5, Zenon DEF Waiters
  <2>2. PICK S : S = Members(SubSeq(sleepq[ts]["W"], 1, n))
    BY Zenon
  <2>3. S = Members(sleepq[ts]["W"])
    <3>1. Members(SubSeq(sleepq[ts]["W"], 1, Len(sleepq[ts]["W"]))) = Members(sleepq[ts]["W"])
      BY <1>0, <1>5, AllOf, Zenon
    <3> QED  BY <2>1, <2>2, <3>1, ZenonT(30) DEF Waiters
  <2>4. ASSUME NEW k \in Lwp, NEW r \in Queue, On(k, ts, r), k \notin S PROVE FALSE
    BY <1>0, <1>4, <1>10, <1>12, <2>3, <2>4, ZenonT(30)
  <2>5. /\ owner' \in [Lock -> Lwp \cup {None}] /\ readers' \in [Lock -> SUBSET Lwp]
        /\ \A x \in Lock \ {o} : owner'[x] = owner[x] /\ readers'[x] = readers[x]
        /\ readers'[o] = {}
    BY <1>9, <1>12, Zenon
  <2>6. WakeFirst(l, ts, "W", n)
    BY <1>12, <2>1, ZenonT(30)
  <2>7. HandOver(o, ts, S)
    BY <2>4, <2>5, Zenon DEF HandOver
  <2> QED  BY <1>0, <1>1, <1>3, <2>2, <2>6, <2>7, WakeStep, ZenonT(30)
<1>13. CASE /\ Sleepers(o, "R") # {} /\ owner[o] = l
            /\ owner' = [owner EXCEPT ![o] = None]
            /\ \E kept \in {{}, {l}} :
                  readers' = [readers EXCEPT ![o] = Sleepers(o, "R") \cup kept]
            /\ WakeFirst(l, ts, "R", Waiters(ts, "R"))
  <2>0. "R" \in Queue
    BY <1>8, <1>13, Zenon
  <2>1. PICK n \in 1 .. Len(sleepq[ts]["R"]) : n = Waiters(ts, "R")
    <3>1. Len(sleepq[ts]["R"]) \in Nat /\ Len(sleepq[ts]["R"]) >= 1
      BY <1>6, <1>7, <1>13, <2>0, ZenonT(30)
    <3>2. Len(sleepq[ts]["R"]) \in 1 .. Len(sleepq[ts]["R"])
      BY <3>1
    <3> QED  BY <3>2, Zenon DEF Waiters
  <2>2. PICK S : S = Members(SubSeq(sleepq[ts]["R"], 1, n))
    BY Zenon
  <2>3. S = Members(sleepq[ts]["R"])
    <3>1. Members(SubSeq(sleepq[ts]["R"], 1, Len(sleepq[ts]["R"]))) = Members(sleepq[ts]["R"])
      BY <1>5, <2>0, AllOf, Zenon
    <3> QED  BY <2>1, <2>2, <3>1, Zenon DEF Waiters
  <2>4. ASSUME NEW k \in Lwp, NEW r \in Queue, On(k, ts, r), k \notin S PROVE On(k, ts, "W")
    BY <1>0, <1>10, <2>3, <2>4, ZenonT(30)
  <2>5. PICK kept \in {{}, {l}} : readers' = [readers EXCEPT ![o] = Sleepers(o, "R") \cup kept]
    BY <1>13, Zenon
  <2>6. Sleepers(o, "R") \subseteq Lwp /\ Sleepers(o, "R") # {} /\ kept \subseteq Lwp
    BY <1>4, <1>6, <1>13, <2>0, ZenonT(30)
  <2>7. /\ owner' \in [Lock -> Lwp \cup {None}] /\ readers' \in [Lock -> SUBSET Lwp]
        /\ \A x \in Lock \ {o} : owner'[x] = owner[x] /\ readers'[x] = readers[x]
        /\ readers'[o] = Sleepers(o, "R") \cup kept /\ owner'[o] = None
    BY <1>9, <1>13, <2>5, <2>6, Zenon
  <2>8. WakeFirst(l, ts, "R", n)
    BY <1>13, <2>1, Zenon
  <2>9. readers'[o] # {}
    BY <2>6, <2>7, Zenon
  <2>10. HandOver(o, ts, S)
    BY <2>4, <2>7, <2>9, Zenon DEF HandOver
  <2> QED  BY <1>1, <1>3, <2>0, <2>2, <2>8, <2>10, WakeStep, ZenonT(30)
<1> QED  BY <1>2, <1>11, <1>12, <1>13, Zenon

-----------------------------------------------------------------------------
(* The theorems                                                            *)

\* Every step keeps the invariant.
LEMMA TsNext == TsInv /\ [Next]_vars => TsInv'
<1> SUFFICES ASSUME TsInv, [Next]_vars PROVE TsInv'
  BY Zenon
<1>1. CASE UNCHANGED vars
  <2>1. UNCHANGED <<owner, readers, tsvars, privars, pc, at, prio>>
    BY <1>1, Zenon DEF vars
  <2>2. UNCHANGED wchan
    BY <2>1, Zenon DEF tsvars
  <2>3. /\ pc' \in [Lwp -> {"run", "lend", "restart", "sleep"}]
        /\ at' \in [Lwp -> Lwp \cup {None}] /\ prio' \in [Lwp -> Pri \cup {NoPrio}]
    BY <2>1, Zenon DEF TsInv, TsTypes
  <2>4. Lending'
    BY <2>1, <2>2, Zenon DEF TsInv, Lending
  <2> QED  BY <2>1, <2>3, <2>4, PcStep, Zenon
<1>2. ASSUME NEW l \in Lwp, NEW o \in Lock, NEW q \in Queue, Take(l, o, q) \/ Block(l, o, q)
      PROVE  TsInv'
  BY <1>2, TakeInv, BlockInv, Zenon
<1>3. ASSUME NEW l \in Lwp, NEW o \in Lock, Drop(l, o) \/ Upgrade(l, o) \/ Downgrade(l, o)
      PROVE  TsInv'
  BY <1>3, DropInv, UpgradeInv, DowngradeInv, Zenon
<1>4. ASSUME NEW l \in Lwp, NEW o \in Lock, Wakeup(l, o) PROVE TsInv'
  BY <1>4, WakeupInv, Zenon
<1>5. ASSUME NEW l \in Lwp, LendDone(l) \/ LendRestart(l) PROVE TsInv'
  BY <1>5, LendEndInv, Zenon
<1>6. ASSUME NEW l \in Lwp, Relock(l) \/ Lend(l) PROVE TsInv'
  BY <1>6, RelockInv, LendInv, Zenon
<1> QED  BY <1>1, <1>2, <1>3, <1>4, <1>5, <1>6, ZenonT(30) DEF Next

\* The invariant holds in every state.
THEOREM TsInvariant == Spec => []TsInv
  BY TsInitInv, TsNext, PTL DEF Spec

\* Whoever was lent a priority by the sleepers of a lock still holds the lock,
\* and so will wake them: the KASSERTs of turnstile_lendpri and
\* turnstile_unlendpri hold.
THEOREM HolderKeepsLoans == Spec => []InheritorIsOwner
<1>1. TsInv => InheritorIsOwner
  BY Zenon DEF TsInv
<1> QED  BY <1>1, TsInvariant, PTL

\* An LWP runs at the highest of the priorities lent to it.
THEOREM LoansAddUp == Spec => []InheritedIsHighest
<1>1. TsInv => InheritedIsHighest
  <2> SUFFICES ASSUME TsInv PROVE InheritedIsHighest
    BY Zenon
  <2>1. ASSUME NEW l \in Lwp PROVE inherited[l] = Highest(lenders[l])
    <3>1. IsHighest(inherited[l], lenders[l])
      BY Zenon DEF TsInv, Lent
    <3>2. lenders[l] \in SUBSET TS /\ inherited[l] \in Int
      <4>1. lenders[l] \in SUBSET TS
        BY Zenon DEF TsInv, TsTypes
      <4>2. inherited[l] \in Int
        BY EprioIs, Zenon DEF TsInv
      <4> QED  BY <4>1, <4>2, Zenon
    <3> QED  BY <3>1, <3>2, HighestIs, Zenon DEF TsInv
  <2> QED  BY <2>1, Zenon DEF InheritedIsHighest, TsInv, Lent
<1> QED  BY <1>1, TsInvariant, PTL

\* No turnstile is lost or used twice.
THEOREM NoTurnstileLost == Spec => []TurnstilesConserved
<1>1. TsInv => TurnstilesConserved
  <2> SUFFICES ASSUME TsInv PROVE TurnstilesConserved
    BY Zenon
  <2>0. None \notin Lock
    BY TurnstileAssumption, Zenon
  <2>1. ASSUME NEW l \in Lwp, wchan[l] = None
        PROVE  /\ tsobj[lts[l]] = None /\ tsfree[lts[l]] = << >>
               /\ \A k \in Lwp \ {l} : lts[k] # lts[l]
    <3>1. tsobj[lts[l]] = None /\ tsfree[lts[l]] = << >>
      BY <2>1, OwnTurnstile, Zenon
    <3>2. ASSUME NEW k \in Lwp \ {l}, lts[k] = lts[l] PROVE FALSE
      <4>1. wchan[k] = None
        BY <3>1, <3>2, Zenon DEF TsInv, Sleeping, Found
      <4> QED  BY <2>1, <3>2, <4>1, Zenon DEF TsInv, Spare, OwnDiffer
    <3> QED  BY <3>1, <3>2, Zenon
  <2>2. ASSUME NEW o \in Lock, NEW S, S = {l \in Lwp : wchan[l] = o}
        PROVE  /\ Cardinality(Active(o)) = IF S = {} THEN 0 ELSE 1
               /\ \A t \in Active(o) :
                     /\ AllWaiters(t) = S /\ \A l \in S : lts[l] = t
                     /\ Len(tsfree[t]) = Cardinality(S) - 1
    <3>1. ASSUME NEW l \in S PROVE lts[l] \in Active(o)
      BY <2>0, <2>2, Zenon DEF TsInv, TsTypes, Sleeping, Found, Active
    <3>2. ASSUME NEW t \in Active(o)
          PROVE  /\ AllWaiters(t) = S /\ \A l \in S : lts[l] = t
                 /\ Len(tsfree[t]) = Cardinality(S) - 1 /\ S # {} /\ Active(o) = {t}
      <4>1. t \in TS /\ tsobj[t] = o /\ Active(o) = {t}
        BY OneActive, Zenon DEF TsInv
      <4>2. \A l \in S : lts[l] = t
        BY <3>1, <4>1, Zenon
      <4>3. /\ IsFiniteSet(AllWaiters(t)) /\ Cardinality(AllWaiters(t)) = Total(t)
            /\ \A k : k \in AllWaiters(t) <=> \E r \in Queue : On(k, t, r)
            /\ AllWaiters(t) \subseteq Lwp
        BY <4>1, AllCount, Zenon DEF TsInv
      <4>4. ASSUME NEW k \in AllWaiters(t) PROVE k \in S
        <5>1. k \in Lwp /\ \E r \in Queue : On(k, t, r)
          BY <4>3, Zenon
        <5>2. wchan[k] = o
          BY <4>1, <5>1, Zenon DEF TsInv, Sleeping, OnTheirs
        <5> QED  BY <2>2, <5>1, <5>2, Zenon
      <4>5. ASSUME NEW k \in S PROVE k \in AllWaiters(t)
        <5>1. k \in Lwp /\ wchan[k] # None
          BY <2>0, <2>2, Zenon
        <5>2. \E r \in Queue : On(k, lts[k], r)
          BY <5>1, Zenon DEF TsInv, Sleeping, Found
        <5>3. \E r \in Queue : On(k, t, r)
          BY <4>2, <5>2, Zenon
        <5> QED  BY <4>3, <5>3, Zenon
      <4>6. AllWaiters(t) = S
        BY <4>4, <4>5, Zenon
      <4>7. tsfree[t] \in Seq(TS) /\ Len(tsfree[t]) + 1 = Total(t)
        BY <2>0, <4>1, QueueTypes, Zenon DEF TsInv, Sleeping, Lengths
      <4>8. Len(tsfree[t]) \in Nat
        BY <4>7, SomeMember, Zenon
      <4>9. Cardinality(S) = Len(tsfree[t]) + 1
        BY <4>3, <4>6, <4>7, Zenon
      <4>10. Len(tsfree[t]) = Cardinality(S) - 1
        BY <4>8, <4>9
      <4>11. S # {}
        <5>1. Cardinality({}) = 0
          BY FS_EmptySet, Zenon
        <5>2. Cardinality(S) # 0
          BY <4>8, <4>9
        <5> QED  BY <5>1, <5>2, Zenon
      <4> QED  BY <4>1, <4>2, <4>6, <4>10, <4>11, ZenonT(30)
    <3>3. Cardinality(Active(o)) = IF S = {} THEN 0 ELSE 1
      <4>1. CASE Active(o) = {}
        <5>1. S = {}
          BY <3>1, <4>1, Zenon
        <5> QED  BY <4>1, <5>1, FS_EmptySet, Zenon
      <4>2. ASSUME NEW t \in Active(o) PROVE Cardinality(Active(o)) = 1 /\ S # {}
        BY <3>2, FS_Singleton, Zenon
      <4> QED  BY <4>1, <4>2, Zenon
    <3> QED  BY <3>2, <3>3, Zenon
  <2>3. (UNION {Members(tsfree[t]) : t \in TS}) \cup {lts[l] : l \in Lwp} = TS
    <3>1. ASSUME NEW t \in TS PROVE Members(tsfree[t]) \subseteq TS
      <4>1. tsfree[t] \in Seq(TS)
        BY QueueTypes, Zenon DEF TsInv
      <4> QED  BY <4>1, SomeMember, Zenon
    <3>2. \A l \in Lwp : lts[l] \in TS
      BY Zenon DEF TsInv, TsTypes
    <3>3. ASSUME NEW v \in TS, tsobj[v] # None PROVE \E l \in Lwp : lts[l] = v
      <4>1. PICK l \in Lwp : \E r \in Queue : On(l, v, r)
        <5>1. /\ IsFiniteSet(AllWaiters(v)) /\ Cardinality(AllWaiters(v)) = Total(v)
              /\ \A k : k \in AllWaiters(v) <=> \E r \in Queue : On(k, v, r)
              /\ AllWaiters(v) \subseteq Lwp
          BY AllCount, Zenon DEF TsInv
        <5>2. tsfree[v] \in Seq(TS) /\ Total(v) = Len(tsfree[v]) + 1
          BY <3>3, QueueTypes, Zenon DEF TsInv, Sleeping, Lengths
        <5>3. Len(tsfree[v]) \in Nat
          BY <5>2, SomeMember, Zenon
        <5>4. Total(v) # 0
          BY <5>2, <5>3
        <5>5. AllWaiters(v) # {}
          BY <5>1, <5>4, FS_EmptySet, Zenon
        <5> QED  BY <5>1, <5>5, Zenon
      <4> QED  BY <4>1, Zenon DEF TsInv, Sleeping, OnTheirs
    <3>4. ASSUME NEW v \in TS
          PROVE  (\E t \in TS : v \in Members(tsfree[t])) \/ \E l \in Lwp : lts[l] = v
      BY <3>3, Zenon DEF TsInv, Spare, Somewhere, IsFree
    <3> DEFINE A == UNION {Members(tsfree[t]) : t \in TS}
               B == {lts[l] : l \in Lwp}
    <3>5. A \subseteq TS /\ B \subseteq TS
      BY <3>1, <3>2, Zenon
    <3>6. ASSUME NEW v \in TS PROVE v \in A \cup B
      <4>1. \A t \in TS : v \in Members(tsfree[t]) => v \in A
        BY Zenon
      <4>2. \A l \in Lwp : lts[l] = v => v \in B
        BY Zenon
      <4> HIDE DEF A, B
      <4> QED  BY <3>4, <4>1, <4>2, Zenon
    <3> HIDE DEF A, B
    <3>7. A \cup B = TS
      BY <3>5, <3>6, Zenon
    <3> QED  BY <3>7, Zenon DEF A, B
  <2> QED  BY <2>1, <2>2, <2>3, Zenon DEF TurnstilesConserved
<1> QED  BY <1>1, TsInvariant, PTL
=============================================================================
