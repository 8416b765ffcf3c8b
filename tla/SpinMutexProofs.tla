--------------------------- MODULE SpinMutexProofs ---------------------------
(***************************************************************************)
(* Proofs about spin mutexes, for any CPUs, levels and mutexes.            *)
(***************************************************************************)
EXTENDS SpinMutex, FiniteSetTheorems, TLAPS

-----------------------------------------------------------------------------
(* The inductive invariant                                                 *)

Types == /\ lock \in [Mutexes -> Cpu \cup {NoCpu}]
         /\ spl \in [Cpu -> Level]
         /\ count \in [Cpu -> Int]
         /\ oldspl \in [Cpu -> Level]
         /\ active \in [Cpu -> SUBSET Level]
         /\ spc \in [Cpu -> [Level -> Labels]]
         /\ mtx \in [Cpu -> [Level -> Mutexes \cup {0}]]
         /\ s \in [Cpu -> [Level -> Level]]
         /\ held \in [Cpu -> [Level -> SUBSET Mutexes]]
         /\ entry \in [Cpu -> [Level -> Level]]

\* What ci_mtx_count counts: the mutexes that are held, and the contexts that
\* are about to have one, or have just had one.
Counted == {"enter_save", "enter_lock", "try_save", "try_lock", "restore", "count_up"}
Items(h, p) == {x \in Level \X (0 .. MaxMutex) :
                   x[2] \in h[x[1]] \/ (x[2] = 0 /\ p[x[1]] \in Counted)}

\* Nothing is counted for context i; for it and those it has interrupted.
Idle(c, i) == held[c][i] = {} /\ spc[c][i] \notin Counted
Clear(c, i) == \A j \in Level : j <= i => Idle(c, j)

\* The first context for which something is counted: ci_mtx_oldspl is its level.
First(c, i) == ~Idle(c, i) /\ \A j \in Level : j < i => Idle(c, j)

Entering == {"enter", "enter_save", "enter_lock", "try", "try_save", "try_lock"}

\* The contexts nest: each has a next lower one, down to the LWP, and those
\* that are not active are out of the mutex code.
Nested(c) ==
    /\ 0 \in active[c]
    /\ \E i \in active[c] : \A j \in active[c] : j <= i
    /\ \A i \in active[c] : i > 0 =>
          \E j \in active[c] : j < i /\ \A k \in active[c] : k < i => k <= j
    /\ \A i \in Level \ active[c] : spc[c][i] = "run" /\ held[c][i] = {}

\* Level v is high enough for context i, and no higher than it need be.
Suits(c, i, v) ==
    /\ v >= i
    /\ \A j \in Level : j <= i => \A m \in held[c][j] : v >= Ipl[m]
    /\ spc[c][i] \in Entering => v >= Ipl[mtx[c][i]]
    /\ spc[c][i] = "run" /\ Clear(c, i) => v = i

\* So is that of the context that runs, and so was that of each context when
\* it was interrupted.
Levels(c) ==
    /\ Suits(c, Running(c), spl[c])
    /\ \A i, j \in active[c] :
          i < j /\ (\A k \in active[c] : k <= i \/ k >= j) => Suits(c, i, entry[c][j])

\* What a context has or wants is above those it interrupts.
Above(c) ==
    \A i \in active[c] :
        /\ \A m \in held[c][i] : Ipl[m] >= i
        /\ spc[c][i] \in Entering =>
              /\ mtx[c][i] \in Mutexes /\ Ipl[mtx[c][i]] >= i
              /\ \A m \in held[c][i] : m < mtx[c][i]
        /\ \A j \in Level : j < i =>
              /\ \A m \in held[c][j] : Ipl[m] < i
              /\ spc[c][j] \in Entering => Ipl[mtx[c][j]] < i

\* The local copies of the saved level, where they will be used.
Saved(c, i) ==
    /\ spc[c][i] \in {"enter", "try"} /\ Clear(c, i) => s[c][i] = i
    /\ spc[c][i] \in {"enter_save", "try_save"} =>
          First(c, i) /\ held[c][i] = {} /\ s[c][i] = i
    /\ First(c, i) /\ spc[c][i] \notin {"enter_save", "try_save"} => oldspl[c] = i
    /\ spc[c][i] = "count_up" /\ First(c, i) => s[c][i] = i
    /\ spc[c][i] = "splx" => Clear(c, i) /\ s[c][i] = i

\* The locks are with those that hold them.
Locked == \A m \in Mutexes, c \in Cpu :
              lock[m] = c <=> \E i \in Level : m \in held[c][i]

Local(c) == /\ count[c] = -Cardinality(Items(held[c], spc[c]))
            /\ Nested(c) /\ Levels(c) /\ Above(c)
            /\ \A i \in Level : Saved(c, i)

SpinInv == Types /\ Locked /\ \A c \in Cpu : Local(c)

-----------------------------------------------------------------------------
(* Lemmas                                                                  *)

\* Levels and mutexes are numbers.
LEMMA Numbers ==
    /\ Level \subseteq Int /\ 0 \in Level /\ Mutexes \subseteq Int
    /\ \A m \in Mutexes : Ipl[m] \in Int
    /\ NoCpu \notin Cpu
  BY SpinMutexAssumption DEF Level, Mutexes

\* A set of numbers has at most one greatest element.
LEMMA Greatest ==
    ASSUME NEW S \in SUBSET Int, NEW x \in S, \A y \in S : y <= x
    PROVE  (CHOOSE i \in S : \A j \in S : j <= i) = x
  <1> DEFINE g == CHOOSE i \in S : \A j \in S : j <= i
  <1>1. g \in S /\ \A j \in S : j <= g  BY Zenon
  <1> HIDE DEF g
  <1>2. g \in Int /\ x \in Int /\ g <= x /\ x <= g  BY <1>1, Zenon
  <1>3. g = x  BY <1>2
  <1> QED  BY <1>3, Zenon DEF g

\* The context that runs on a CPU is active and above all the others.
LEMMA Runs ==
    ASSUME Types, NEW c \in Cpu, Nested(c)
    PROVE  /\ Running(c) \in active[c] /\ Running(c) \in Level
           /\ \A j \in active[c] : j \in Level /\ j <= Running(c)
  <1>1. \E x \in active[c] : \A j \in active[c] : j <= x  BY Zenon DEF Nested
  <1>2. active[c] \in SUBSET Level  BY Zenon DEF Types
  <1>3. Running(c) \in active[c] /\ \A j \in active[c] : j <= Running(c)
    BY <1>1, Zenon DEF Running
  <1> QED  BY <1>2, <1>3, Zenon

\* The counted items are finitely many, and there are none exactly when no
\* context has one.
LEMMA ItemsFinite ==
    ASSUME NEW h, NEW p
    PROVE  IsFiniteSet(Items(h, p)) /\ Cardinality(Items(h, p)) \in Nat
  <1>1. IsFiniteSet(Level) /\ IsFiniteSet(0 .. MaxMutex)  BY FS_Interval,
    SpinMutexAssumption DEF Level
  <1>2. IsFiniteSet(Level \X (0 .. MaxMutex))  BY <1>1, FS_Product, Zenon
  <1>3. Items(h, p) \in SUBSET (Level \X (0 .. MaxMutex))  BY Zenon DEF Items
  <1>4. IsFiniteSet(Items(h, p))  BY <1>2, <1>3, FS_Subset, Zenon
  <1> QED  BY <1>4, FS_CardinalityType, Zenon

\* No item is counted exactly where no context holds or enters a mutex.
LEMMA NoItems ==
    ASSUME NEW h \in [Level -> SUBSET Mutexes], NEW p
    PROVE  Items(h, p) = {} <=> \A j \in Level : h[j] = {} /\ p[j] \notin Counted
  <1>1. ASSUME Items(h, p) = {}, NEW j \in Level
        PROVE  h[j] = {} /\ p[j] \notin Counted
    <2>1. p[j] \notin Counted
      <3>1. <<j, 0>> \in Level \X (0 .. MaxMutex)  BY SpinMutexAssumption
      <3>2. <<j, 0>> \notin Items(h, p)  BY <1>1, Zenon
      <3> QED  BY <3>1, <3>2, Zenon DEF Items
    <2>2. ASSUME NEW m \in Mutexes  PROVE m \notin h[j]
      <3>1. <<j, m>> \in Level \X (0 .. MaxMutex)  BY DEF Mutexes
      <3>2. <<j, m>> \notin Items(h, p)  BY <1>1, Zenon
      <3> QED  BY <3>1, <3>2, Zenon DEF Items
    <2>3. h[j] \in SUBSET Mutexes  OBVIOUS
    <2> QED  BY <2>1, <2>2, Zenon
  <1>2. ASSUME \A j \in Level : h[j] = {} /\ p[j] \notin Counted
        PROVE  Items(h, p) = {}
    BY <1>2, Zenon DEF Items
  <1> QED  BY <1>1, <1>2, Zenon

\* One item more when a context begins to be counted.
LEMMA OneMore ==
    ASSUME NEW h \in [Level -> SUBSET Mutexes],
           NEW p \in [Level -> Labels], NEW q \in [Level -> Labels], NEW i \in Level,
           p[i] \notin Counted, q[i] \in Counted,
           \A k \in Level : k # i => q[k] = p[k]
    PROVE  Cardinality(Items(h, q)) = Cardinality(Items(h, p)) + 1
  <1>1. <<i, 0>> \in Level \X (0 .. MaxMutex)  BY SpinMutexAssumption
  <1>2. 0 \notin h[i]
    <2>1. h[i] \in SUBSET Mutexes  OBVIOUS
    <2> QED  BY DEF Mutexes
  <1>3. <<i, 0>> \notin Items(h, p)  BY <1>2, Zenon DEF Items
  <1>4. Items(h, q) = Items(h, p) \cup {<<i, 0>>}
    <2>1. ASSUME NEW k \in Level, NEW m \in 0 .. MaxMutex
          PROVE  <<k, m>> \in Items(h, q) <=> <<k, m>> \in Items(h, p) \cup {<<i, 0>>}
      <3>1. <<k, m>> \in Level \X (0 .. MaxMutex)  OBVIOUS
      <3>2. <<k, m>> \in Items(h, q) <=> m \in h[k] \/ (m = 0 /\ q[k] \in Counted)
        BY Zenon DEF Items
      <3>3. <<k, m>> \in Items(h, p) <=> m \in h[k] \/ (m = 0 /\ p[k] \in Counted)
        BY Zenon DEF Items
      <3> HIDE DEF Level
      <3>4. <<k, m>> = <<i, 0>> <=> k = i /\ m = 0  OBVIOUS
      <3> QED  BY <3>2, <3>3, Zenon
    <2>2. Items(h, q) \subseteq Level \X (0 .. MaxMutex)
          /\ Items(h, p) \cup {<<i, 0>>} \subseteq Level \X (0 .. MaxMutex)
      BY <1>1, Zenon DEF Items
    <2>3. \A x \in Level \X (0 .. MaxMutex) :
             x \in Items(h, q) <=> x \in Items(h, p) \cup {<<i, 0>>}
      BY <2>1
    <2> QED  BY <2>2, <2>3, Zenon
  <1> QED  BY <1>3, <1>4, ItemsFinite, FS_AddElement, Zenon

\* As many items when the context's own becomes a mutex.
LEMMA AsMany ==
    ASSUME NEW h \in [Level -> SUBSET Mutexes], NEW g \in [Level -> SUBSET Mutexes],
           NEW p \in [Level -> Labels], NEW q \in [Level -> Labels],
           NEW i \in Level, NEW m \in Mutexes,
           m \notin h[i], m \in g[i], h[i] = g[i] \ {m},
           p[i] \in Counted, q[i] \notin Counted,
           \A k \in Level : k # i => q[k] = p[k],
           \A k \in Level : k # i => g[k] = h[k]
    PROVE  Cardinality(Items(g, q)) = Cardinality(Items(h, p))
  <1>1. <<i, 0>> \in Level \X (0 .. MaxMutex) /\ <<i, m>> \in Level \X (0 .. MaxMutex)
    BY SpinMutexAssumption DEF Mutexes
  <1>2. 0 \notin h[i] /\ 0 \notin g[i] /\ m # 0
    <2>1. h[i] \in SUBSET Mutexes /\ g[i] \in SUBSET Mutexes  OBVIOUS
    <2> QED  BY <2>1 DEF Mutexes
  <1>3. <<i, m>> \notin Items(h, p)  BY <1>2, Zenon DEF Items
  <1>4. <<i, 0>> \in Items(h, p)  BY <1>1, Zenon DEF Items
  <1> DEFINE R == Items(h, p) \ {<<i, 0>>}
  <1>5. Items(g, q) = R \cup {<<i, m>>}
    <2>1. ASSUME NEW k \in Level, NEW n \in 0 .. MaxMutex
          PROVE  <<k, n>> \in Items(g, q) <=> <<k, n>> \in R \cup {<<i, m>>}
      <3>1. <<k, n>> \in Level \X (0 .. MaxMutex)  OBVIOUS
      <3>2. <<k, n>> \in Items(g, q) <=> n \in g[k] \/ (n = 0 /\ q[k] \in Counted)
        BY Zenon DEF Items
      <3>3. <<k, n>> \in Items(h, p) <=> n \in h[k] \/ (n = 0 /\ p[k] \in Counted)
        BY Zenon DEF Items
      <3> HIDE DEF Level
      <3>4. (<<k, n>> = <<i, 0>> <=> k = i /\ n = 0) /\ (<<k, n>> = <<i, m>> <=> k = i /\ n = m)
        OBVIOUS
      <3>5. CASE k = i
        <4>1. <<k, n>> \in Items(g, q) <=> n \in h[i] \/ n = m  BY <3>2, <3>5,
          Zenon
        <4>2. <<k, n>> \in R \cup {<<i, m>>} <=> n \in h[i] \/ n = m
          BY <3>3, <3>5, <1>2, Zenon
        <4> QED  BY <4>1, <4>2, Zenon
      <3>6. CASE k # i  BY <3>2, <3>3, <3>6, Zenon
      <3> QED  BY <3>5, <3>6, Zenon
    <2>2. Items(g, q) \subseteq Level \X (0 .. MaxMutex)
          /\ R \cup {<<i, m>>} \subseteq Level \X (0 .. MaxMutex)
      BY <1>1, Zenon DEF Items
    <2>3. \A x \in Level \X (0 .. MaxMutex) :
             x \in Items(g, q) <=> x \in R \cup {<<i, m>>}
      BY <2>1
    <2> QED  BY <2>2, <2>3, Zenon
  <1>6. IsFiniteSet(R) /\ Cardinality(R) = Cardinality(Items(h, p)) - 1
    BY <1>4, ItemsFinite, FS_RemoveElement, Zenon
  <1>7. <<i, m>> \notin R  BY <1>3, Zenon
  <1> HIDE DEF R
  <1>8. Cardinality(R \cup {<<i, m>>}) = Cardinality(R) + 1  BY <1>6, <1>7,
    FS_AddElement, Zenon
  <1> QED  BY <1>5, <1>6, <1>8, ItemsFinite

\* The same items when every context is counted as before.
LEMMA SameItems ==
    ASSUME NEW h, NEW p, NEW q, \A k \in Level : q[k] \in Counted <=> p[k] \in Counted
    PROVE  Items(h, q) = Items(h, p)
  BY Zenon DEF Items

\* ci_mtx_count is zero exactly when nothing is counted for any context, that
\* is, for the one that runs and those it has interrupted.
LEMMA CountIsZero ==
    ASSUME Types, NEW c \in Cpu, Local(c)
    PROVE  count[c] = 0 <=> Clear(c, Running(c))
  <1> DEFINE I == Items(held[c], spc[c])
  <1>1. Cardinality(I) = 0 <=> I = {}  BY ItemsFinite, FS_EmptySet, Zenon
  <1>2. count[c] = -Cardinality(I)  BY Zenon DEF Local
  <1>3. Cardinality(I) \in Nat  BY ItemsFinite, Zenon
  <1>4. count[c] = 0 <=> I = {}
    <2> HIDE DEF I
    <2> QED  BY <1>1, <1>2, <1>3
  <1>5. /\ Running(c) \in Level
        /\ \A j \in Level : j > Running(c) => Idle(c, j)
    <2>1. Nested(c)  BY Zenon DEF Local
    <2>2. \A j \in Level \ active[c] : Idle(c, j)
      BY <2>1, Zenon DEF Nested, Idle, Counted
    <2> QED  BY <2>1, <2>2, Runs DEF Level
  <1>6. I = {} <=> \A j \in Level : Idle(c, j)
    <2>1. held[c] \in [Level -> SUBSET Mutexes]  BY Zenon DEF Types
    <2> QED  BY <2>1, NoItems, Zenon DEF Idle
  <1>7. (\A j \in Level : Idle(c, j)) <=> Clear(c, Running(c))
    BY <1>5 DEF Clear, Level
  <1> QED  BY <1>4, <1>6, <1>7, Zenon

\* A CPU to which nothing happens keeps its part of the invariant.
LEMMA Others ==
    ASSUME NEW d \in Cpu, Local(d),
           spl'[d] = spl[d], count'[d] = count[d], oldspl'[d] = oldspl[d],
           active'[d] = active[d], spc'[d] = spc[d], mtx'[d] = mtx[d],
           s'[d] = s[d], held'[d] = held[d], entry'[d] = entry[d]
    PROVE  Local(d)'
  <1>1. Items(held[d], spc[d])' = Items(held[d], spc[d])  BY Zenon DEF Items
  <1>2. Running(d)' = Running(d)  BY Zenon DEF Running
  <1>3. \A i \in Level : /\ Clear(d, i)' = Clear(d, i)
                         /\ First(d, i)' = First(d, i)
    BY Zenon DEF Clear, First, Idle
  <1>4. Nested(d)'  BY Zenon DEF Local, Nested
  <1>5. Above(d)'  BY Zenon DEF Local, Above
  <1>6. \A i \in Level : Saved(d, i)'
    BY <1>3, Zenon DEF Local, Saved
  <1>7. \A i, v : Suits(d, i, v)' = Suits(d, i, v)
    BY Zenon DEF Suits, Clear, Idle
  <1>8. Levels(d)'  BY <1>2, <1>7 DEF Local, Levels
  <1> QED  BY <1>4, <1>5, <1>6, <1>8, Zenon DEF Local

\* When the context that runs does something, the contexts it has interrupted
\* are not concerned: what remains to be shown is about the one that runs.
LEMMA OwnStep ==
    ASSUME Types, Types', NEW c \in Cpu, Local(c), NEW i \in Level, i = Running(c),
           active'[c] = active[c], entry'[c] = entry[c],
           \A k \in Level : k # i => /\ spc'[c][k] = spc[c][k]
                                     /\ mtx'[c][k] = mtx[c][k]
                                     /\ s'[c][k] = s[c][k]
                                     /\ held'[c][k] = held[c][k],
           oldspl'[c] = oldspl[c] \/ First(c, i),
           count'[c] = -Cardinality(Items(held'[c], spc'[c])),
           Suits(c, i, spl[c])', Saved(c, i)',
           \A m \in held'[c][i] : Ipl[m] >= i,
           spc'[c][i] \in Entering =>
              /\ mtx'[c][i] \in Mutexes /\ Ipl[mtx'[c][i]] >= i
              /\ \A m \in held'[c][i] : m < mtx'[c][i]
    PROVE  Local(c)'
  <1>1. /\ i \in active[c]
        /\ \A j \in active[c] : j \in Level /\ j <= i
    BY Runs, Zenon DEF Local
  <1>2. Running(c)' = i  BY Zenon DEF Running
  <1>3. Nested(c)'
    <2>1. \A k \in Level \ active[c] : k # i  BY <1>1, Zenon
    <2> QED  BY <2>1, Zenon DEF Local, Nested
  <1>4. \A k \in Level : k # i => Idle(c, k)' = Idle(c, k)  BY Zenon DEF Idle
  <1>5. \A k \in Level : k < i => /\ Clear(c, k)' = Clear(c, k)
                                  /\ First(c, k)' = First(c, k)
    BY <1>4, Numbers DEF Clear, First
  <1>6. ASSUME NEW k \in Level, k < i, NEW v  PROVE Suits(c, k, v)' = Suits(c, k, v)
    <2>1. \A j \in Level : j <= k => held'[c][j] = held[c][j]  BY <1>6, Numbers
    <2>2. spc'[c][k] = spc[c][k] /\ mtx'[c][k] = mtx[c][k]  BY <1>6, Numbers
    <2> QED  BY <2>1, <2>2, <1>5, <1>6, Zenon DEF Suits
  <1>7. Levels(c)'
    <2>1. ASSUME NEW k \in active[c], NEW j \in active[c], k < j,
                 \A n \in active[c] : n <= k \/ n >= j
          PROVE  Suits(c, k, entry[c][j])'
      <3>1. k \in Level /\ k < i  BY <1>1, <2>1 DEF Level
      <3>2. Suits(c, k, entry[c][j])  BY <2>1, Zenon DEF Local, Levels
      <3>3. Suits(c, k, entry'[c][j])  BY <3>2, Zenon
      <3>4. Suits(c, k, entry[c][j])' <=> Suits(c, k, entry'[c][j])
        <4>1. \A n \in Level : n <= k => held'[c][n] = held[c][n]  BY <3>1, Numbers
        <4>2. spc'[c][k] = spc[c][k] /\ mtx'[c][k] = mtx[c][k]  BY <3>1, Numbers
        <4> QED  BY <4>1, <4>2, <3>1, <1>5, Zenon DEF Suits
      <3> QED  BY <3>3, <3>4, Zenon
    <2> QED  BY <2>1, <1>2, Zenon DEF Levels
  <1>8. Above(c)'
    <2>1. ASSUME NEW n \in active[c]
          PROVE  /\ \A m \in held'[c][n] : Ipl[m] >= n
                 /\ spc'[c][n] \in Entering =>
                       /\ mtx'[c][n] \in Mutexes /\ Ipl[mtx'[c][n]] >= n
                       /\ \A m \in held'[c][n] : m < mtx'[c][n]
      <3>1. CASE n = i  BY <3>1, Zenon
      <3>2. CASE n # i  BY <1>1, Zenon DEF Local, Above
      <3> QED  BY <3>2, Zenon
    <2>2. ASSUME NEW n \in active[c], NEW j \in Level, j < n
          PROVE  /\ \A m \in held'[c][j] : Ipl[m] < n
                 /\ spc'[c][j] \in Entering => Ipl[mtx'[c][j]] < n
      <3>1. j # i  BY <1>1, <2>2 DEF Level
      <3> QED  BY <3>1, <2>2, Zenon DEF Local, Above
    <2> QED  BY <2>1, <2>2, Zenon DEF Above
  <1>9. ASSUME NEW k \in Level, k # i  PROVE Saved(c, k)'
    <2>1. CASE k < i
      <3>1. Saved(c, k)  BY Zenon DEF Local
      <3>2. First(c, k) => ~First(c, i)  BY <2>1, Zenon DEF First
      <3>3. spc'[c][k] = spc[c][k] /\ s'[c][k] = s[c][k] /\ held'[c][k] = held[c][k]
        BY <1>9, Zenon
      <3> QED  BY <3>1, <3>2, <1>5, <2>1, Zenon DEF Saved
    <2>2. CASE k > i
      <3>1. k \notin active[c]  BY <1>1, <2>2, Numbers
      <3>2. spc'[c][k] = "run" /\ held'[c][k] = {}
        BY <3>1, <1>9, Zenon DEF Local, Nested
      <3>3. ~First(c, k)'  BY <3>2, Zenon DEF First, Idle, Counted
      <3> QED  BY <3>2, <3>3, Zenon DEF Saved
    <2> QED  BY <2>1, <2>2, Numbers
  <1> QED  BY <1>3, <1>7, <1>8, <1>9, Zenon DEF Local

\* The parts make the whole.
LEMMA Assemble ==
    ASSUME SpinInv, Types', Locked', NEW c \in Cpu, Local(c)',
           \A d \in Cpu : d # c =>
              /\ spl'[d] = spl[d] /\ count'[d] = count[d] /\ oldspl'[d] = oldspl[d]
              /\ active'[d] = active[d] /\ spc'[d] = spc[d] /\ mtx'[d] = mtx[d]
              /\ s'[d] = s[d] /\ held'[d] = held[d] /\ entry'[d] = entry[d]
    PROVE  SpinInv'
  <1>1. ASSUME NEW d \in Cpu  PROVE Local(d)'
    <2>1. CASE d = c  BY <2>1, Zenon
    <2>2. CASE d # c
      <3>1. Local(d)  BY Zenon DEF SpinInv
      <3> QED  BY <3>1, Others, Zenon
    <2> QED  BY <2>2, Zenon
  <1> QED  BY <1>1, Zenon DEF SpinInv

\* Every step keeps the types.
LEMMA TypesHold ==
    ASSUME SpinInv, SpinNext
    PROVE  Types'
  <1> Types  BY Zenon DEF SpinInv
  <1> USE DEF Types, At, SpinGoto
  <1>1. PICK c \in Cpu, i \in Level :
           \/ \E how \in {"enter", "try"} :
                 \/ \E m \in Mutexes : Raise(c, i, m, how)
                 \/ CountDown(c, i, how) \/ Save(c, i, how) \/ TryLock(c, i, how)
           \/ TryFails(c, i)
           \/ \E m \in Mutexes : Unlock(c, i, m)
           \/ LoadSpl(c, i) \/ CountUp(c, i) \/ Splx(c, i)
           \/ Interrupted(c, i) \/ Returns(c, i)
    BY Zenon DEF SpinNext
  <1>2. ASSUME NEW p \in Labels, SpinGoto(c, i, p)  PROVE spc' \in [Cpu -> [Level -> Labels]]
    BY <1>2, Zenon
  <1>3. ASSUME NEW v \in Level, s' = [s EXCEPT ![c][i] = v]
        PROVE  s' \in [Cpu -> [Level -> Level]]
    BY <1>3, Zenon
  <1>4. spl[c] \in Level /\ oldspl[c] \in Level /\ s[c][i] \in Level /\ 0 \in Level
        /\ entry[c][i] \in Level /\ count[c] \in Int
    <2>1. s[c] \in [Level -> Level] /\ entry[c] \in [Level -> Level]  OBVIOUS
    <2>2. spl[c] \in Level /\ oldspl[c] \in Level /\ count[c] \in Int  OBVIOUS
    <2>3. s[c][i] \in Level /\ entry[c][i] \in Level  BY <2>1, Zenon
    <2>4. 0 \in Level  BY Numbers, Zenon
    <2> HIDE DEF Level
    <2> QED  BY <2>2, <2>4
  <1>5. ASSUME NEW how \in {"enter", "try"}
        PROVE  {how, Saving[how], Locking[how], "run", "restore", "count_up", "splx"}
                 \subseteq Labels
    <2>1. CASE how = "enter"  BY DEF Saving, Locking, Labels
    <2>2. CASE how = "try"  BY DEF Saving, Locking, Labels
    <2> QED  BY <2>1, <2>2, Zenon
  <1>6. ASSUME NEW how \in {"enter", "try"}, NEW m \in Mutexes, Raise(c, i, m, how)
        PROVE  Types'
    <2>1. spc' \in [Cpu -> [Level -> Labels]]  BY <1>5, <1>6, Zenon DEF Raise
    <2>2. s' \in [Cpu -> [Level -> Level]]  BY <1>6, Zenon DEF Raise
    <2>3. Raised(spl[c], Ipl[m]) \in Level  BY SpinMutexAssumption DEF Raised,
      Level
    <2>4. spl' \in [Cpu -> Level]  BY <1>6, <2>3, Zenon DEF Raise
    <2>5. mtx' \in [Cpu -> [Level -> Mutexes \cup {0}]]  BY <1>6, Zenon
      DEF Raise
    <2> QED  BY <1>6, <2>1, <2>4, Zenon DEF Raise
  <1>7. ASSUME NEW how \in {"enter", "try"}, CountDown(c, i, how)  PROVE Types'
    <2>1. spc' \in [Cpu -> [Level -> Labels]]  BY <1>2, <1>5, <1>7, Zenon
      DEF CountDown
    <2>2. s' \in [Cpu -> [Level -> Level]]  BY <1>3, <1>4, <1>7, Zenon
      DEF CountDown
    <2>3. count' \in [Cpu -> Int]
      <3>1. count' = [count EXCEPT ![c] = count[c] - 1]  BY <1>7, Zenon
        DEF CountDown
      <3>2. count[c] - 1 \in Int  BY <1>4
      <3>3. count \in [Cpu -> Int]  OBVIOUS
      <3> HIDE DEF Types
      <3> QED  BY <3>1, <3>3
    <2> QED  BY <1>7, <2>1, <2>2 DEF CountDown
  <1>8. ASSUME NEW how \in {"enter", "try"}, Save(c, i, how)  PROVE Types'
    <2>1. spc' \in [Cpu -> [Level -> Labels]]  BY <1>5, <1>8, Zenon DEF Save
    <2>2. s' \in [Cpu -> [Level -> Level]]  BY <1>4, <1>8, Zenon DEF Save
    <2>3. oldspl' \in [Cpu -> Level]  BY <1>8 DEF Save
    <2> QED  BY <1>8, <2>1, <2>2 DEF Save
  <1>9. ASSUME NEW how \in {"enter", "try"}, TryLock(c, i, how)  PROVE Types'
    <2>1. spc' \in [Cpu -> [Level -> Labels]]  BY <1>5, <1>9, Zenon
      DEF TryLock
    <2>2. mtx' \in [Cpu -> [Level -> Mutexes \cup {0}]]  BY <1>9, Zenon
      DEF TryLock
    <2>3. lock' \in [Mutexes -> Cpu \cup {NoCpu}]  BY <1>9, Zenon DEF TryLock
    <2>4. held' \in [Cpu -> [Level -> SUBSET Mutexes]]
      <3>1. mtx[c][i] \in Mutexes
        <4>1. Locking[how] \in Entering  BY DEF Locking, Entering
        <4>2. Local(c)  BY Zenon DEF SpinInv
        <4>3. i \in active[c]  BY <4>2, <1>9, Runs, Zenon DEF TryLock, Local
        <4>4. spc[c][i] = Locking[how]  BY <1>9, Zenon DEF TryLock
        <4> QED  BY <4>1, <4>2, <4>3, <4>4, Zenon DEF Local, Above
      <3>2. held' = [held EXCEPT ![c][i] = held[c][i] \cup {mtx[c][i]}]
        BY <1>9, Zenon DEF TryLock
      <3>3. held[c] \in [Level -> SUBSET Mutexes]  OBVIOUS
      <3>4. held[c][i] \cup {mtx[c][i]} \in SUBSET Mutexes  BY <3>1
      <3> QED  BY <3>2, <3>4, Zenon
    <2> QED  BY <1>9, <2>1, <2>4, Zenon DEF TryLock
  <1>10. CASE TryFails(c, i)
    <2>1. spc' \in [Cpu -> [Level -> Labels]]  BY <1>5, <1>10, Zenon
      DEF TryFails
    <2>2. mtx' \in [Cpu -> [Level -> Mutexes \cup {0}]]  BY <1>10, Zenon
      DEF TryFails
    <2> QED  BY <1>10, <2>1, Zenon DEF TryFails
  <1>11. ASSUME NEW m \in Mutexes, Unlock(c, i, m)  PROVE Types'
    <2>1. spc' \in [Cpu -> [Level -> Labels]]  BY <1>5, <1>11, Zenon
      DEF Unlock
    <2>2. lock' \in [Mutexes -> Cpu \cup {NoCpu}]  BY <1>11, Zenon DEF Unlock
    <2>3. held' \in [Cpu -> [Level -> SUBSET Mutexes]]  BY <1>11 DEF Unlock
    <2> QED  BY <1>11, <2>1 DEF Unlock
  <1>12. CASE LoadSpl(c, i)
    <2>1. spc' \in [Cpu -> [Level -> Labels]]  BY <1>5, <1>12, Zenon
      DEF LoadSpl
    <2>2. s' \in [Cpu -> [Level -> Level]]  BY <1>12, Zenon DEF LoadSpl
    <2> QED  BY <1>12, <2>1, Zenon DEF LoadSpl
  <1>13. CASE CountUp(c, i)
    <2>1. spc' \in [Cpu -> [Level -> Labels]]  BY <1>2, <1>5, <1>13, Zenon
      DEF CountUp
    <2>2. s' \in [Cpu -> [Level -> Level]]  BY <1>3, <1>4, <1>13, Zenon
      DEF CountUp
    <2>3. count' \in [Cpu -> Int]
      <3>1. count' = [count EXCEPT ![c] = count[c] + 1]  BY <1>13, Zenon
        DEF CountUp
      <3>2. count[c] + 1 \in Int  BY <1>4
      <3>3. count \in [Cpu -> Int]  OBVIOUS
      <3> HIDE DEF Types
      <3> QED  BY <3>1, <3>3
    <2> QED  BY <1>13, <2>1, <2>2 DEF CountUp
  <1>14. CASE Splx(c, i)
    <2>1. spc' \in [Cpu -> [Level -> Labels]]  BY <1>5, <1>14, Zenon DEF Splx
    <2>2. s' \in [Cpu -> [Level -> Level]]  BY <1>4, <1>14, Zenon DEF Splx
    <2>3. spl' \in [Cpu -> Level]  BY <1>14 DEF Splx
    <2> QED  BY <1>14, <2>1, <2>2 DEF Splx
  <1>15. CASE Interrupted(c, i)  BY <1>15, Zenon DEF Interrupted
  <1>16. CASE Returns(c, i)  BY <1>16, <1>4, Zenon DEF Returns
  <1> QED  BY <1>1, <1>6, <1>7, <1>8, <1>9, <1>10, <1>11, <1>12, <1>13, <1>14,
    <1>15, <1>16, Zenon

\* What the context that runs may assume of itself.
Mine(c, i) == /\ Types /\ Locked /\ Local(c)
              /\ i \in active[c] /\ \A j \in active[c] : j \in Level /\ j <= i
              /\ Suits(c, i, spl[c]) /\ Saved(c, i)
              /\ \A j \in Level : \A m \in held[c][j] : m \in Mutexes
              /\ \A m \in held[c][i] : Ipl[m] >= i
              /\ spc[c][i] \in Entering =>
                    /\ mtx[c][i] \in Mutexes /\ Ipl[mtx[c][i]] >= i
                    /\ \A m \in held[c][i] : m < mtx[c][i]
              /\ spl[c] \in Level /\ oldspl[c] \in Level /\ count[c] \in Int
              /\ s[c][i] \in Level

\* The context that runs may assume it.
LEMMA Own ==
    ASSUME SpinInv, NEW c \in Cpu, NEW i \in Level, i = Running(c)
    PROVE  Mine(c, i)
  <1>1. Types /\ Locked /\ Local(c)  BY Zenon DEF SpinInv
  <1>2. i \in active[c] /\ \A j \in active[c] : j \in Level /\ j <= i
    BY <1>1, Runs, Zenon DEF Local
  <1>3. Suits(c, i, spl[c]) /\ Saved(c, i)  BY <1>1, Zenon DEF Local, Levels
  <1>4. \A j \in Level : \A m \in held[c][j] : m \in Mutexes
    <2>1. held[c] \in [Level -> SUBSET Mutexes]  BY <1>1, Zenon DEF Types
    <2> QED  BY <2>1, Zenon
  <1>5. /\ \A m \in held[c][i] : Ipl[m] >= i
        /\ spc[c][i] \in Entering =>
              /\ mtx[c][i] \in Mutexes /\ Ipl[mtx[c][i]] >= i
              /\ \A m \in held[c][i] : m < mtx[c][i]
    BY <1>1, <1>2, Zenon DEF Local, Above
  <1>6. spl[c] \in Level /\ oldspl[c] \in Level /\ count[c] \in Int  BY <1>1,
    Zenon DEF Types
  <1>7. s[c][i] \in Level
    <2>1. s[c] \in [Level -> Level]  BY <1>1, Zenon DEF Types
    <2> QED  BY <2>1, Zenon
  <1> QED  BY <1>1, <1>2, <1>3, <1>4, <1>5, <1>6, <1>7, Zenon DEF Mine

\* Raise: the level goes up, and when nothing is counted the level that was
\* is the context's own.
LEMMA RaiseKeeps ==
    ASSUME SpinInv, Types', NEW c \in Cpu, NEW i \in Level, NEW m \in Mutexes,
           NEW how \in {"enter", "try"}, Raise(c, i, m, how)
    PROVE  SpinInv'
  <1> USE DEF At, SpinGoto
  <1>1. i = Running(c) /\ spc[c][i] = "run"  BY Zenon DEF Raise
  <1>0. Mine(c, i)  BY <1>1, Own, Zenon
  <1>a. Types /\ Local(c)  BY <1>0, Zenon DEF Mine
  <1>b. Suits(c, i, spl[c]) /\ Saved(c, i)  BY <1>0, Zenon DEF Mine
  <1>c. Locked /\ \A h \in held[c][i] : Ipl[h] >= i  BY <1>0, Zenon DEF Mine
  <1>2. /\ spc'[c][i] = how /\ mtx'[c][i] = m /\ s'[c][i] = spl[c]
        /\ spl'[c] = Raised(spl[c], Ipl[m]) /\ held' = held /\ lock' = lock
        /\ count' = count /\ oldspl' = oldspl /\ active' = active /\ entry' = entry
    BY DEF Raise, Types
  <1>3. \A k \in Level : k # i => /\ spc'[c][k] = spc[c][k]
                                  /\ mtx'[c][k] = mtx[c][k]
                                  /\ s'[c][k] = s[c][k]
    BY DEF Raise
  <1>4. \A d \in Cpu : d # c => /\ spl'[d] = spl[d] /\ spc'[d] = spc[d]
                                /\ mtx'[d] = mtx[d] /\ s'[d] = s[d]
    BY DEF Raise
  <1>5. \A k \in Level : Idle(c, k)' = Idle(c, k)
    BY <1>1, <1>2, <1>3, Zenon DEF Idle, Counted
  <1>6. Clear(c, i)' = Clear(c, i) /\ First(c, i)' = First(c, i)
    BY <1>5, Zenon DEF Clear, First
  <1>7. Items(held'[c], spc'[c]) = Items(held[c], spc[c])
    <2>1. \A k \in Level : spc'[c][k] \in Counted <=> spc[c][k] \in Counted
      BY <1>1, <1>2, <1>3, Zenon DEF Counted
    <2> QED  BY <1>2, <2>1, SameItems
  <1>8. Suits(c, i, spl[c])'
    <2>0. spl[c] \in Level  BY <1>0, Zenon DEF Mine
    <2>1. spl[c] \in Int /\ Ipl[m] \in Int /\ i \in Int  BY <2>0, Numbers,
      Zenon
    <2>2. spl'[c] \in Int /\ spl'[c] >= spl[c] /\ spl'[c] >= Ipl[m]
      BY <1>2, <2>1 DEF Raised
    <2>3. ASSUME NEW v \in Int, spl[c] >= v  PROVE spl'[c] >= v
      BY <2>1, <2>2, <2>3, <1>1
    <2>4. \A j \in Level : j <= i => \A n \in held[c][j] : spl[c] >= Ipl[n]
      BY <1>b, Zenon DEF Suits
    <2>5. \A j \in Level : j <= i => \A n \in held[c][j] : spl'[c] >= Ipl[n]
      BY <2>3, <2>4, <1>0, Numbers, Zenon DEF Mine
    <2>6. spl'[c] >= i  BY <2>1, <2>3, <1>b, Zenon DEF Suits
    <2> QED  BY <1>2, <2>2, <2>5, <2>6, Zenon DEF Suits
  <1>9. Saved(c, i)'
    BY <1>1, <1>2, <1>6, <1>b, Zenon DEF Saved, Suits
  <1>10. Ipl[m] >= i /\ \A h \in held[c][i] : h < m  BY Zenon DEF Raise
  <1>d. count'[c] = -Cardinality(Items(held'[c], spc'[c]))  BY <1>2, <1>7,
    <1>a, Zenon DEF Local
  <1>11. Local(c)'
    BY <1>2, <1>3, <1>d, <1>8, <1>9, <1>10, <1>a, <1>c, <1>1, OwnStep, Zenon
  <1>12. Locked'  BY <1>2, <1>c, Zenon DEF Locked
  <1> QED  BY <1>2, <1>4, <1>11, <1>12, Assemble, Zenon

\* CountDown: the context that finds the count at zero is the first.
LEMMA CountDownKeeps ==
    ASSUME SpinInv, Types', NEW c \in Cpu, NEW i \in Level,
           NEW how \in {"enter", "try"}, CountDown(c, i, how)
    PROVE  SpinInv'
  <1> USE DEF At, SpinGoto
  <1>1. i = Running(c) /\ spc[c][i] = how  BY Zenon DEF CountDown
  <1>0. Mine(c, i)  BY <1>1, Own, Zenon
  <1>a. Types /\ Local(c)  BY <1>0, Zenon DEF Mine
  <1>b. Suits(c, i, spl[c]) /\ Saved(c, i)  BY <1>0, Zenon DEF Mine
  <1>c. Locked /\ \A h \in held[c][i] : Ipl[h] >= i  BY <1>0, Zenon DEF Mine
  <1> DEFINE new == IF count[c] = 0 THEN Saving[how] ELSE Locking[how]
  <1>2. /\ spc'[c][i] = new /\ count'[c] = count[c] - 1
        /\ count[c] = 0 => s'[c][i] = s[c][i]
        /\ held' = held /\ lock' = lock /\ mtx' = mtx /\ spl' = spl
        /\ oldspl' = oldspl /\ active' = active /\ entry' = entry
    BY <1>1, <1>a DEF CountDown, Types
  <1>3. \A k \in Level : k # i => spc'[c][k] = spc[c][k] /\ s'[c][k] = s[c][k]
    BY DEF CountDown, Types
  <1>4. \A d \in Cpu : d # c => /\ spc'[d] = spc[d] /\ s'[d] = s[d]
                                /\ count'[d] = count[d]
    BY DEF CountDown, Types
  <1>5. new \in Counted /\ new \in Entering /\ new # "run" /\ new # "count_up"
        /\ new # "splx" /\ new \notin {"enter", "try"} /\ how \notin Counted
        /\ (new \in {"enter_save", "try_save"} <=> count[c] = 0) /\ how \in Entering
    <2>1. CASE how = "enter"  BY DEF Saving, Locking, Counted, Entering
    <2>2. CASE how = "try"  BY DEF Saving, Locking, Counted, Entering
    <2> QED  BY <2>1, <2>2, Zenon
  <1> HIDE DEF new
  <1>6. \A k \in Level : k # i => Idle(c, k)' = Idle(c, k)
    BY <1>2, <1>3, Zenon DEF Idle
  <1>7. ~Idle(c, i)'  BY <1>2, <1>5, Zenon DEF Idle
  <1>8. Cardinality(Items(held'[c], spc'[c])) = Cardinality(Items(held[c], spc[c])) + 1
    <2>1. /\ held[c] \in [Level -> SUBSET Mutexes]
          /\ spc[c] \in [Level -> Labels] /\ spc'[c] \in [Level -> Labels]
      BY <1>a, Zenon DEF Types
    <2>2. spc[c][i] \notin Counted /\ spc'[c][i] \in Counted  BY <1>1, <1>2,
      <1>5, Zenon
    <2>3. \A k \in Level : k # i => spc'[c][k] = spc[c][k]  BY <1>3, Zenon
    <2>4. Cardinality(Items(held[c], spc'[c])) = Cardinality(Items(held[c], spc[c])) + 1
      BY <2>1, <2>2, <2>3, OneMore
    <2> QED  BY <1>2, <2>4, Zenon
  <1>9. count'[c] = -Cardinality(Items(held'[c], spc'[c]))
    <2>1. count[c] = -Cardinality(Items(held[c], spc[c]))  BY <1>a, Zenon
      DEF Local
    <2> QED  BY <1>2, <1>8, <2>1, ItemsFinite
  <1>10. Suits(c, i, spl[c])'  BY <1>1, <1>2, <1>5, <1>b, Zenon DEF Suits
  <1>11. Saved(c, i)'
    <2>1. count[c] = 0 <=> Clear(c, i)  BY CountIsZero, <1>1, <1>a, Zenon
    <2>2. CASE count[c] = 0
      <3>1. Clear(c, i)  BY <2>1, <2>2, Zenon
      <3>2. First(c, i)'  BY <3>1, <1>6, <1>7 DEF First, Clear, Level
      <3>3. held'[c][i] = {}  BY <3>1, <1>2, Numbers DEF Clear, Idle
      <3>4. s'[c][i] = i  BY <3>1, <1>1, <1>2, <2>2, <1>b, Zenon DEF Saved
      <3> QED  BY <3>2, <3>3, <3>4, <1>2, <1>5, <2>2, Zenon DEF Saved
    <2>3. CASE count[c] # 0
      <3>1. ~Clear(c, i)  BY <2>1, <2>3, Zenon
      <3>2. First(c, i)' => First(c, i)
        BY <3>1, <1>6 DEF First, Clear, Level
      <3>3. spc[c][i] \notin {"enter_save", "try_save"}  BY <1>1, Zenon
      <3>4. First(c, i)' => oldspl'[c] = i  BY <3>2, <1>2, <1>1, <1>b, Zenon
        DEF Saved
      <3> QED  BY <3>4, <1>2, <1>5, <2>3, Zenon DEF Saved
    <2> QED  BY <2>2, <2>3, Zenon
  <1>12. /\ mtx[c][i] \in Mutexes /\ Ipl[mtx[c][i]] >= i
         /\ \A m \in held[c][i] : m < mtx[c][i]
    BY <1>0, <1>1, <1>5, Zenon DEF Mine
  <1>13. Local(c)'
    BY <1>1, <1>2, <1>3, <1>9, <1>10, <1>11, <1>12, <1>a, <1>c, OwnStep, Zenon
  <1>14. Locked'  BY <1>2, <1>c, Zenon DEF Locked
  <1> QED  BY <1>2, <1>4, <1>13, <1>14, Assemble, Zenon

\* Save: only the first context saves, and it saves its own level.
LEMMA SaveKeeps ==
    ASSUME SpinInv, Types', NEW c \in Cpu, NEW i \in Level,
           NEW how \in {"enter", "try"}, Save(c, i, how)
    PROVE  SpinInv'
  <1> USE DEF At, SpinGoto
  <1>1. i = Running(c) /\ spc[c][i] = Saving[how]  BY Zenon DEF Save
  <1>0. Mine(c, i)  BY <1>1, Own, Zenon
  <1>a. Types /\ Local(c)  BY <1>0, Zenon DEF Mine
  <1>b. Suits(c, i, spl[c]) /\ Saved(c, i)  BY <1>0, Zenon DEF Mine
  <1>c. Locked /\ \A h \in held[c][i] : Ipl[h] >= i  BY <1>0, Zenon DEF Mine
  <1>2. /\ spc'[c][i] = Locking[how] /\ oldspl'[c] = s[c][i]
        /\ held' = held /\ lock' = lock /\ mtx' = mtx /\ spl' = spl
        /\ count' = count /\ active' = active /\ entry' = entry
    BY DEF Save, Types
  <1>3. \A k \in Level : k # i => spc'[c][k] = spc[c][k] /\ s'[c][k] = s[c][k]
    BY DEF Save
  <1>4. \A d \in Cpu : d # c => /\ spc'[d] = spc[d] /\ s'[d] = s[d]
                                /\ oldspl'[d] = oldspl[d]
    BY DEF Save, Types
  <1>5. /\ Saving[how] \in Counted /\ Saving[how] \in {"enter_save", "try_save"}
        /\ Saving[how] \in Entering
        /\ Locking[how] \in Counted /\ Locking[how] \in Entering
        /\ Locking[how] \in {"enter_lock", "try_lock"}
    <2>1. CASE how = "enter"  BY DEF Saving, Locking, Counted, Entering
    <2>2. CASE how = "try"  BY DEF Saving, Locking, Counted, Entering
    <2> QED  BY <2>1, <2>2, Zenon
  <1>6. First(c, i) /\ s[c][i] = i  BY <1>1, <1>5, <1>b, Zenon DEF Saved
  <1>7. Items(held'[c], spc'[c]) = Items(held[c], spc[c])
    <2>1. \A k \in Level : spc'[c][k] \in Counted <=> spc[c][k] \in Counted
      BY <1>1, <1>2, <1>3, <1>5, Zenon
    <2> QED  BY <1>2, <2>1, SameItems
  <1>8. Suits(c, i, spl[c])'  BY <1>1, <1>2, <1>5, <1>b, Zenon DEF Suits
  <1>9. Saved(c, i)'  BY <1>2, <1>5, <1>1, <1>b, Zenon DEF Saved
  <1>10. /\ mtx[c][i] \in Mutexes /\ Ipl[mtx[c][i]] >= i
         /\ \A m \in held[c][i] : m < mtx[c][i]
    BY <1>0, <1>1, <1>5, Zenon DEF Mine
  <1>11. count'[c] = -Cardinality(Items(held'[c], spc'[c]))  BY <1>2, <1>7,
    <1>a DEF Local
  <1>12. Local(c)'
    BY <1>1, <1>2, <1>3, <1>6, <1>8, <1>9, <1>10, <1>11, <1>a, <1>c, OwnStep,
       Zenon
  <1>13. Locked'  BY <1>2, <1>c, Zenon DEF Locked
  <1> QED  BY <1>2, <1>4, <1>12, <1>13, Assemble, Zenon

\* TryLock: the mutex is held in the place of the context's own item.
LEMMA TryLockKeeps ==
    ASSUME SpinInv, Types', NEW c \in Cpu, NEW i \in Level,
           NEW how \in {"enter", "try"}, TryLock(c, i, how)
    PROVE  SpinInv'
  <1> USE DEF At, SpinGoto
  <1> DEFINE m == mtx[c][i]
  <1>1. i = Running(c) /\ spc[c][i] = Locking[how]  BY Zenon DEF TryLock
  <1>0. Mine(c, i)  BY <1>1, Own, Zenon
  <1>a. Types /\ Local(c)  BY <1>0, Zenon DEF Mine
  <1>b. Suits(c, i, spl[c]) /\ Saved(c, i)  BY <1>0, Zenon DEF Mine
  <1>c. Locked /\ \A h \in held[c][i] : Ipl[h] >= i  BY <1>0, Zenon DEF Mine
  <1>2. /\ spc'[c][i] = "run" /\ held'[c][i] = held[c][i] \cup {m}
        /\ s' = s /\ spl' = spl /\ oldspl' = oldspl
        /\ count' = count /\ active' = active /\ entry' = entry
    BY DEF TryLock, Types
  <1>3. \A k \in Level : k # i => /\ spc'[c][k] = spc[c][k] /\ mtx'[c][k] = mtx[c][k]
                                  /\ held'[c][k] = held[c][k]
    BY DEF TryLock
  <1>4. \A d \in Cpu : d # c => /\ spc'[d] = spc[d] /\ mtx'[d] = mtx[d]
                                /\ held'[d] = held[d]
    BY DEF TryLock
  <1>5. Locking[how] \in Counted /\ Locking[how] \in Entering
        /\ Locking[how] \in {"enter_lock", "try_lock"}
    <2>1. CASE how = "enter"  BY DEF Locking, Counted, Entering
    <2>2. CASE how = "try"  BY DEF Locking, Counted, Entering
    <2> QED  BY <2>1, <2>2, Zenon
  <1>6. m \in Mutexes /\ Ipl[m] >= i  BY <1>0, <1>1, <1>5, Zenon DEF Mine
  <1>7. m \notin held[c][i]
    <2>1. \A n \in held[c][i] : n < m  BY <1>0, <1>1, <1>5, Zenon DEF Mine
    <2> QED  BY <2>1, <1>6 DEF Mutexes
  <1>8. /\ ~Idle(c, i) /\ ~Idle(c, i)'
        /\ \A k \in Level : k # i => Idle(c, k)' = Idle(c, k)
    BY <1>1, <1>2, <1>3, <1>5, Zenon DEF Idle
  <1>9. First(c, i)' = First(c, i) /\ ~Clear(c, i)'
    BY <1>8, Numbers DEF First, Clear
  <1>10. Cardinality(Items(held'[c], spc'[c])) = Cardinality(Items(held[c], spc[c]))
    <2>1. /\ held[c] \in [Level -> SUBSET Mutexes] /\ held'[c] \in [Level -> SUBSET Mutexes]
          /\ spc[c] \in [Level -> Labels] /\ spc'[c] \in [Level -> Labels]
      BY <1>a, Zenon DEF Types
    <2>2. "run" \notin Counted  BY Zenon DEF Counted
    <2>3. spc[c][i] \in Counted /\ spc'[c][i] \notin Counted
      BY <1>1, <1>2, <1>5, <2>2, Zenon
    <2>4. \A k \in Level : k # i => /\ spc'[c][k] = spc[c][k]
                                    /\ held'[c][k] = held[c][k]
      BY <1>3, Zenon
    <2>5. held'[c][i] = held[c][i] \cup {m}  BY <1>2, Zenon
    <2>6. m \in held'[c][i] /\ held[c][i] = held'[c][i] \ {m}  BY <2>5, <1>7,
      Zenon
    <2>7. /\ \A k \in Level : k # i => spc'[c][k] = spc[c][k]
          /\ \A k \in Level : k # i => held'[c][k] = held[c][k]
      BY <2>4, Zenon
    <2> HIDE DEF m
    <2> QED  BY <1>7, <2>1, <2>3, <2>6, <2>7, AsMany, SMTT(30)
  <1>11. Suits(c, i, spl[c])'
    <2>1. spl[c] >= Ipl[m]  BY <1>1, <1>5, <1>b, Zenon DEF Suits
    <2>2. \A j \in Level : j <= i => \A n \in held'[c][j] : spl[c] >= Ipl[n]
      <3>1. ASSUME NEW j \in Level, j <= i, NEW n \in held'[c][j], n # m \/ j # i
            PROVE  n \in held[c][j]
        BY <3>1, <1>2, <1>3, Zenon
      <3> QED  BY <3>1, <2>1, <1>b, Zenon DEF Suits
    <2>3. spl[c] >= i  BY <1>b, Zenon DEF Suits
    <2> QED  BY <1>2, <1>9, <2>2, <1>b, Zenon DEF Suits, Entering
  <1>12. Saved(c, i)'  BY <1>1, <1>2, <1>5, <1>9, <1>b, Zenon DEF Saved
  <1>13. \A n \in held'[c][i] : Ipl[n] >= i  BY <1>2, <1>6, <1>c, Zenon
  <1>14. count'[c] = -Cardinality(Items(held'[c], spc'[c]))  BY <1>2, <1>10,
    <1>a, Zenon DEF Local
  <1>15. spc'[c][i] \notin Entering  BY <1>2, Zenon DEF Entering
  <1>16. Local(c)'
    BY <1>2, <1>3, <1>11, <1>12, <1>13, <1>14, <1>15, <1>a, <1>1, OwnStep,
       Zenon
  <1>17. Locked'
    <2>1. lock[m] = NoCpu /\ lock' = [lock EXCEPT ![m] = c]  BY Zenon
      DEF TryLock
    <2>2. ASSUME NEW n \in Mutexes, NEW d \in Cpu
          PROVE  lock'[n] = d <=> \E j \in Level : n \in held'[d][j]
      <3>1. lock[n] = d <=> \E j \in Level : n \in held[d][j]  BY <1>c, Zenon
        DEF Locked
      <3>2. CASE n = m /\ d = c
        <4>1. lock'[n] = d  BY <2>1, <3>2, Zenon DEF Types
        <4>2. n \in held'[d][i]  BY <1>2, <3>2, Zenon
        <4> QED  BY <4>1, <4>2, Zenon
      <3>3. CASE n = m /\ d # c
        <4>1. lock'[n] # d  BY <2>1, <3>3, Zenon DEF Types
        <4>2. lock[n] # d  BY <2>1, <3>3, Numbers, Zenon
        <4>3. held'[d] = held[d]  BY <3>3, <1>4, Zenon
        <4> QED  BY <4>1, <4>2, <4>3, <3>1, Zenon
      <3>4. CASE n # m
        <4>1. lock'[n] = lock[n]  BY <2>1, <3>4
        <4>2. \A j \in Level : n \in held'[d][j] <=> n \in held[d][j]
          BY <1>2, <1>3, <1>4, <3>4, Zenon
        <4> QED  BY <4>1, <4>2, <3>1, Zenon
      <3> QED  BY <3>2, <3>3, <3>4, Zenon
    <2> QED  BY <2>2, Zenon DEF Locked
  <1> QED  BY <1>2, <1>4, <1>16, <1>17, Assemble, Zenon

\* TryFails: the context is still counted.
LEMMA TryFailsKeeps ==
    ASSUME SpinInv, Types', NEW c \in Cpu, NEW i \in Level, TryFails(c, i)
    PROVE  SpinInv'
  <1> USE DEF At, SpinGoto
  <1>1. i = Running(c) /\ spc[c][i] = "try_lock"  BY Zenon DEF TryFails
  <1>0. Mine(c, i)  BY <1>1, Own, Zenon
  <1>a. Types /\ Local(c)  BY <1>0, Zenon DEF Mine
  <1>b. Suits(c, i, spl[c]) /\ Saved(c, i)  BY <1>0, Zenon DEF Mine
  <1>c. Locked /\ \A h \in held[c][i] : Ipl[h] >= i  BY <1>0, Zenon DEF Mine
  <1>2. /\ spc'[c][i] = "restore"
        /\ held' = held /\ lock' = lock /\ s' = s /\ spl' = spl /\ oldspl' = oldspl
        /\ count' = count /\ active' = active /\ entry' = entry
    BY DEF TryFails, Types
  <1>3. \A k \in Level : k # i => spc'[c][k] = spc[c][k] /\ mtx'[c][k] = mtx[c][k]
    BY DEF TryFails
  <1>4. \A d \in Cpu : d # c => spc'[d] = spc[d] /\ mtx'[d] = mtx[d]
    BY DEF TryFails
  <1>5. \A k \in Level : Idle(c, k)' = Idle(c, k)
    BY <1>2, <1>3, <1>1, Zenon DEF Idle, Counted
  <1>6. First(c, i)' = First(c, i)  BY <1>5, Zenon DEF First
  <1>7. count'[c] = -Cardinality(Items(held'[c], spc'[c]))
    <2>1. \A k \in Level : spc'[c][k] \in Counted <=> spc[c][k] \in Counted
      BY <1>2, <1>3, <1>1, Zenon DEF Counted
    <2> QED  BY <1>2, <2>1, SameItems, <1>a DEF Local
  <1>8. Suits(c, i, spl[c])'  BY <1>2, <1>1, <1>b, Zenon DEF Suits, Entering
  <1>9. Saved(c, i)'  BY <1>2, <1>6, <1>1, <1>b, Zenon DEF Saved
  <1>10. spc'[c][i] \notin Entering  BY <1>2, Zenon DEF Entering
  <1>11. Local(c)'
    BY <1>2, <1>3, <1>7, <1>8, <1>9, <1>10, <1>a, <1>c, <1>1, OwnStep, Zenon
  <1>12. Locked'  BY <1>2, <1>c, Zenon DEF Locked
  <1> QED  BY <1>2, <1>4, <1>11, <1>12, Assemble, Zenon

\* LoadSpl: the first context reads its own level.
LEMMA LoadSplKeeps ==
    ASSUME SpinInv, Types', NEW c \in Cpu, NEW i \in Level, LoadSpl(c, i)
    PROVE  SpinInv'
  <1> USE DEF At, SpinGoto
  <1>1. i = Running(c) /\ spc[c][i] = "restore"  BY Zenon DEF LoadSpl
  <1>0. Mine(c, i)  BY <1>1, Own, Zenon
  <1>a. Types /\ Local(c)  BY <1>0, Zenon DEF Mine
  <1>b. Suits(c, i, spl[c]) /\ Saved(c, i)  BY <1>0, Zenon DEF Mine
  <1>c. Locked /\ \A h \in held[c][i] : Ipl[h] >= i  BY <1>0, Zenon DEF Mine
  <1>2. /\ spc'[c][i] = "count_up" /\ s'[c][i] = oldspl[c]
        /\ held' = held /\ lock' = lock /\ mtx' = mtx /\ spl' = spl /\ oldspl' = oldspl
        /\ count' = count /\ active' = active /\ entry' = entry
    BY DEF LoadSpl, Types
  <1>3. \A k \in Level : k # i => spc'[c][k] = spc[c][k] /\ s'[c][k] = s[c][k]
    BY DEF LoadSpl
  <1>4. \A d \in Cpu : d # c => spc'[d] = spc[d] /\ s'[d] = s[d]
    BY DEF LoadSpl
  <1>5. \A k \in Level : Idle(c, k)' = Idle(c, k)
    BY <1>2, <1>3, <1>1, Zenon DEF Idle, Counted
  <1>6. First(c, i)' = First(c, i)  BY <1>5, Zenon DEF First
  <1>7. count'[c] = -Cardinality(Items(held'[c], spc'[c]))
    <2>1. \A k \in Level : spc'[c][k] \in Counted <=> spc[c][k] \in Counted
      BY <1>2, <1>3, <1>1, Zenon DEF Counted
    <2> QED  BY <1>2, <2>1, SameItems, <1>a DEF Local
  <1>8. Suits(c, i, spl[c])'  BY <1>2, <1>b, Zenon DEF Suits, Entering
  <1>9. Saved(c, i)'  BY <1>2, <1>6, <1>1, <1>b, Zenon DEF Saved
  <1>10. spc'[c][i] \notin Entering  BY <1>2, Zenon DEF Entering
  <1>11. Local(c)'
    BY <1>2, <1>3, <1>7, <1>8, <1>9, <1>10, <1>a, <1>c, <1>1, OwnStep, Zenon
  <1>12. Locked'  BY <1>2, <1>c, Zenon DEF Locked
  <1> QED  BY <1>2, <1>4, <1>11, <1>12, Assemble, Zenon

\* No two contexts of a CPU hold the same mutex.
LEMMA HeldOnce ==
    ASSUME Types, NEW c \in Cpu, Local(c), NEW i \in Level, NEW j \in Level,
           NEW m \in held[c][i], m \in held[c][j]
    PROVE  i = j
  <1>1. i \in active[c] /\ j \in active[c]  BY Zenon DEF Local, Nested
  <1>2. m \in Mutexes
    <2>1. held[c] \in [Level -> SUBSET Mutexes]  BY Zenon DEF Types
    <2> QED  BY <2>1, Zenon
  <1>3. Ipl[m] >= i /\ Ipl[m] >= j  BY <1>1, Zenon DEF Local, Above
  <1>4. ~(i < j) /\ ~(j < i)
    <2>1. i < j => Ipl[m] < j  BY <1>1, Zenon DEF Local, Above
    <2>2. j < i => Ipl[m] < i  BY <1>1, Zenon DEF Local, Above
    <2> QED  BY <2>1, <2>2, <1>2, <1>3, Numbers
  <1> QED  BY <1>4 DEF Level

\* Unlock: the context is counted in the place of the mutex.
LEMMA UnlockKeeps ==
    ASSUME SpinInv, Types', NEW c \in Cpu, NEW i \in Level, NEW m \in Mutexes,
           Unlock(c, i, m)
    PROVE  SpinInv'
  <1> USE DEF At, SpinGoto
  <1>1. i = Running(c) /\ spc[c][i] = "run" /\ m \in held[c][i]  BY Zenon
    DEF Unlock
  <1>0. Mine(c, i)  BY <1>1, Own, Zenon
  <1>a. Types /\ Local(c)  BY <1>0, Zenon DEF Mine
  <1>b. Suits(c, i, spl[c]) /\ Saved(c, i)  BY <1>0, Zenon DEF Mine
  <1>c. Locked /\ \A h \in held[c][i] : Ipl[h] >= i  BY <1>0, Zenon DEF Mine
  <1>2. /\ spc'[c][i] = "restore" /\ held'[c][i] = held[c][i] \ {m}
        /\ s' = s /\ spl' = spl /\ oldspl' = oldspl /\ mtx' = mtx
        /\ count' = count /\ active' = active /\ entry' = entry
    BY DEF Unlock, Types
  <1>3. \A k \in Level : k # i => spc'[c][k] = spc[c][k] /\ held'[c][k] = held[c][k]
    BY DEF Unlock
  <1>4. \A d \in Cpu : d # c => spc'[d] = spc[d] /\ held'[d] = held[d]
    BY DEF Unlock
  <1>5. /\ ~Idle(c, i) /\ ~Idle(c, i)'
        /\ \A k \in Level : k # i => Idle(c, k)' = Idle(c, k)
    BY <1>2, <1>3, <1>1, Zenon DEF Idle, Counted
  <1>6. First(c, i)' = First(c, i) /\ ~Clear(c, i)'
    BY <1>5 DEF First, Clear, Level
  <1>7. Cardinality(Items(held[c], spc[c])) = Cardinality(Items(held'[c], spc'[c]))
    <2>1. /\ held[c] \in [Level -> SUBSET Mutexes] /\ held'[c] \in [Level -> SUBSET Mutexes]
          /\ spc[c] \in [Level -> Labels] /\ spc'[c] \in [Level -> Labels]
      BY <1>a, Zenon DEF Types
    <2>2. spc'[c][i] \in Counted /\ spc[c][i] \notin Counted  BY <1>2, <1>1,
      Zenon DEF Counted
    <2>3. m \notin held'[c][i] /\ m \in held[c][i] /\ held'[c][i] = held[c][i] \ {m}
      BY <1>2, <1>1, Zenon
    <2>4. /\ \A k \in Level : k # i => spc[c][k] = spc'[c][k]
          /\ \A k \in Level : k # i => held[c][k] = held'[c][k]
      BY <1>3, Zenon
    <2> QED  BY <2>1, <2>2, <2>3, <2>4, AsMany, <1>1
  <1>8. Suits(c, i, spl[c])'
    <2>1. \A j \in Level : j <= i => \A n \in held'[c][j] : spl[c] >= Ipl[n]
      <3>1. ASSUME NEW j \in Level, j <= i, NEW n \in held'[c][j]  PROVE n \in held[c][j]
        BY <1>2, <1>3, Zenon
      <3> QED  BY <3>1, <1>b, Zenon DEF Suits
    <2> QED  BY <1>2, <2>1, <1>b, Zenon DEF Suits, Entering
  <1>9. Saved(c, i)'  BY <1>2, <1>6, <1>1, <1>b, Zenon DEF Saved
  <1>10. \A n \in held'[c][i] : Ipl[n] >= i  BY <1>2, <1>c, Zenon
  <1>11. count'[c] = -Cardinality(Items(held'[c], spc'[c]))  BY <1>2, <1>7,
    <1>a DEF Local
  <1>12. spc'[c][i] \notin Entering  BY <1>2, SMTT(30) DEF Entering
  <1>13. Local(c)'
    BY <1>2, <1>3, <1>8, <1>9, <1>10, <1>11, <1>12, <1>a, <1>1, OwnStep, Zenon
  <1>14. Locked'
    <2>1. lock' = [lock EXCEPT ![m] = NoCpu] /\ lock \in [Mutexes -> Cpu \cup {NoCpu}]
      BY <1>a, Zenon DEF Unlock, Types
    <2>2. ASSUME NEW n \in Mutexes, NEW d \in Cpu
          PROVE  lock'[n] = d <=> \E j \in Level : n \in held'[d][j]
      <3>1. lock[n] = d <=> \E j \in Level : n \in held[d][j]  BY <1>c, Zenon
        DEF Locked
      <3>2. CASE n = m /\ d = c
        <4>1. lock'[n] # d  BY <2>1, <3>2, Numbers, Zenon
        <4>2. ASSUME NEW j \in Level, m \in held'[c][j]  PROVE FALSE
          <5>1. j # i  BY <4>2, <1>2, Zenon
          <5>2. m \in held[c][j]  BY <4>2, <1>3, <1>1, Zenon
          <5> QED  BY <5>1, <5>2, HeldOnce, <1>1, <1>a, Zenon
        <4> QED  BY <4>1, <4>2, <3>2, Zenon
      <3>3. CASE n = m /\ d # c
        <4>1. lock'[n] # d  BY <2>1, <3>3, Numbers, Zenon
        <4>2. lock[m] = c  BY <1>1, <1>c, Zenon DEF Locked
        <4>3. held'[d] = held[d]  BY <3>3, <1>4, Zenon
        <4> QED  BY <4>1, <4>2, <4>3, <3>1, <3>3, Zenon
      <3>4. CASE n # m
        <4>1. lock'[n] = lock[n]  BY <2>1, <3>4, Zenon
        <4>2. \A j \in Level : n \in held'[d][j] <=> n \in held[d][j]
          BY <1>2, <1>3, <1>4, <3>4, Zenon
        <4> QED  BY <4>1, <4>2, <3>1, Zenon
      <3> QED  BY <3>2, <3>3, <3>4, Zenon
    <2> QED  BY <2>2, Zenon DEF Locked
  <1> QED  BY <1>2, <1>4, <1>13, <1>14, Assemble, Zenon

\* CountUp: the context that brings the count back to zero is the first, so
\* that what it has read is its own level.
LEMMA CountUpKeeps ==
    ASSUME SpinInv, Types', NEW c \in Cpu, NEW i \in Level, CountUp(c, i)
    PROVE  SpinInv'
  <1> USE DEF At, SpinGoto
  <1>1. i = Running(c) /\ spc[c][i] = "count_up"  BY Zenon DEF CountUp
  <1>0. Mine(c, i)  BY <1>1, Own, Zenon
  <1>a. Types /\ Local(c)  BY <1>0, Zenon DEF Mine
  <1>b. Suits(c, i, spl[c]) /\ Saved(c, i)  BY <1>0, Zenon DEF Mine
  <1>c. Locked /\ \A h \in held[c][i] : Ipl[h] >= i  BY <1>0, Zenon DEF Mine
  <1>2. /\ count'[c] = count[c] + 1
        /\ spc'[c][i] = IF count'[c] = 0 THEN "splx" ELSE "run"
        /\ count'[c] = 0 => s'[c][i] = s[c][i]
        /\ held' = held /\ lock' = lock /\ mtx' = mtx /\ spl' = spl /\ oldspl' = oldspl
        /\ active' = active /\ entry' = entry
    BY DEF CountUp, Types
  <1>3. \A k \in Level : k # i => spc'[c][k] = spc[c][k] /\ s'[c][k] = s[c][k]
    BY DEF CountUp, Types
  <1>4. \A d \in Cpu : d # c => /\ spc'[d] = spc[d] /\ s'[d] = s[d]
                                /\ count'[d] = count[d]
    BY DEF CountUp, Types
  <1>5. ~Idle(c, i) /\ \A k \in Level : k # i => Idle(c, k)' = Idle(c, k)
    BY <1>2, <1>3, <1>1, Zenon DEF Idle, Counted
  <1>6. /\ held[c] \in [Level -> SUBSET Mutexes] /\ held'[c] = held[c]
        /\ spc[c] \in [Level -> Labels] /\ spc'[c] \in [Level -> Labels]
    BY <1>2, <1>a, Zenon DEF Types
  <1>7. spc[c][i] \in Counted /\ spc'[c][i] \notin Counted  BY <1>2, <1>1,
    Zenon DEF Counted
  <1>8. Cardinality(Items(held[c], spc[c])) = Cardinality(Items(held[c], spc'[c])) + 1
    <2>1. \A k \in Level : k # i => spc[c][k] = spc'[c][k]  BY <1>3, Zenon
    <2> QED  BY <1>6, <1>7, <2>1, OneMore
  <1>9. count'[c] = -Cardinality(Items(held'[c], spc'[c]))
    <2>1. count[c] = -Cardinality(Items(held[c], spc[c]))  BY <1>a, Zenon
      DEF Local
    <2>2. Cardinality(Items(held[c], spc'[c])) \in Nat  BY ItemsFinite, Zenon
    <2> QED  BY <1>2, <1>8, <2>1, <2>2, Numbers
  <1>10. count'[c] = 0 <=> \A k \in Level : Idle(c, k)'
    <2>1. Cardinality(Items(held[c], spc'[c])) = 0 <=> Items(held[c], spc'[c]) = {}
      BY ItemsFinite, FS_EmptySet, Zenon
    <2>2. Items(held[c], spc'[c]) = {} <=>
             \A k \in Level : held[c][k] = {} /\ spc'[c][k] \notin Counted
      BY <1>6, NoItems, <1>1, ZenonT(30)
    <2>3. Cardinality(Items(held[c], spc'[c])) \in Nat  BY ItemsFinite, Zenon
    <2>4. count'[c] = 0 <=> Cardinality(Items(held[c], spc'[c])) = 0
      <3> QED  BY <1>6, <1>9, <2>3
    <2> QED  BY <1>6, <2>1, <2>2, <2>4, Zenon DEF Idle
  <1>11. count'[c] = 0 => Clear(c, i)'  BY <1>10, Zenon DEF Clear
  <1>12. Clear(c, i)' => count'[c] = 0
    <2>1. \A k \in Level : k > i => Idle(c, k)'
      <3>1. \A k \in Level : k > i => k \notin active[c]
        BY <1>0, Numbers DEF Mine
      <3>2. \A k \in Level \ active[c] : Idle(c, k)
        BY <1>1, <1>a, Zenon DEF Local, Nested, Idle, Counted
      <3> QED  BY <3>1, <3>2, <1>5, Zenon
    <2> QED  BY <2>1, <1>10, SpinMutexAssumption DEF Clear, Level
  <1>13. Suits(c, i, spl[c])'
    BY <1>2, <1>12, <1>b, Zenon DEF Suits, Entering
  <1>14. Saved(c, i)'
    <2>1. First(c, i)' => First(c, i)  BY <1>5, Zenon DEF First
    <2>2. count'[c] = 0 => First(c, i)  BY <1>5, <1>10 DEF First, Level
    <2>3. First(c, i)' => oldspl'[c] = i  BY <2>1, <1>2, <1>1, <1>b, Zenon
      DEF Saved
    <2>4. count'[c] = 0 => s'[c][i] = i  BY <2>2, <1>2, <1>1, <1>b, Zenon
      DEF Saved
    <2> QED  BY <2>3, <2>4, <1>2, <1>11, Zenon DEF Saved
  <1>15. spc'[c][i] \notin Entering  BY <1>2, ZenonT(30) DEF Entering
  <1>16. Local(c)'
    BY <1>2, <1>3, <1>9, <1>13, <1>14, <1>15, <1>a, <1>c, <1>1, OwnStep, Zenon
  <1>17. Locked'  BY <1>2, <1>c, ZenonT(30) DEF Locked
  <1> QED  BY <1>2, <1>4, <1>16, <1>17, Assemble, Zenon

\* Splx: the level goes back to the context's own, and nothing is held then.
LEMMA SplxKeeps ==
    ASSUME SpinInv, Types', NEW c \in Cpu, NEW i \in Level, Splx(c, i)
    PROVE  SpinInv'
  <1> USE DEF At, SpinGoto
  <1>1. i = Running(c) /\ spc[c][i] = "splx"  BY Zenon DEF Splx
  <1>0. Mine(c, i)  BY <1>1, Own, Zenon
  <1>a. Types /\ Local(c)  BY <1>0, Zenon DEF Mine
  <1>b. Suits(c, i, spl[c]) /\ Saved(c, i)  BY <1>0, Zenon DEF Mine
  <1>c. Locked /\ \A h \in held[c][i] : Ipl[h] >= i  BY <1>0, Zenon DEF Mine
  <1>2. /\ spc'[c][i] = "run" /\ spl'[c] = s[c][i]
        /\ held' = held /\ lock' = lock /\ mtx' = mtx /\ oldspl' = oldspl
        /\ count' = count /\ active' = active /\ entry' = entry
    BY DEF Splx, Types
  <1>3. \A k \in Level : k # i => spc'[c][k] = spc[c][k] /\ s'[c][k] = s[c][k]
    BY DEF Splx
  <1>4. \A d \in Cpu : d # c => spc'[d] = spc[d] /\ s'[d] = s[d] /\ spl'[d] = spl[d]
    BY DEF Splx
  <1>5. Clear(c, i) /\ s[c][i] = i  BY <1>1, <1>b, Zenon DEF Saved
  <1>6. \A k \in Level : k <= i => held'[c][k] = {}  BY <1>2, <1>5, Zenon
    DEF Clear, Idle
  <1>7. Idle(c, i)'  BY <1>2, <1>6 DEF Idle, Counted, Level
  <1>8. count'[c] = -Cardinality(Items(held'[c], spc'[c]))
    <2>1. \A k \in Level : spc'[c][k] \in Counted <=> spc[c][k] \in Counted
      BY <1>2, <1>3, <1>1, Zenon DEF Counted
    <2> QED  BY <1>2, <2>1, SameItems, <1>a DEF Local
  <1>9. Suits(c, i, spl[c])'
    BY <1>2, <1>5, <1>6 DEF Suits, Entering, Level
  <1>10. Saved(c, i)'  BY <1>2, <1>7, Zenon DEF Saved, First
  <1>11. spc'[c][i] \notin Entering /\ held'[c][i] = {}
    BY <1>2, <1>6, SMTT(30) DEF Entering, Level
  <1>12. Local(c)'
    BY <1>2, <1>3, <1>8, <1>9, <1>10, <1>11, <1>a, <1>1, OwnStep, Zenon
  <1>13. Locked'  BY <1>2, <1>c, ZenonT(30) DEF Locked
  <1> QED  BY <1>2, <1>4, <1>12, <1>13, Assemble, Zenon

\* Interrupted: the handler's level is above all that is held and wanted.
LEMMA InterruptedKeeps ==
    ASSUME SpinInv, Types', NEW c \in Cpu, NEW j \in Level, Interrupted(c, j)
    PROVE  SpinInv'
  <1> DEFINE i == Running(c)
  <1>1. Local(c) /\ Types /\ Locked  BY Zenon DEF SpinInv
  <1>2. i \in Level /\ Mine(c, i)
    <2>1. i \in Level  BY <1>1, Runs, Zenon DEF Local
    <2> QED  BY <2>1, Own, Zenon
  <1> HIDE DEF i
  <1>3. /\ j > spl[c] /\ active'[c] = active[c] \cup {j}
        /\ entry'[c][j] = spl[c] /\ spl'[c] = j
        /\ \A k \in Level : k # j => entry'[c][k] = entry[c][k]
        /\ lock' = lock /\ count' = count /\ oldspl' = oldspl /\ spc' = spc
        /\ mtx' = mtx /\ s' = s /\ held' = held
    BY DEF Interrupted, Types
  <1>4. \A d \in Cpu : d # c => /\ spl'[d] = spl[d] /\ active'[d] = active[d]
                                /\ entry'[d] = entry[d]
    BY DEF Interrupted
  <1>5. spl[c] >= i /\ spl[c] \in Int /\ i \in Int /\ j \in Int
        /\ \A k \in active[c] : k \in Level /\ k <= i
    BY <1>2, Numbers, Zenon DEF Mine, Suits
  <1>6. j > i /\ j \notin active[c]  BY <1>3, <1>5
  <1>7. /\ \A k \in active[c] : k < j
        /\ Running(c)' = j
    <2>1. \A k \in active[c] : k < j  BY <1>5, <1>6 DEF Level
    <2>2. active'[c] \in SUBSET Int  BY Numbers, Zenon DEF Types
    <2>3. \A k \in active'[c] : k <= j
      <3>1. \A k \in active[c] : k \in Int  BY <1>5, Numbers, Zenon
      <3> QED  BY <3>1, <1>3, <1>5
    <2> QED  BY <2>1, <2>3, <1>3 DEF Running
  <1>8. \A k \in Level \ active[c] : spc[c][k] = "run" /\ held[c][k] = {}
    BY <1>1, Zenon DEF Local, Nested
  <1>9. \A k \in Level : \A m \in held[c][k] : m \in Mutexes /\ Ipl[m] < j
    <2>1. ASSUME NEW k \in Level, NEW m \in held[c][k]  PROVE m \in Mutexes /\ Ipl[m] < j
      <3>1. k \in active[c]  BY <1>8, Zenon
      <3>2. k <= i  BY <3>1, <1>5, Zenon
      <3>3. spl[c] >= Ipl[m] /\ m \in Mutexes  BY <3>2, <1>2, Zenon DEF Mine,
        Suits
      <3>4. Ipl[m] \in Int  BY <3>3, Numbers, Zenon
      <3> QED  BY <3>3, <3>4, <1>3, <1>5
    <2> QED  BY <2>1, Zenon
  <1>10. \A k \in Level : spc[c][k] \in Entering => Ipl[mtx[c][k]] < j
    <2>1. ASSUME NEW k \in Level, spc[c][k] \in Entering  PROVE Ipl[mtx[c][k]] < j
      <3>1. k \in active[c]
        <4>1. "run" \notin Entering  BY Zenon DEF Entering
        <4> QED  BY <4>1, <2>1, <1>8, Zenon
      <3>2. mtx[c][k] \in Mutexes  BY <3>1, <2>1, <1>1, Zenon DEF Local, Above
      <3>3. Ipl[mtx[c][k]] \in Int  BY <3>2, Numbers, Zenon
      <3>4. CASE k = i
        <4>1. spl[c] >= Ipl[mtx[c][k]]  BY <3>4, <2>1, <1>2, Zenon DEF Mine,
          Suits
        <4> QED  BY <4>1, <3>3, <1>3, <1>5
      <3>5. CASE k # i
        <4>0. k <= i /\ k \in Int /\ i \in Int  BY <3>1, <1>5, Numbers, Zenon
        <4>1. k < i  BY <4>0, <3>5
        <4>2. Ipl[mtx[c][k]] < i
          BY <4>1, <2>1, <1>2, Zenon DEF Mine, Local, Above
        <4> QED  BY <4>2, <3>3, <1>5, <1>6
      <3> QED  BY <3>4, <3>5, Zenon
    <2> QED  BY <2>1, Zenon
  <1>11. \A k \in Level : \A v : Suits(c, k, v)' <=> Suits(c, k, v)
    BY <1>3, Zenon DEF Suits, Clear, Idle
  <1>12. Nested(c)'
    <2>1. 0 \in active'[c]  BY <1>1, <1>3, ZenonT(30) DEF Local, Nested
    <2>2. \E k \in active'[c] : \A n \in active'[c] : n <= k
      <3>1. \A k \in active[c] : k \in Int  BY <1>5, Numbers, Zenon
      <3> QED  BY <3>1, <1>3, <1>5
    <2>3. ASSUME NEW k \in active'[c], k > 0
          PROVE  \E n \in active'[c] : n < k /\ \A o \in active'[c] : o < k => o <= n
      <3>1. CASE k = j
        <4>1. i \in active'[c] /\ i < j  BY <1>2, <1>3, <1>6, ZenonT(30) DEF Mine
        <4>2. \A o \in active'[c] : o < j => o <= i  BY <1>3, <1>5
        <4> QED  BY <3>1, <4>1, <4>2, Zenon
      <3>2. CASE k # j
        <4>1. k \in active[c]  BY <3>2, <1>3, Zenon
        <4>2. PICK n \in active[c] : n < k /\ \A o \in active[c] : o < k => o <= n
          BY <4>1, <2>3, <1>1, Zenon DEF Local, Nested
        <4>3. ~(j < k)  BY <4>1, <1>7, <1>5 DEF Level
        <4>4. \A o \in active'[c] : o < k => o <= n  BY <4>2, <4>3, <1>3,
          Zenon
        <4> QED  BY <4>2, <4>4, <1>3, Zenon
      <3> QED  BY <3>1, <3>2, Zenon
    <2>4. \A k \in Level \ active'[c] : spc'[c][k] = "run" /\ held'[c][k] = {}
      BY <1>3, <1>8, Zenon
    <2> QED  BY <2>1, <2>2, <2>3, <2>4, Zenon DEF Nested
  <1>13. Suits(c, j, spl[c])'
    <2>1. spc[c][j] = "run"  BY <1>6, <1>8, Zenon
    <2>2. \A k \in Level : \A m \in held[c][k] : j >= Ipl[m]
      <3>1. ASSUME NEW m \in Mutexes, Ipl[m] < j  PROVE j >= Ipl[m]
        <4>1. Ipl[m] \in Int  BY Numbers, Zenon
        <4> QED  BY <4>1, <3>1, <1>5
      <3> QED  BY <3>1, <1>9, Zenon
    <2> QED  BY <2>1, <2>2, <1>3, Numbers DEF Suits, Entering
  <1>14. Levels(c)'
    <2>1. ASSUME NEW k \in active'[c], NEW n \in active'[c], k < n,
                 \A o \in active'[c] : o <= k \/ o >= n
          PROVE  Suits(c, k, entry[c][n])'
      <3>1. k \in active[c] /\ k \in Level
        <4>1. n <= j /\ n \in Int
          <5>1. \A o \in active[c] : o \in Int  BY <1>5, Numbers, Zenon
          <5> QED  BY <5>1, <1>3, <1>5
        <4>2. k # j  BY <4>1, <2>1, <1>5
        <4> QED  BY <4>2, <1>3, <1>5, Zenon
      <3>2. CASE n = j
        <4>1. k = i
          <5>1. i \in active'[c]  BY <1>2, <1>3, ZenonT(30) DEF Mine
          <5>2. i <= k  BY <5>1, <2>1, <3>2, <1>6, <1>5
          <5>3. k <= i /\ k \in Int /\ i \in Int  BY <3>1, <1>5, Numbers, Zenon
          <5> QED  BY <5>2, <5>3
        <4>2. Suits(c, i, spl[c])  BY <1>2, Zenon DEF Mine
        <4>3. Suits(c, k, entry'[c][n])  BY <4>1, <4>2, <3>2, <1>3, Zenon
        <4> QED  BY <4>3, <3>1, <1>11, Zenon
      <3>3. CASE n # j
        <4>1. n \in active[c] /\ n \in Level  BY <3>3, <1>3, <1>5, Zenon
        <4>2. \A o \in active[c] : o <= k \/ o >= n  BY <2>1, <1>3, Zenon
        <4>3. Suits(c, k, entry[c][n])  BY <3>1, <4>1, <4>2, <2>1, <1>1, Zenon
          DEF Local, Levels
        <4>4. Suits(c, k, entry'[c][n])  BY <4>1, <4>3, <3>3, <1>3, SMTT(30)
        <4> QED  BY <4>4, <3>1, <1>11, Zenon
      <3> QED  BY <3>2, <3>3, Zenon
    <2> QED  BY <2>1, <1>7, <1>13, Zenon DEF Levels
  <1>15. Above(c)'
    <2>1. ASSUME NEW k \in active'[c], k # j
          PROVE  k \in active[c]
      BY <2>1, <1>3, Zenon
    <2>2. spc[c][j] = "run" /\ held[c][j] = {}  BY <1>6, <1>8, ZenonT(30)
    <2> QED  BY <2>2, <1>1, <1>3, <1>9, <1>10, Zenon DEF Local, Above,
      Entering
  <1>16. \A k \in Level : Saved(c, k)'
    <2>1. spc' = spc /\ held' = held /\ s' = s /\ oldspl' = oldspl  BY <1>3, Zenon
    <2>2. \A k \in Level : Saved(c, k)  BY <1>1, Zenon DEF Local
    <2>3. \A k \in Level : Idle(c, k)' <=> Idle(c, k)  BY <2>1, Zenon DEF Idle
    <2>4. \A k \in Level : (Clear(c, k)' <=> Clear(c, k)) /\ (First(c, k)' <=> First(c, k))
      BY <2>3, Zenon DEF Clear, First
    <2> QED  BY <2>1, <2>2, <2>4, Zenon DEF Saved
  <1>17. Local(c)'
    BY <1>1, <1>3, <1>12, <1>14, <1>15, <1>16, ZenonT(30) DEF Local
  <1>18. Locked'  BY <1>1, <1>3, ZenonT(30) DEF Locked
  <1> QED  BY <1>3, <1>4, <1>17, <1>18, Assemble, Zenon

\* Returns: the level is again that of the context that was interrupted.
LEMMA ReturnsKeeps ==
    ASSUME SpinInv, Types', NEW c \in Cpu, NEW i \in Level, Returns(c, i)
    PROVE  SpinInv'
  <1> USE DEF At
  <1>1. i = Running(c) /\ spc[c][i] = "run" /\ held[c][i] = {} /\ i > 0
    BY Zenon DEF Returns
  <1>0. Mine(c, i)  BY <1>1, Own, Zenon
  <1>a. Types /\ Local(c)  BY <1>0, Zenon DEF Mine
  <1>b. Suits(c, i, spl[c]) /\ Saved(c, i)  BY <1>0, Zenon DEF Mine
  <1>c. Locked /\ \A h \in held[c][i] : Ipl[h] >= i  BY <1>0, Zenon DEF Mine
  <1>2. /\ active'[c] = active[c] \ {i} /\ spl'[c] = entry[c][i]
        /\ \A k \in Level : k # i => entry'[c][k] = entry[c][k]
        /\ lock' = lock /\ count' = count /\ oldspl' = oldspl /\ spc' = spc
        /\ mtx' = mtx /\ s' = s /\ held' = held
    BY DEF Returns, Types
  <1>3. \A d \in Cpu : d # c => /\ spl'[d] = spl[d] /\ active'[d] = active[d]
                                /\ entry'[d] = entry[d]
    BY DEF Returns
  <1>4. PICK j \in active[c] : j < i /\ \A k \in active[c] : k < i => k <= j
    BY <1>0, <1>1, Zenon DEF Mine, Local, Nested
  <1>5. /\ j \in active'[c] /\ j \in Level
        /\ \A k \in active'[c] : k \in active[c] /\ k \in Level /\ k < i /\ k <= j
    <2>1. \A k \in active[c] : k \in Level /\ k \in Int /\ k <= i
      BY <1>0, Numbers, Zenon DEF Mine
    <2>2. i \in Int /\ j \in Int  BY Numbers, <2>1, Zenon
    <2>3. \A k \in active'[c] : k \in active[c] /\ k # i  BY <1>2, Zenon
    <2>4. \A k \in active'[c] : k < i  BY <2>1, <2>2, <2>3
    <2>5. j # i  BY <1>4, <2>2
    <2>6. j \in active'[c]  BY <2>5, <1>2, Zenon
    <2> QED  BY <1>4, <2>1, <2>3, <2>4, <2>6, Zenon
  <1>6. Running(c)' = j
    <2>1. active'[c] \in SUBSET Int  BY Numbers, Zenon DEF Types
    <2> QED  BY <1>5, Greatest DEF Running
  <1>7. Nested(c)'
    <2>1. 0 \in active'[c]  BY <1>2, <1>1, <1>a, Numbers DEF Local, Nested
    <2>2. ASSUME NEW k \in active'[c], k > 0
          PROVE  \E n \in active'[c] : n < k /\ \A o \in active'[c] : o < k => o <= n
      <3>1. PICK n \in active[c] : n < k /\ \A o \in active[c] : o < k => o <= n
        BY <2>2, <1>5, <1>a, Zenon DEF Local, Nested
      <3>2. n \in active'[c]
        <4>1. n # i  BY <3>1, <1>5 DEF Level
        <4> QED  BY <4>1, <1>2, Zenon
      <3> QED  BY <3>1, <3>2, <1>5, Zenon
    <2>3. \A k \in Level \ active'[c] : spc'[c][k] = "run" /\ held'[c][k] = {}
      BY <1>2, <1>1, <1>a, ZenonT(30) DEF Local, Nested
    <2> QED  BY <2>1, <2>2, <2>3, <1>5, ZenonT(30) DEF Nested
  <1>8. \A k \in Level : \A v : Suits(c, k, v)' <=> Suits(c, k, v)
    BY <1>2, SMTT(30) DEF Suits, Clear, Idle
  <1>9. Suits(c, j, spl[c])'
    <2>1. \A k \in active[c] : k <= j \/ k >= i  BY <1>0, <1>4, Numbers, SMTT(30) DEF Mine
    <2>2. Suits(c, j, entry[c][i])  BY <1>0, <1>4, <2>1, SMTT(30) DEF Mine, Local, Levels
    <2> QED  BY <2>2, <1>2, <1>5, <1>8, SMTT(30)
  <1>10. Levels(c)'
    <2>1. ASSUME NEW k \in active'[c], NEW n \in active'[c], k < n,
                 \A o \in active'[c] : o <= k \/ o >= n
          PROVE  Suits(c, k, entry[c][n])'
      <3>1. \A o \in active[c] : o <= k \/ o >= n
        <4>1. i >= n  BY <1>5 DEF Level
        <4> QED  BY <4>1, <2>1, <1>2, Zenon
      <3>2. Suits(c, k, entry[c][n])  BY <3>1, <2>1, <1>5, <1>a, Zenon
        DEF Local, Levels
      <3>3. n # i /\ n \in Level /\ k \in Level  BY <1>5 DEF Level
      <3>4. Suits(c, k, entry'[c][n])  BY <3>2, <3>3, <1>2, Zenon
      <3> QED  BY <3>3, <3>4, <1>8, Zenon
    <2> QED  BY <2>1, <1>6, <1>9, <1>1, Zenon DEF Levels
  <1>11. Above(c)'  BY <1>2, <1>a, ZenonT(30) DEF Local, Above
  <1>12. \A k \in Level : Saved(c, k)'
    <2>1. spc' = spc /\ held' = held /\ s' = s /\ oldspl' = oldspl  BY <1>2, Zenon
    <2>2. \A k \in Level : Saved(c, k)  BY <1>a, Zenon DEF Local
    <2>3. \A k \in Level : Idle(c, k)' <=> Idle(c, k)  BY <2>1, Zenon DEF Idle
    <2>4. \A k \in Level : (Clear(c, k)' <=> Clear(c, k)) /\ (First(c, k)' <=> First(c, k))
      BY <2>3, Zenon DEF Clear, First
    <2> QED  BY <2>1, <2>2, <2>4, Zenon DEF Saved
  <1>13. Local(c)'
    BY <1>2, <1>7, <1>10, <1>11, <1>12, <1>a, Zenon DEF Local
  <1>14. Locked'  BY <1>2, <1>c, ZenonT(30) DEF Locked
  <1> QED  BY <1>2, <1>3, <1>13, <1>14, Assemble, Zenon

-----------------------------------------------------------------------------
(* Theorems                                                                *)

\* Every step keeps the invariant.
LEMMA SpinStep ==
    ASSUME SpinInv, [SpinNext]_spinvars
    PROVE  SpinInv'
  <1>1. CASE SpinNext
    <2>1. Types'  BY <1>1, TypesHold, Zenon
    <2> QED
      BY <1>1, <2>1, RaiseKeeps, CountDownKeeps, SaveKeeps, TryLockKeeps,
         TryFailsKeeps, UnlockKeeps, LoadSplKeeps, CountUpKeeps, SplxKeeps,
         InterruptedKeeps, ReturnsKeeps, Zenon DEF SpinNext
  <1>2. CASE UNCHANGED spinvars
    <2>1. Types' /\ Locked'
      BY <1>2, Zenon DEF spinvars, SpinInv, Types, Locked
    <2>2. ASSUME NEW c \in Cpu  PROVE Local(c)'
      <3>1. Local(c)  BY Zenon DEF SpinInv
      <3> QED  BY <1>2, <3>1, Others, Zenon DEF spinvars
    <2> QED  BY <2>1, <2>2, Zenon DEF SpinInv
  <1> QED  BY <1>1, <1>2, Zenon

\* The invariant holds at the start and forever.
LEMMA SpinInvHolds == SpinSpec => []SpinInv
  <1>1. SpinInit => SpinInv
    <2> SUFFICES ASSUME SpinInit  PROVE SpinInv
      OBVIOUS
    <2> USE DEF SpinInit
    <2>1. Types  BY Numbers, Zenon DEF Types, Labels
    <2>2. Locked  BY Numbers, Zenon DEF Locked
    <2>3. ASSUME NEW c \in Cpu  PROVE Local(c)
      <3>1. /\ active[c] = {0} /\ spl[c] = 0 /\ count[c] = 0
            /\ \A i \in Level : spc[c][i] = "run" /\ held[c][i] = {}
        OBVIOUS
      <3>2. Running(c) = 0
        <4>1. {0} \in SUBSET Int /\ \A y \in {0} : y <= 0  OBVIOUS
        <4> QED  BY DEF Running
      <3>3. count[c] = -Cardinality(Items(held[c], spc[c]))
        <4>1. held[c] \in [Level -> SUBSET Mutexes]  BY Zenon DEF Types
        <4>2. Items(held[c], spc[c]) = {}  BY NoItems, Zenon DEF Counted
        <4>3. Cardinality(Items(held[c], spc[c])) = 0  BY <4>2, FS_EmptySet,
          Zenon
        <4>4. count[c] = 0  BY <3>1, Zenon
        <4> HIDE DEF SpinInit
        <4>5. \A n \in Int : -n = 0 - n  OBVIOUS
        <4>6. 0 - 0 = 0 /\ 0 \in Int  OBVIOUS
        <4> QED  BY <4>3, <4>4, <4>5, <4>6, Zenon
      <3>4. Nested(c)  BY DEF Nested
      <3>5. Suits(c, 0, 0)  BY Numbers DEF Suits, Entering
      <3>6. Levels(c)  BY <3>2, <3>5 DEF Levels
      <3>7. Above(c)  BY Numbers, Zenon DEF Above, Entering
      <3>8. ASSUME NEW i \in Level  PROVE Saved(c, i)
        BY Zenon DEF Saved, First, Idle, Counted
      <3> QED  BY <3>3, <3>4, <3>6, <3>7, <3>8, Zenon DEF Local
    <2> QED  BY <2>1, <2>2, <2>3, Zenon DEF SpinInv
  <1> QED  BY <1>1, SpinStep, PTL DEF SpinSpec

\* A mutex that a context holds is locked by its CPU and by nobody else, and
\* as long as it is held the CPU takes no interrupt at its level: whatever the
\* nesting of handlers and the order in which mutexes are exited.
THEOREM Protected == SpinSpec => []HeldIsProtected
  <1>1. SpinInv => HeldIsProtected
    <2> SUFFICES ASSUME SpinInv, NEW c \in Cpu, NEW i \in Level, NEW m \in held[c][i]
                 PROVE  /\ lock[m] = c /\ spl[c] >= Ipl[m]
                        /\ \A d \in Cpu, j \in Level :
                              m \in held[d][j] => d = c /\ j = i
      BY DEF HeldIsProtected
    <2>1. Types /\ Locked /\ \A d \in Cpu : Local(d)  BY Zenon DEF SpinInv
    <2>2. Running(c) \in Level /\ Mine(c, Running(c))
      <3>1. Running(c) \in Level  BY <2>1, Runs, Zenon DEF Local
      <3> QED  BY <3>1, Own, Zenon
    <2>3. i \in active[c]  BY <2>1, Zenon DEF Local, Nested
    <2>4. m \in Mutexes /\ spl[c] >= Ipl[m]
      BY <2>2, <2>3, Zenon DEF Mine, Suits
    <2>5. lock[m] = c  BY <2>1, <2>4, Zenon DEF Locked
    <2>6. ASSUME NEW d \in Cpu, NEW j \in Level, m \in held[d][j]  PROVE d = c /\ j = i
      <3>1. lock[m] = d  BY <2>1, <2>4, <2>6, Zenon DEF Locked
      <3>2. d = c  BY <3>1, <2>5, Zenon
      <3> QED  BY <3>2, <2>1, <2>6, HeldOnce, Zenon
    <2> QED  BY <2>4, <2>5, <2>6, Zenon
  <1> QED  BY <1>1, SpinInvHolds, PTL

\* "locking against myself": no CPU spins on a mutex that it holds, in the same
\* or in an interrupted context.
THEOREM AgainstOthers == SpinSpec => []NeverAgainstMyself
  <1>1. SpinInv => NeverAgainstMyself
    <2> SUFFICES ASSUME SpinInv, NEW c \in Cpu, NEW i \in Level,
                        spc[c][i] \in {"enter_lock", "try_lock"}, lock[mtx[c][i]] = c
                 PROVE  FALSE
      BY Zenon DEF NeverAgainstMyself
    <2> DEFINE m == mtx[c][i]
    <2>1. Types /\ Locked /\ Local(c)  BY Zenon DEF SpinInv
    <2>2. spc[c][i] \in Entering  BY Zenon DEF Entering
    <2>3. i \in active[c]  BY <2>1, Zenon DEF Local, Nested
    <2>4. m \in Mutexes /\ Ipl[m] >= i /\ \A n \in held[c][i] : n < m
      BY <2>1, <2>2, <2>3, Zenon DEF Local, Above
    <2>5. PICK j \in Level : m \in held[c][j]  BY <2>1, <2>4 DEF Locked
    <2>6. j \in active[c]  BY <2>1, <2>5, Zenon DEF Local, Nested
    <2>7. Ipl[m] >= j  BY <2>1, <2>5, <2>6, Zenon DEF Local, Above
    <2>8. Ipl[m] \in Int /\ m \in Int  BY <2>4, Numbers, Zenon
    <2> HIDE DEF m
    <2>9. j # i  BY <2>4, <2>5, <2>8
    <2>10. CASE j < i
      <3>1. Ipl[m] < i  BY <2>1, <2>3, <2>5, <2>10, Zenon DEF Local, Above
      <3> QED  BY <3>1, <2>4, <2>8 DEF Level
    <2>11. CASE i < j
      <3>1. Ipl[m] < j  BY <2>1, <2>2, <2>6, <2>11, Zenon DEF Local, Above, m
      <3> QED  BY <3>1, <2>7, <2>8 DEF Level
    <2> QED  BY <2>9, <2>10, <2>11 DEF Level
  <1> QED  BY <1>1, SpinInvHolds, PTL

\* When a CPU has exited all its spin mutexes it is back at the level of the
\* context that runs, and an LWP that holds none has every interrupt enabled.
THEOREM Restored == SpinSpec => []LevelIsRestored
  <1>1. SpinInv => LevelIsRestored
    <2> SUFFICES ASSUME SpinInv, NEW c \in Cpu, spc[c][Running(c)] = "run"
                 PROVE  /\ count[c] = 0 => spl[c] = Running(c)
                        /\ Running(c) = 0 /\ held[c][0] = {} => spl[c] = 0
      BY Zenon DEF LevelIsRestored
    <2>1. Types /\ Local(c)  BY Zenon DEF SpinInv
    <2>2. Running(c) \in Level  BY <2>1, Runs, Zenon DEF Local
    <2>3. Mine(c, Running(c))  BY <2>2, Own, Zenon
    <2>4. Clear(c, Running(c)) => spl[c] = Running(c)  BY <2>3, Zenon
      DEF Mine, Suits
    <2>5. count[c] = 0 => spl[c] = Running(c)  BY <2>1, <2>4, CountIsZero,
      Zenon
    <2>6. Running(c) = 0 /\ held[c][0] = {} => Clear(c, Running(c))
      <3> SUFFICES ASSUME Running(c) = 0, held[c][0] = {}, NEW j \in Level, j <= 0
                   PROVE  Idle(c, j)
        BY Zenon DEF Clear
      <3>1. j = 0  BY DEF Level
      <3> QED  BY <3>1, Zenon DEF Idle, Counted
    <2> QED  BY <2>4, <2>5, <2>6, Zenon
  <1> QED  BY <1>1, SpinInvHolds, PTL
=============================================================================
