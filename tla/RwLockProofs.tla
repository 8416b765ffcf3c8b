---------------------------- MODULE RwLockProofs ----------------------------
(***************************************************************************)
(* Proofs about RwLock for any finite set of LWPs: type correctness,       *)
(* Exclusion, HandoffAsserts, NoOrphanedWaiter and WriteWantedIsTrue, from *)
(* one inductive invariant; and, from the same, that every step of RwLock  *)
(* is one of ReadersWriter or one that it does not see.                    *)
(***************************************************************************)
EXTENDS RwLock, FiniteSetTheorems, TLAPS

-----------------------------------------------------------------------------
(* The inductive invariant.                                                *)

\* l sleeps on the lock or, with the chain lock held, is about to.
Waits(l) == pc[l] \in {"block", "sleep"}
WriterWaits == \E l \in Lwp : Waits(l) /\ op[l] = "W"

\* The queues hold the sleepers; the chain lock has one holder.
QueueInv ==
    /\ \A m \in Mode : \A l \in Lwp :
          l \in ts[m] <=> pc[l] = "sleep" /\ op[l] = m
    /\ \A l \in Lwp :
          pc[l] \in {"recheck", "setwait", "block", "handoff", "dswap"}
              <=> tc = l

\* The waiter bits: RW_HAS_WAITERS is exact; RW_WRITE_WANTED covers every
\* waiting writer, is exact while the lock is held for reading, and otherwise
\* points to a writer on its way.  Nobody waits to write for a free lock,
\* and readers wait for one only while a writer is on its way.
BitsInv ==
    /\ rw.hw <=> \E l \in Lwp : Waits(l)
    /\ WriterWaits => rw.ww /\ ~NoThread(rw)
    /\ rw.cnt # 0 /\ (rw.hw \/ rw.ww) => rw.hw /\ WriterWaits
    /\ NoThread(rw) /\ rw.hw => rw.ww
    /\ WriteWantedIsTrue

\* What an LWP's copy of the word, however old, says about the word now.
CopyOK(l) ==
    /\ pc[l] = "setwait" => NeedWait(op[l], owner[l])
    /\ pc[l] = "try" => ~NeedWait(op[l], owner[l])
    /\ pc[l] = "release" /\ op[l] = "W" =>
          owner[l].own = l /\ owner[l].cnt = 0 /\ (owner[l].hw => rw.hw)
    /\ pc[l] = "release" /\ op[l] = "R" =>
          /\ owner[l].own = None /\ owner[l].cnt # 0
          /\ owner[l].cnt = 1 /\ owner[l].hw => rw.cnt = 1 /\ rw.hw
    /\ pc[l] \in {"xlookup", "handoff"} =>
          rw.hw /\ (op[l] = "R" => rw.cnt = 1)
    /\ pc[l] = "handoff" => rw = owner[l]
    /\ pc[l] = "dcas" => ~owner[l].hw /\ (rw.hw \/ rw = owner[l])
    /\ pc[l] \in {"dlookup", "dswap"} => rw.hw
CopyInv == \A l \in Lwp : CopyOK(l)

IInv == TypeOK /\ Exclusion /\ QueueInv /\ BitsInv /\ CopyInv

-----------------------------------------------------------------------------
(* Each step preserves it.                                                 *)

USE LwpAssumption DEF Mode, Labels, Goto, Load, Forget, Holding

\* What a CAS that adds an owner to the word (rw_tryenter) writes.
LEMMA PlusFields ==
    ASSUME NEW l \in Lwp, NEW m \in Mode, NEW w \in Word
    PROVE  /\ Plus(l, m, w) \in Word
           /\ Plus(l, m, w).own = IF m = "R" THEN w.own ELSE l
           /\ Plus(l, m, w).cnt = IF m = "R" THEN w.cnt + 1 ELSE w.cnt
           /\ Plus(l, m, w).hw <=> w.hw
           /\ Plus(l, m, w).ww <=> w.ww
BY DEF Plus, Word

\* The same for rw_vector_enter's CAS, which also clears RW_WRITE_WANTED.
LEMMA AcquiredFields ==
    ASSUME NEW l \in Lwp, NEW m \in Mode, NEW w \in Word
    PROVE  /\ Acquired(l, m, w) \in Word
           /\ Acquired(l, m, w).own = IF m = "R" THEN w.own ELSE l
           /\ Acquired(l, m, w).cnt = IF m = "R" THEN w.cnt + 1 ELSE w.cnt
           /\ Acquired(l, m, w).hw <=> w.hw
           /\ ~Acquired(l, m, w).ww
<1> DEFINE p == Plus(l, m, w)
<1>1. /\ p \in Word /\ p.own = (IF m = "R" THEN w.own ELSE l) /\ (p.hw <=> w.hw)
      /\ p.cnt = (IF m = "R" THEN w.cnt + 1 ELSE w.cnt)
  BY PlusFields
<1>2. Acquired(l, m, w) = [p EXCEPT !.ww = FALSE]
  BY Zenon DEF Acquired
<1> HIDE DEF p
<1> QED BY <1>1, <1>2, Zenon DEF Word

\* Marking the word for a waiter only sets bits: RW_HAS_WAITERS, and
\* RW_WRITE_WANTED for a writer.
LEMMA SetWaitFields ==
    ASSUME NEW m \in Mode, NEW w \in Word
    PROVE  /\ SetWait(m, w) \in Word
           /\ SetWait(m, w).own = w.own
           /\ SetWait(m, w).cnt = w.cnt
           /\ SetWait(m, w).hw
           /\ SetWait(m, w).ww <=> w.ww \/ m = "W"
BY Zenon DEF SetWait, Word

\* Giving up one hold leaves a word as long as a reader's hold is counted.
LEMMA MinusFields ==
    ASSUME NEW m \in Mode, NEW w \in Word, m = "R" => w.cnt # 0
    PROVE  /\ Minus(m, w) \in Word
           /\ Minus(m, w).own = IF m = "R" THEN w.own ELSE None
           /\ Minus(m, w).cnt = IF m = "R" THEN w.cnt - 1 ELSE w.cnt
           /\ Minus(m, w).hw <=> w.hw
           /\ Minus(m, w).ww <=> w.ww
BY DEF Minus, Word

\* The words that a hand-off assembles carry both waiter bits or neither.
LEMMA MkWordFields ==
    ASSUME NEW own \in Lwp \cup {None}, NEW cnt \in Nat, NEW wait \in BOOLEAN
    PROVE  /\ MkWord(own, cnt, wait) \in Word
           /\ MkWord(own, cnt, wait).own = own
           /\ MkWord(own, cnt, wait).cnt = cnt
           /\ MkWord(own, cnt, wait).hw <=> wait
           /\ MkWord(own, cnt, wait).ww <=> wait
BY Zenon DEF MkWord, Word

\* The word rw_init writes: no owner, no reader, no waiter.
LEMMA UnlockedFields ==
    /\ Unlocked \in Word /\ Unlocked.own = None /\ Unlocked.cnt = 0
    /\ ~Unlocked.hw /\ ~Unlocked.ww
BY Zenon DEF Unlocked, MkWord, Word

\* The read count as a count: none means nobody reads, one means that any
\* reader is the only one; and who holds the lock decides the word's owner.
LEMMA CountFacts ==
    ASSUME IInv
    PROVE  /\ IsFiniteSet(Readers) /\ rw.cnt \in Nat
           /\ rw.cnt = 0 <=> Readers = {}
           /\ \A l \in Readers : rw.own = None /\ (rw.cnt = 1 => Readers = {l})
<1>1. Readers \in SUBSET Lwp
  BY Zenon DEF Readers
<1>2. IsFiniteSet(Readers)
  BY <1>1, FS_Subset, Zenon
<1>3. /\ rw.cnt = Cardinality(Readers) /\ rw.cnt \in Nat
      /\ rw.own # None => rw.cnt = 0
  BY Zenon DEF IInv, Exclusion, TypeOK, Word
<1>4. rw.cnt = 0 <=> Readers = {}
  BY <1>2, <1>3, FS_EmptySet, Zenon
<1>5. ASSUME NEW l \in Readers, rw.cnt = 1 PROVE Readers = {l}
  <2>1. PICK x : Readers = {x}
    BY <1>2, <1>3, <1>5, FS_Singleton, Zenon
  <2> QED BY <2>1, Zenon
<1> QED BY <1>2, <1>3, <1>4, <1>5, Zenon

\* The call of rw_vector_enter: only the caller's copy changes.
LEMMA EnterPreserves ==
    ASSUME IInv, NEW l \in Lwp, NEW m \in Mode, Enter(l, m)
    PROVE  IInv'
<1> USE DEF Enter
<1>1. TypeOK'
  BY Zenon DEF IInv, TypeOK
<1>2. Readers' = Readers
  BY DEF Readers, ReadHolder
<1>3. Exclusion'
  BY <1>2 DEF IInv, Exclusion, WriteHolder
<1>4. QueueInv'
  BY DEF IInv, QueueInv
<1>5. BitsInv'
  BY DEF IInv, TypeOK, BitsInv, Waits, WriterWaits, WriteWantedIsTrue,
       AwakeWriter, NoThread
<1>6. CopyInv'
  BY DEF IInv, CopyInv, CopyOK
<1> QED BY <1>1, <1>3, <1>4, <1>5, <1>6, Zenon DEF IInv

\* The acquiring CAS of rw_vector_enter, successful or not.
LEMMA EnterCasPreserves ==
    ASSUME IInv, NEW l \in Lwp, EnterCas(l)
    PROVE  IInv'
<1> USE DEF EnterCas
<1>a. /\ rw \in Word /\ owner[l] \in Word /\ op[l] \in Mode
      /\ ~NeedWait(op[l], owner[l])
  BY Zenon DEF IInv, TypeOK
<1>b. rw = owner[l] => /\ rw' \in Word /\ (rw'.hw <=> rw.hw) /\ ~rw'.ww
                       /\ rw'.own = IF op[l] = "R" THEN rw.own ELSE l
                       /\ rw'.cnt = IF op[l] = "R" THEN rw.cnt + 1 ELSE rw.cnt
                       /\ rw.own = None /\ IF op[l] = "R" THEN ~rw.ww ELSE rw.cnt = 0
  BY <1>a, AcquiredFields DEF NeedWait
<1>1. TypeOK'
  BY <1>b, UnlockedFields DEF IInv, TypeOK
<1>2. Readers' = IF rw = owner[l] /\ op[l] = "R" THEN Readers \cup {l}
                 ELSE Readers
  BY DEF IInv, TypeOK, Readers, ReadHolder
<1>3. Exclusion'
  <2>1. CASE rw # owner[l]
    BY <1>2, <2>1, Zenon DEF IInv, Exclusion, WriteHolder
  <2>2. CASE rw = owner[l] /\ op[l] = "R"
    <3>1. l \notin Readers
      BY Zenon DEF Readers, ReadHolder
    <3>2. Cardinality(Readers \cup {l}) = Cardinality(Readers) + 1
      BY <3>1, CountFacts, FS_AddElement, Zenon
    <3>3. rw'.cnt = Cardinality(Readers')
      BY <1>2, <1>b, <3>2, Zenon DEF IInv, Exclusion
    <3> QED BY <1>b, <3>3 DEF IInv, TypeOK, Exclusion, WriteHolder
  <2>3. CASE rw = owner[l] /\ op[l] = "W"
    BY <1>2, <1>b, <2>3 DEF IInv, TypeOK, Exclusion, WriteHolder
  <2> QED BY <1>a, <2>1, <2>2, <2>3, Zenon
<1>4. QueueInv'
  BY DEF IInv, TypeOK, QueueInv
<1>5. BitsInv'
  <2>1. CASE rw # owner[l]
    BY <2>1 DEF IInv, TypeOK, BitsInv, Waits, WriterWaits, WriteWantedIsTrue,
         AwakeWriter, NoThread
  <2>2. CASE rw = owner[l]
    <3>1. /\ \A k \in Lwp : Waits(k)' <=> Waits(k)
          /\ WriterWaits' <=> WriterWaits
      BY DEF IInv, TypeOK, Waits, WriterWaits
    <3>2. WriteWantedIsTrue'
      <4> SUFFICES ASSUME rw'.ww PROVE WriteWantedIsTrue'
        BY Zenon DEF WriteWantedIsTrue
      <4>1. PICK k \in Lwp : AwakeWriter(k) \/ (op[k] = "W" /\ Waits(k))
        BY <1>b, Zenon DEF IInv, BitsInv, WriteWantedIsTrue, Waits
      <4>2. k # l
        BY <1>b, <2>2, Zenon
      <4> QED BY <1>b, <4>1, Zenon DEF IInv, WriteWantedIsTrue, AwakeWriter,
        Waits
    <3> QED BY <1>b, <3>1, <3>2, Zenon DEF IInv, BitsInv, NoThread
  <2> QED BY <2>1, <2>2, Zenon
<1>6. CopyInv'
  <2>1. CASE rw # owner[l]
    BY <2>1 DEF IInv, TypeOK, CopyInv, CopyOK
  <2>2. CASE rw = owner[l]
    <3>1. \A k \in Lwp : ~WriteHolder(k)
      BY <1>b, <2>2, Zenon DEF IInv, Exclusion
    <3>2. rw.cnt # 0 => op[l] = "R" /\ ~rw.hw
      BY <1>b, <2>2, Zenon DEF IInv, BitsInv
    <3>3. rw.cnt = 0 => \A k \in Lwp : ~ReadHolder(k)
      BY CountFacts, Zenon DEF Readers
    <3> QED BY <3>1, <3>2 DEF IInv, TypeOK, CopyInv, CopyOK, NeedWait,
      WriteHolder
  <2> QED BY <2>1, <2>2, Zenon
<1> QED BY <1>1, <1>3, <1>4, <1>5, <1>6, Zenon DEF IInv

\* The acquiring CAS of rw_tryenter, successful or not.
LEMMA TryCasPreserves ==
    ASSUME IInv, NEW l \in Lwp, TryCas(l)
    PROVE  IInv'
<1> USE DEF TryCas
<1>a. /\ rw \in Word /\ owner[l] \in Word /\ op[l] \in Mode
      /\ ~NeedWait(op[l], owner[l])
  BY Zenon DEF IInv, TypeOK, CopyInv, CopyOK
<1>b. rw = owner[l] => /\ rw' \in Word /\ (rw'.hw <=> rw.hw) /\ (rw'.ww <=> rw.ww)
                       /\ rw'.own = IF op[l] = "R" THEN rw.own ELSE l
                       /\ rw'.cnt = IF op[l] = "R" THEN rw.cnt + 1 ELSE rw.cnt
                       /\ rw.own = None /\ IF op[l] = "R" THEN ~rw.ww ELSE rw.cnt = 0
  BY <1>a, PlusFields DEF NeedWait
<1>1. TypeOK'
  BY <1>b, UnlockedFields DEF IInv, TypeOK
<1>2. Readers' = IF rw = owner[l] /\ op[l] = "R" THEN Readers \cup {l}
                 ELSE Readers
  BY DEF IInv, TypeOK, Readers, ReadHolder
<1>3. Exclusion'
  <2>1. CASE rw # owner[l]
    BY <1>2, <2>1 DEF IInv, TypeOK, Exclusion, WriteHolder
  <2>2. CASE rw = owner[l] /\ op[l] = "R"
    <3>1. l \notin Readers
      BY Zenon DEF Readers, ReadHolder
    <3>2. Cardinality(Readers \cup {l}) = Cardinality(Readers) + 1
      BY <3>1, CountFacts, FS_AddElement, Zenon
    <3>3. rw'.cnt = Cardinality(Readers')
      BY <1>2, <1>b, <3>2, Zenon DEF IInv, Exclusion
    <3> QED BY <1>b, <3>3 DEF IInv, TypeOK, Exclusion, WriteHolder
  <2>3. CASE rw = owner[l] /\ op[l] = "W"
    BY <1>2, <1>b, <2>3 DEF IInv, TypeOK, Exclusion, WriteHolder
  <2> QED BY <1>a, <2>1, <2>2, <2>3, Zenon
<1>4. QueueInv'
  BY DEF IInv, TypeOK, QueueInv
<1>5. BitsInv'
  <2>1. CASE rw # owner[l]
    BY <2>1 DEF IInv, TypeOK, BitsInv, Waits, WriterWaits, WriteWantedIsTrue,
       AwakeWriter
  <2>2. CASE rw = owner[l]
    <3>1. /\ \A k \in Lwp : Waits(k)' <=> Waits(k)
          /\ WriterWaits' <=> WriterWaits
      BY DEF IInv, TypeOK, Waits, WriterWaits
    <3>2. WriteWantedIsTrue'
      <4> SUFFICES ASSUME rw'.ww PROVE WriteWantedIsTrue'
        BY Zenon DEF WriteWantedIsTrue
      <4>1. PICK k \in Lwp : AwakeWriter(k) \/ (op[k] = "W" /\ Waits(k))
        BY <1>b, Zenon DEF IInv, TypeOK, BitsInv, WriteWantedIsTrue, Waits
      <4>2. k # l
        BY <2>2, <4>1, Zenon DEF AwakeWriter, Waits, IInv
      <4> QED BY <1>b, <4>1 DEF IInv, TypeOK, WriteWantedIsTrue, AwakeWriter,
        Waits
    <3> QED BY <1>b, <3>1, <3>2, Zenon DEF IInv, BitsInv, NoThread
  <2> QED BY <2>1, <2>2, Zenon
<1>6. CopyInv'
  <2>1. CASE rw # owner[l]
    BY <2>1 DEF IInv, TypeOK, CopyInv, CopyOK
  <2>2. CASE rw = owner[l]
    <3>1. \A k \in Lwp : ~WriteHolder(k)
      BY <1>b, <2>2, Zenon DEF IInv, Exclusion
    <3>2. rw.cnt # 0 => op[l] = "R" /\ ~rw.hw
      BY <1>b, <2>2, Zenon DEF IInv, BitsInv
    <3>3. rw.cnt = 0 => \A k \in Lwp : ~ReadHolder(k)
      BY CountFacts, Zenon DEF Readers
    <3> QED BY <2>2, <3>1, <3>2 DEF IInv, TypeOK, CopyInv, CopyOK, WriteHolder
  <2> QED BY <2>1, <2>2, Zenon
<1> QED BY <1>1, <1>3, <1>4, <1>5, <1>6, Zenon DEF IInv

\* rw_vector_enter decides to wait: nothing shared changes.
LEMMA EnterWaitPreserves ==
    ASSUME IInv, NEW l \in Lwp, EnterWait(l)
    PROVE  IInv'
<1> USE DEF EnterWait
<1>1. TypeOK'
  BY UnlockedFields DEF IInv, TypeOK
<1>2. Readers' = Readers
  BY Zenon DEF IInv, TypeOK, Readers, ReadHolder
<1>3. Exclusion'
  BY <1>2 DEF IInv, TypeOK, Exclusion, WriteHolder
<1>4. QueueInv'
  BY DEF IInv, TypeOK, QueueInv
<1>5. BitsInv'
  BY DEF IInv, TypeOK, BitsInv, Waits, WriterWaits, WriteWantedIsTrue,
     AwakeWriter
<1>6. CopyInv'
  BY DEF IInv, TypeOK, CopyInv, CopyOK, Exclusion, WriteHolder
<1> QED BY <1>1, <1>3, <1>4, <1>5, <1>6, Zenon DEF IInv

\* A turn of the spin loop on a running owner: the copy is refreshed.
LEMMA SpinPreserves ==
    ASSUME IInv, NEW l \in Lwp, Spin(l)
    PROVE  IInv'
<1> USE DEF Spin
<1>1. TypeOK'
  BY DEF IInv, TypeOK
<1>2. Readers' = Readers
  BY Zenon DEF IInv, TypeOK, Readers, ReadHolder
<1>3. Exclusion'
  BY <1>2 DEF IInv, TypeOK, Exclusion, WriteHolder
<1>4. QueueInv'
  BY DEF IInv, TypeOK, QueueInv
<1>5. BitsInv'
  BY DEF IInv, TypeOK, BitsInv, Waits, WriterWaits, WriteWantedIsTrue,
       AwakeWriter, NoThread
<1>6. CopyInv'
  BY DEF IInv, TypeOK, CopyInv, CopyOK, NeedWait, WriteHolder
<1> QED BY <1>1, <1>3, <1>4, <1>5, <1>6, Zenon DEF IInv

\* turnstile_lookup before blocking takes the chain lock.
LEMMA LookupPreserves ==
    ASSUME IInv, NEW l \in Lwp, Lookup(l)
    PROVE  IInv'
<1> USE DEF Lookup
<1>1. TypeOK'
  BY Zenon DEF IInv, TypeOK
<1>2. Readers' = Readers
  BY DEF Readers, ReadHolder
<1>3. Exclusion'
  BY <1>2 DEF IInv, Exclusion, WriteHolder
<1>4. QueueInv'
  BY Zenon DEF IInv, TypeOK, QueueInv
<1>5. BitsInv'
  BY DEF IInv, BitsInv, Waits, WriterWaits, WriteWantedIsTrue, AwakeWriter,
     NoThread
<1>6. CopyInv'
  BY DEF IInv, CopyInv, CopyOK
<1> QED BY <1>1, <1>3, <1>4, <1>5, <1>6, Zenon DEF IInv

\* The second look at the word, the chain lock held; it may give the lock back.
LEMMA RecheckPreserves ==
    ASSUME IInv, NEW l \in Lwp, Recheck(l)
    PROVE  IInv'
<1> USE DEF Recheck
<1>1. TypeOK'
  BY DEF IInv, TypeOK
<1>2. Readers' = Readers
  BY Zenon DEF IInv, TypeOK, Readers, ReadHolder
<1>3. Exclusion'
  BY <1>2 DEF IInv, TypeOK, Exclusion, WriteHolder
<1>4. QueueInv'
  BY DEF IInv, TypeOK, QueueInv
<1>5. BitsInv'
  BY DEF IInv, TypeOK, BitsInv, Waits, WriterWaits, WriteWantedIsTrue,
     AwakeWriter
<1>6. CopyInv'
  BY DEF IInv, TypeOK, CopyInv, CopyOK
<1> QED BY <1>1, <1>3, <1>4, <1>5, <1>6, Zenon DEF IInv

\* The CAS that sets the waiter bits.  It is here that BitsInv gains a waiter:
\* if the CAS succeeds the LWP is committed to block.
LEMMA MarkWaitersPreserves ==
    ASSUME IInv, NEW l \in Lwp, MarkWaiters(l)
    PROVE  IInv'
<1> USE DEF MarkWaiters
<1>a. /\ rw \in Word /\ owner[l] \in Word /\ op[l] \in Mode
      /\ NeedWait(op[l], owner[l])
  BY Zenon DEF IInv, TypeOK, CopyInv, CopyOK
<1>b. rw = owner[l] => /\ rw' \in Word /\ rw'.own = rw.own /\ rw'.cnt = rw.cnt
                       /\ rw'.hw /\ (rw'.ww <=> rw.ww \/ op[l] = "W")
                       /\ rw.own # None \/ IF op[l] = "R" THEN rw.ww ELSE rw.cnt # 0
  BY <1>a, SetWaitFields DEF NeedWait
<1>1. TypeOK'
  BY <1>b, UnlockedFields DEF IInv, TypeOK
<1>2. Readers' = Readers
  BY Zenon DEF IInv, TypeOK, Readers, ReadHolder
<1>3. Exclusion'
  BY <1>2, <1>b DEF IInv, TypeOK, Exclusion, WriteHolder
<1>4. QueueInv'
  BY DEF IInv, TypeOK, QueueInv
<1>5. BitsInv'
  <2>1. CASE rw # owner[l]
    BY <2>1 DEF IInv, TypeOK, BitsInv, Waits, WriterWaits, WriteWantedIsTrue,
       AwakeWriter
  <2>2. CASE rw = owner[l]
    <3>1. /\ Waits(l)' /\ (rw'.hw <=> \E k \in Lwp : Waits(k)')
          /\ WriterWaits' <=> WriterWaits \/ op[l] = "W"
      BY <1>b, <2>2, Zenon DEF IInv, TypeOK, Waits, WriterWaits
    <3>2. WriteWantedIsTrue'
      BY <1>b DEF IInv, TypeOK, BitsInv, WriteWantedIsTrue, AwakeWriter
    <3>3. rw.own # None => rw.cnt = 0
      BY Zenon DEF IInv, Exclusion
    <3> QED BY <1>a, <1>b, <2>2, <3>1, <3>2, <3>3, Zenon DEF IInv, BitsInv,
      NoThread
  <2> QED BY <2>1, <2>2, Zenon
<1>6. CopyInv'
  <2>1. CASE rw # owner[l]
    BY <2>1 DEF IInv, TypeOK, CopyInv, CopyOK
  <2>2. CASE rw = owner[l]
    BY <1>b DEF IInv, TypeOK, CopyInv, CopyOK, QueueInv
  <2> QED BY <2>1, <2>2, Zenon
<1> QED BY <1>1, <1>3, <1>4, <1>5, <1>6, Zenon DEF IInv

\* turnstile_block puts a committed waiter on its queue and drops the chain lock.
LEMMA BlockPreserves ==
    ASSUME IInv, NEW l \in Lwp, Block(l)
    PROVE  IInv'
<1> USE DEF Block
<1>1. TypeOK'
  BY Zenon DEF IInv, TypeOK
<1>2. Readers' = Readers
  BY DEF Readers, ReadHolder
<1>3. Exclusion'
  BY <1>2 DEF IInv, Exclusion, WriteHolder
<1>4. QueueInv'
  BY DEF IInv, TypeOK, QueueInv
<1>5. BitsInv'
  BY DEF IInv, BitsInv, Waits, WriterWaits, WriteWantedIsTrue, AwakeWriter
<1>6. CopyInv'
  BY DEF IInv, TypeOK, CopyInv, CopyOK
<1> QED BY <1>1, <1>3, <1>4, <1>5, <1>6, Zenon DEF IInv

\* A woken LWP that was not handed the lock goes round the loop again.
LEMMA AwakePreserves ==
    ASSUME IInv, NEW l \in Lwp, Awake(l)
    PROVE  IInv'
<1> USE DEF Awake
<1>1. TypeOK'
  BY UnlockedFields DEF IInv, TypeOK
<1>2. Readers' = Readers
  BY Zenon DEF IInv, TypeOK, Readers, ReadHolder
<1>3. Exclusion'
  BY <1>2 DEF IInv, TypeOK, Exclusion, WriteHolder
<1>4. QueueInv'
  BY DEF IInv, TypeOK, QueueInv
<1>5. BitsInv'
  BY DEF IInv, TypeOK, BitsInv, Waits, WriterWaits, WriteWantedIsTrue,
     AwakeWriter
<1>6. CopyInv'
  BY DEF IInv, TypeOK, CopyInv, CopyOK
<1> QED BY <1>1, <1>3, <1>4, <1>5, <1>6, Zenon DEF IInv

\* The call of rw_vector_exit, by a holder of the lock.
LEMMA ExitPreserves ==
    ASSUME IInv, NEW l \in Lwp, Exit(l)
    PROVE  IInv'
<1> USE DEF Exit
<1>0. /\ pc[l] = "read" => rw.own = None /\ rw.cnt # 0
      /\ pc[l] = "write" => rw.own = l /\ rw.cnt = 0
  BY CountFacts, Zenon DEF IInv, Exclusion, WriteHolder, Readers, ReadHolder
<1>1. TypeOK'
  BY Zenon DEF IInv, TypeOK
<1>2. Readers' = Readers
  BY <1>0, Zenon DEF IInv, TypeOK, Readers, ReadHolder
<1>3. Exclusion'
  BY <1>0, <1>2 DEF IInv, TypeOK, Exclusion, WriteHolder
<1>4. QueueInv'
  BY DEF IInv, QueueInv
<1>5. BitsInv'
  BY DEF IInv, BitsInv, Waits, WriterWaits, WriteWantedIsTrue, AwakeWriter
<1>6. CopyInv'
  BY <1>0 DEF IInv, TypeOK, CopyInv, CopyOK
<1> QED BY <1>1, <1>3, <1>4, <1>5, <1>6, Zenon DEF IInv

\* turnstile_lookup before the hand-off takes the chain lock.
LEMMA ExitLookupPreserves ==
    ASSUME IInv, NEW l \in Lwp, ExitLookup(l)
    PROVE  IInv'
<1> USE DEF ExitLookup
<1>1. TypeOK'
  BY Zenon DEF IInv, TypeOK
<1>2. Readers' = Readers
  BY DEF Readers, ReadHolder
<1>3. Exclusion'
  BY <1>2 DEF IInv, Exclusion, WriteHolder
<1>4. QueueInv'
  BY Zenon DEF IInv, TypeOK, QueueInv
<1>5. BitsInv'
  BY DEF IInv, BitsInv, Waits, WriterWaits, WriteWantedIsTrue, AwakeWriter
<1>6. CopyInv'
  BY DEF IInv, TypeOK, CopyInv, CopyOK
<1> QED BY <1>1, <1>3, <1>4, <1>5, <1>6, Zenon DEF IInv

\* The first test of rw_tryenter.
LEMMA TryEnterPreserves ==
    ASSUME IInv, NEW l \in Lwp, NEW m \in Mode, TryEnter(l, m)
    PROVE  IInv'
<1> USE DEF TryEnter
<1>1. TypeOK'
  BY Zenon DEF IInv, TypeOK
<1>2. Readers' = Readers
  BY DEF Readers, ReadHolder
<1>3. Exclusion'
  BY <1>2 DEF IInv, Exclusion, WriteHolder
<1>4. QueueInv'
  BY DEF IInv, QueueInv
<1>5. BitsInv'
  BY DEF IInv, BitsInv, Waits, WriterWaits, WriteWantedIsTrue, AwakeWriter
<1>6. CopyInv'
  BY DEF IInv, TypeOK, CopyInv, CopyOK
<1> QED BY <1>1, <1>3, <1>4, <1>5, <1>6, Zenon DEF IInv

\* The call of rw_downgrade, by the writer.
LEMMA DowngradePreserves ==
    ASSUME IInv, NEW l \in Lwp, Downgrade(l)
    PROVE  IInv'
<1> USE DEF Downgrade
<1>1. TypeOK'
  BY Zenon DEF IInv, TypeOK
<1>2. Readers' = Readers
  BY DEF IInv, Readers, ReadHolder
<1>3. Exclusion'
  BY <1>2 DEF IInv, Exclusion, WriteHolder
<1>4. QueueInv'
  BY DEF IInv, QueueInv
<1>5. BitsInv'
  BY DEF IInv, BitsInv, Waits, WriterWaits, WriteWantedIsTrue, AwakeWriter,
     NoThread
<1>6. CopyInv'
  BY DEF IInv, TypeOK, CopyInv, CopyOK
<1> QED BY <1>1, <1>3, <1>4, <1>5, <1>6, Zenon DEF IInv

\* rw_downgrade finds waiters and takes the chain lock.
LEMMA DowngradeLookupPreserves ==
    ASSUME IInv, NEW l \in Lwp, DowngradeLookup(l)
    PROVE  IInv'
<1> USE DEF DowngradeLookup
<1>1. TypeOK'
  BY Zenon DEF IInv, TypeOK
<1>2. Readers' = Readers
  BY DEF Readers, ReadHolder
<1>3. Exclusion'
  BY <1>2 DEF IInv, Exclusion, WriteHolder
<1>4. QueueInv'
  BY Zenon DEF IInv, TypeOK, QueueInv
<1>5. BitsInv'
  BY DEF IInv, TypeOK, BitsInv, Waits, WriterWaits, WriteWantedIsTrue,
       AwakeWriter, NoThread
<1>6. CopyInv'
  BY DEF IInv, CopyInv, CopyOK, WriteHolder
<1> QED BY <1>1, <1>3, <1>4, <1>5, <1>6, Zenon DEF IInv

\* The first test of rw_tryupgrade.
LEMMA TryUpgradePreserves ==
    ASSUME IInv, NEW l \in Lwp, TryUpgrade(l)
    PROVE  IInv'
<1> USE DEF TryUpgrade
<1>1. TypeOK'
  BY Zenon DEF IInv, TypeOK
<1>2. Readers' = Readers
  BY DEF Readers, ReadHolder
<1>3. Exclusion'
  BY <1>2 DEF IInv, Exclusion, WriteHolder
<1>4. QueueInv'
  BY DEF IInv, QueueInv
<1>5. BitsInv'
  BY DEF IInv, BitsInv, Waits, WriterWaits, WriteWantedIsTrue, AwakeWriter
<1>6. CopyInv'
  BY DEF IInv, TypeOK, CopyInv, CopyOK, NeedWait, Exclusion
<1> QED BY <1>1, <1>3, <1>4, <1>5, <1>6, Zenon DEF IInv

\* The releasing CAS of rw_vector_exit.  A release that sees the last hold and
\* waiters keeps the word and goes to hand the lock over.
LEMMA ReleasePreserves ==
    ASSUME IInv, NEW l \in Lwp, Release(l)
    PROVE  IInv'
<1> DEFINE new == Minus(op[l], owner[l])
<1>a. /\ rw \in Word /\ owner[l] \in Word /\ op[l] \in Mode /\ pc[l] = "release"
      /\ op[l] = "R" => /\ owner[l].own = None /\ owner[l].cnt # 0
                        /\ owner[l].cnt = 1 /\ owner[l].hw => rw.cnt = 1 /\ rw.hw
      /\ op[l] = "W" => /\ owner[l].own = l /\ owner[l].cnt = 0
                        /\ owner[l].hw => rw.hw
  BY Zenon DEF IInv, TypeOK, CopyInv, CopyOK, Release
<1>b. /\ new \in Word /\ new.own = None /\ (new.hw <=> owner[l].hw)
      /\ new.cnt = (IF op[l] = "R" THEN owner[l].cnt - 1 ELSE 0)
      /\ new.ww <=> owner[l].ww
  BY <1>a, MinusFields
<1>c. \/ /\ FreedWithWaiters(new) /\ rw' = rw /\ Goto(l, "xlookup") /\ Forget(l)
      \/ /\ ~FreedWithWaiters(new) /\ rw = owner[l] /\ rw' = new
         /\ Goto(l, "idle") /\ Forget(l)
      \/ /\ ~FreedWithWaiters(new) /\ rw' = rw /\ Load(l, rw) /\ pc' = pc
  BY Zenon DEF Release
<1>d. ts' = ts /\ tc' = tc /\ op' = op
  BY Zenon DEF Release
<1> HIDE DEF new
<1>1. CASE FreedWithWaiters(new) /\ rw' = rw /\ Goto(l, "xlookup") /\ Forget(l)
  <2> USE <1>1
  <2>1. TypeOK'
    BY <1>d, UnlockedFields, Zenon DEF IInv, TypeOK
  <2>2. Readers' = Readers
    BY <1>a, <1>d DEF Readers, ReadHolder
  <2>3. Exclusion'
    BY <1>a, <1>d, <2>2 DEF IInv, Exclusion, WriteHolder
  <2>4. QueueInv'
    BY <1>a, <1>d DEF IInv, QueueInv
  <2>5. BitsInv'
    BY <1>a, <1>d DEF IInv, BitsInv, Waits, WriterWaits, WriteWantedIsTrue,
       AwakeWriter
  <2>6. rw.hw /\ (op[l] = "R" => rw.cnt = 1)
    BY <1>a, <1>b DEF FreedWithWaiters, NoThread, Word
  <2>7. CopyInv'
    BY <1>d, <2>6 DEF IInv, TypeOK, CopyInv, CopyOK
  <2> QED BY <2>1, <2>3, <2>4, <2>5, <2>7, Zenon DEF IInv
<1>2. CASE /\ ~FreedWithWaiters(new) /\ rw = owner[l] /\ rw' = new
           /\ Goto(l, "idle") /\ Forget(l)
  <2> USE <1>2
  <2>a. op[l] = "W" => rw.own = l /\ rw.cnt = 0
    BY <1>a, Zenon
  <2>b. op[l] = "R" => rw.own = None /\ l \in Readers /\ rw.cnt # 0
    BY <1>a, Zenon DEF Readers, ReadHolder
  <2>c. ~rw.hw \/ rw.cnt > 1
    BY <1>a, <1>b DEF FreedWithWaiters, NoThread, Word
  <2>1. TypeOK'
    BY <1>b, <1>d, UnlockedFields, Zenon DEF IInv, TypeOK
  <2>2. Readers' = Readers \ {l}
    BY <1>d, Zenon DEF IInv, TypeOK, Readers, ReadHolder
  <2>3. Cardinality(Readers') = IF op[l] = "R" THEN Cardinality(Readers) - 1
                                ELSE Cardinality(Readers)
    <3>1. op[l] = "W" => l \notin Readers
      BY <1>a, Zenon DEF Readers, ReadHolder
    <3> QED BY <1>a, <2>2, <2>b, CountFacts, FS_RemoveElement, Zenon
  <2>4. Exclusion'
    <3>1. rw'.cnt = Cardinality(Readers')
      BY <1>a, <1>b, <2>3, Zenon DEF IInv, Exclusion
    <3>2. ASSUME NEW k \in Lwp PROVE ~WriteHolder(k)'
      BY <1>b, <1>d, <2>a, <2>b DEF IInv, TypeOK, Exclusion, WriteHolder
    <3> QED BY <1>b, <3>1, <3>2, Zenon DEF Exclusion
  <2>5. QueueInv'
    BY <1>a, <1>d DEF IInv, QueueInv
  <2>6. BitsInv'
    <3>1. /\ \A k \in Lwp : Waits(k)' <=> Waits(k)
          /\ WriterWaits' <=> WriterWaits
      BY <1>a, <1>d DEF Waits, WriterWaits
    <3>2. WriteWantedIsTrue'
      <4>1. \A k \in Lwp : AwakeWriter(k) => AwakeWriter(k)'
        BY <1>a, <1>b, <1>d DEF AwakeWriter
      <4> QED BY <1>b, <1>d, <3>1, <4>1, Zenon DEF IInv, BitsInv,
        WriteWantedIsTrue, Waits
    <3>3. WriterWaits => rw.hw
      BY Zenon DEF IInv, BitsInv, WriterWaits
    <3>4. rw.cnt # 0 /\ ~rw.hw => ~rw.ww
      BY Zenon DEF IInv, BitsInv
    <3> QED BY <1>a, <1>b, <2>c, <3>1, <3>2, <3>3 DEF IInv, BitsInv, NoThread,
      Word
  <2>7. CopyInv'
    <3>1. ASSUME NEW k \in Lwp, k # l, WriteHolder(k) PROVE FALSE
      BY <1>a, <3>1, Zenon DEF IInv, Exclusion
    <3>2. ASSUME NEW k \in Lwp, k # l, ReadHolder(k) PROVE rw.cnt # 1 /\ op[l] = "R"
      BY <1>a, <2>b, <3>2, CountFacts, Zenon DEF Readers
    <3> QED BY <1>d, <3>1, <3>2 DEF IInv, TypeOK, CopyInv, CopyOK,
      WriteHolder, ReadHolder
  <2> QED BY <2>1, <2>4, <2>5, <2>6, <2>7, Zenon DEF IInv
<1>3. CASE ~FreedWithWaiters(new) /\ rw' = rw /\ Load(l, rw) /\ pc' = pc
  <2> USE <1>3
  <2>1. TypeOK'
    BY <1>d, Zenon DEF IInv, TypeOK
  <2>2. Readers' = Readers
    BY <1>d, Zenon DEF Readers, ReadHolder
  <2>3. Exclusion'
    BY <1>d, <2>2, Zenon DEF IInv, Exclusion, WriteHolder
  <2>4. QueueInv'
    BY <1>d, Zenon DEF IInv, QueueInv
  <2>5. BitsInv'
    BY <1>d, Zenon DEF IInv, BitsInv, Waits, WriterWaits, WriteWantedIsTrue,
       AwakeWriter, NoThread
  <2>6. /\ op[l] = "W" => rw.own = l /\ rw.cnt = 0
        /\ op[l] = "R" => rw.own = None /\ rw.cnt # 0
    BY <1>a, CountFacts, ZenonT(30) DEF IInv, Exclusion, WriteHolder, Readers,
       ReadHolder
  <2>7. CopyInv'
    BY <1>a, <1>d, <2>6 DEF IInv, CopyInv, CopyOK
  <2> QED BY <2>1, <2>3, <2>4, <2>5, <2>7, Zenon DEF IInv
<1> QED BY <1>c, <1>1, <1>2, <1>3, Zenon

\* The CAS of rw_downgrade when nobody waits.
LEMMA DowngradeCasPreserves ==
    ASSUME IInv, NEW l \in Lwp, DowngradeCas(l)
    PROVE  IInv'
<1>a. pc[l] = "dcas" /\ ts' = ts /\ tc' = tc
  BY Zenon DEF DowngradeCas
<1>b. rw.own = l /\ rw.cnt = 0 /\ Readers = {} /\ rw \in Word
      /\ ~owner[l].hw /\ (rw.hw \/ rw = owner[l])
  BY <1>a, CountFacts, Zenon DEF IInv, TypeOK, Exclusion, WriteHolder,
     CopyInv, CopyOK
<1>1. CASE /\ rw = owner[l] /\ rw' = MkWord(None, 1, FALSE)
           /\ op' = [op EXCEPT ![l] = "R"] /\ Goto(l, "read") /\ Forget(l)
  <2> USE <1>1
  <2>a. rw' \in Word /\ rw'.own = None /\ rw'.cnt = 1 /\ ~rw'.hw /\ ~rw'.ww
    BY Zenon DEF MkWord, Word
  <2>b. \A k \in Lwp : ~Waits(k) /\ ~Waits(k)'
    BY <1>b DEF IInv, BitsInv, Waits
  <2>1. TypeOK'
    BY <1>a, <2>a, UnlockedFields, Zenon DEF IInv, TypeOK
  <2>2. Readers' = {l}
    BY <1>b DEF IInv, TypeOK, Readers, ReadHolder
  <2>3. Exclusion'
    <3>1. ASSUME NEW k \in Lwp PROVE ~WriteHolder(k)'
      BY <1>a, <1>b, <2>a, ZenonT(30) DEF IInv, TypeOK, Exclusion, WriteHolder
    <3> QED BY <2>2, <2>a, <3>1, FS_Singleton, Zenon DEF Exclusion
  <2>4. QueueInv'
    BY <1>a DEF IInv, QueueInv
  <2>5. BitsInv'
    BY <2>a, <2>b, Zenon DEF BitsInv, WriterWaits, WriteWantedIsTrue
  <2>6. CopyInv'
    <3>1. \A k \in Lwp : k # l => ~WriteHolder(k) /\ ~ReadHolder(k)
      BY <1>b, Zenon DEF IInv, Exclusion, Readers
    <3>2. \A k \in Lwp : k # l => pc[k] \notin {"release", "xlookup", "handoff",
                                                "dcas", "dlookup", "dswap"}
      BY <3>1, Zenon DEF WriteHolder, ReadHolder, IInv, TypeOK
    <3> SUFFICES ASSUME NEW k \in Lwp PROVE CopyOK(k)'
      BY Zenon DEF CopyInv
    <3>3. CASE k = l
      BY <3>3, Zenon DEF CopyOK, IInv, TypeOK
    <3>4. CASE k # l
      <4>1. pc'[k] = pc[k] /\ op'[k] = op[k] /\ owner'[k] = owner[k] /\ CopyOK(k)
        BY <3>4 DEF IInv, CopyInv
      <4> QED BY <3>2, <3>4, <4>1, Zenon DEF CopyOK
    <3> QED BY <3>3, <3>4, Zenon
  <2> QED BY <2>1, <2>3, <2>4, <2>5, <2>6, Zenon DEF IInv
<1>2. CASE /\ rw # owner[l] /\ Load(l, rw) /\ Goto(l, "dlookup")
           /\ rw' = rw /\ op' = op
  <2> USE <1>2
  <2>1. TypeOK'
    BY <1>a, Zenon DEF IInv, TypeOK
  <2>2. Readers' = Readers
    BY <1>a DEF Readers, ReadHolder
  <2>3. Exclusion'
    BY <1>a, <2>2 DEF IInv, Exclusion, WriteHolder
  <2>4. QueueInv'
    BY <1>a DEF IInv, QueueInv
  <2>5. BitsInv'
    BY <1>a DEF IInv, BitsInv, Waits, WriterWaits, WriteWantedIsTrue,
       AwakeWriter, NoThread
  <2>6. CopyInv'
    BY <1>b DEF IInv, TypeOK, CopyInv, CopyOK
  <2> QED BY <2>1, <2>3, <2>4, <2>5, <2>6, Zenon DEF IInv
<1> QED BY <1>1, <1>2, Zenon DEF DowngradeCas

\* The CAS of rw_tryupgrade: only a sole reader becomes the writer.
LEMMA UpgradeCasPreserves ==
    ASSUME IInv, NEW l \in Lwp, UpgradeCas(l)
    PROVE  IInv'
<1>a. pc[l] = "up" /\ ts' = ts /\ tc' = tc /\ l \in Readers
  BY Zenon DEF UpgradeCas, Readers, ReadHolder
<1>b. rw.own = None /\ rw.cnt # 0 /\ rw \in Word /\ (rw.cnt = 1 => Readers = {l})
  BY <1>a, CountFacts, Zenon DEF IInv, TypeOK
<1>1. CASE /\ SoleReader(owner[l]) /\ rw = owner[l]
           /\ rw' = [owner[l] EXCEPT !.own = l, !.cnt = 0]
           /\ op' = [op EXCEPT ![l] = "W"] /\ Goto(l, "write") /\ Forget(l)
  <2> USE <1>1
  <2>a. /\ rw' \in Word /\ rw'.own = l /\ rw'.cnt = 0
        /\ (rw'.hw <=> rw.hw) /\ (rw'.ww <=> rw.ww)
    BY <1>b, Zenon DEF Word
  <2>b. rw.cnt = 1 /\ Readers = {l}
    BY <1>b, Zenon DEF SoleReader
  <2>1. TypeOK'
    BY <1>a, <2>a, UnlockedFields, Zenon DEF IInv, TypeOK
  <2>2. Readers' = {}
    BY <2>b, Zenon DEF IInv, TypeOK, Readers, ReadHolder
  <2>3. Exclusion'
    <3>1. ASSUME NEW k \in Lwp PROVE WriteHolder(k)' <=> k = l
      BY <1>b DEF IInv, TypeOK, Exclusion, WriteHolder
    <3> QED BY <2>2, <3>1, FS_EmptySet DEF Exclusion
  <2>4. QueueInv'
    BY <1>a DEF IInv, QueueInv
  <2>5. BitsInv'
    <3>1. /\ \A k \in Lwp : Waits(k)' <=> Waits(k)
          /\ WriterWaits' <=> WriterWaits
      BY <1>a DEF Waits, WriterWaits
    <3>2. \A k \in Lwp : AwakeWriter(k) => AwakeWriter(k)'
      BY <1>a DEF TypeOK, AwakeWriter
    <3>3. \A k \in Lwp : Waits(k) => op'[k] = op[k]
      BY <1>a DEF Waits
    <3>4. WriteWantedIsTrue'
      BY <3>1, <3>2 DEF IInv, BitsInv, WriteWantedIsTrue, Waits
    <3> QED BY <3>1, <3>4 DEF IInv, BitsInv, NoThread
  <2>6. CopyInv'
    <3>1. \A k \in Lwp : k # l => ~WriteHolder(k) /\ ~ReadHolder(k)
      BY <2>b DEF IInv, Exclusion, Readers
    <3>2. \A k \in Lwp : k # l => pc[k] \notin {"release", "xlookup", "handoff",
                                                "dcas", "dlookup", "dswap"}
      BY <3>1, Zenon DEF WriteHolder, ReadHolder, IInv, TypeOK
    <3> SUFFICES ASSUME NEW k \in Lwp PROVE CopyOK(k)'
      BY Zenon DEF CopyInv
    <3>3. CASE k = l
      BY <3>3, Zenon DEF CopyOK, IInv, TypeOK
    <3>4. CASE k # l
      <4>1. pc'[k] = pc[k] /\ op'[k] = op[k] /\ owner'[k] = owner[k] /\ CopyOK(k)
        BY <3>4 DEF IInv, CopyInv
      <4> QED BY <3>2, <3>4, <4>1, Zenon DEF CopyOK
    <3> QED BY <3>3, <3>4, Zenon
  <2> QED BY <2>1, <2>3, <2>4, <2>5, <2>6, Zenon DEF IInv
<1>2. CASE /\ rw' = rw /\ op' = op /\ pc'[l] \in {"read", "up"}
           /\ pc' = [pc EXCEPT ![l] = pc'[l]]
           /\ \E w \in Word : Load(l, w)
  <2> USE <1>2
  <2>1. TypeOK'
    BY <1>a DEF IInv, TypeOK
  <2>2. Readers' = Readers
    BY <1>a, Zenon DEF IInv, TypeOK, Readers, ReadHolder
  <2>3. Exclusion'
    BY <1>a, <2>2 DEF IInv, TypeOK, Exclusion, WriteHolder
  <2>4. QueueInv'
    BY <1>a DEF IInv, TypeOK, QueueInv
  <2>5. BitsInv'
    BY <1>a DEF IInv, TypeOK, BitsInv, Waits, WriterWaits, WriteWantedIsTrue,
       AwakeWriter
  <2>6. CopyInv'
    BY DEF IInv, TypeOK, CopyInv, CopyOK
  <2> QED BY <2>1, <2>3, <2>4, <2>5, <2>6, Zenon DEF IInv
<1>3. pc \in [Lwp -> Labels] /\ Unlocked \in Word
  BY UnlockedFields, Zenon DEF IInv, TypeOK
<1> QED BY <1>1, <1>2, <1>3, <1>b, Zenon DEF UpgradeCas

\* rw_downgrade with waiters: all waiting readers share the lock with the caller.
LEMMA DowngradeSwapPreserves ==
    ASSUME IInv, NEW l \in Lwp, DowngradeSwap(l)
    PROVE  IInv'
<1>a. pc[l] = "dswap" /\ tc = l /\ tc' = None
  BY Zenon DEF DowngradeSwap, Wakeup, IInv, QueueInv
<1>b. rw.own = l /\ rw.cnt = 0 /\ Readers = {} /\ rw.hw /\ rw \in Word
  BY <1>a, CountFacts, Zenon DEF IInv, TypeOK, Exclusion, WriteHolder,
     CopyInv, CopyOK
<1>c. /\ \A k \in Lwp : pc[k] # "block"
      /\ \A k \in Lwp : pc[k] = "sleep" <=> k \in ts["R"] \cup ts["W"]
      /\ \A k \in Lwp : k \in ts["R"] <=> pc[k] = "sleep" /\ op[k] = "R"
      /\ \A k \in Lwp : k \in ts["W"] <=> pc[k] = "sleep" /\ op[k] = "W"
      /\ ts["R"] \subseteq Lwp /\ ts["W"] \subseteq Lwp
  BY <1>a, Zenon DEF IInv, TypeOK, QueueInv
<1>d. ts["R"] # {} \/ ts["W"] # {}
  BY <1>b, <1>c, Zenon DEF IInv, BitsInv, Waits
<1>1. CASE /\ rw = owner[l] /\ Wakeup(l, "R", ts["R"], "read") /\ Forget(l)
           /\ rw' = IF ts["R"] = {}
                    THEN MkWord(None, 1, TRUE)
                    ELSE MkWord(None, Cardinality(ts["R"]) + 1, ts["W"] # {})
           /\ op' = [op EXCEPT ![l] = "R"]
  <2> USE <1>1
  <2>a. Cardinality(ts["R"]) \in Nat /\ IsFiniteSet(ts["R"])
    BY <1>c, FS_Subset, FS_CardinalityType, Zenon
  <2>b. /\ rw' \in Word /\ rw'.own = None /\ rw'.cnt = Cardinality(ts["R"]) + 1
        /\ rw'.hw <=> ts["W"] # {}
        /\ rw'.ww <=> ts["W"] # {}
    <3>1. rw' = MkWord(None, Cardinality(ts["R"]) + 1, ts["W"] # {})
      <4>1. ts["R"] = {} => Cardinality(ts["R"]) + 1 = 1 /\ (ts["W"] # {}) = TRUE
        BY <1>d, FS_EmptySet, SMTT(30)
      <4> QED BY <4>1, ZenonT(30)
    <3>2. CASE ts["W"] = {}
      <4>1. rw' = MkWord(None, Cardinality(ts["R"]) + 1, FALSE)
        BY <3>1, <3>2, Zenon
      <4> QED BY <2>a, <3>2, <4>1 DEF MkWord, Word
    <3>3. CASE ts["W"] # {}
      <4>1. rw' = MkWord(None, Cardinality(ts["R"]) + 1, TRUE)
        BY <3>1, <3>3, Zenon
      <4> QED BY <2>a, <3>3, <4>1 DEF MkWord, Word
    <3> QED BY <3>2, <3>3, Zenon
  <2>c. /\ \A k \in Lwp : pc'[k] = IF k \in ts["R"] THEN "woken"
                                  ELSE IF k = l THEN "read" ELSE pc[k]
        /\ ts'["R"] = {} /\ ts'["W"] = ts["W"] /\ ts' \in [Mode -> SUBSET Lwp]
        /\ pc' \in [Lwp -> Labels]
        /\ \A k \in Lwp : k # l => op'[k] = op[k] /\ owner'[k] = owner[k]
        /\ l \notin ts["R"] /\ op'[l] = "R"
    BY <1>a, <1>c, Zenon DEF Wakeup, IInv, TypeOK
  <2>1. TypeOK'
    BY <1>a, <2>b, <2>c, UnlockedFields, Zenon DEF IInv, TypeOK
  <2>2. Readers' = ts["R"] \cup {l}
    BY <1>b, <1>c, <2>c DEF Readers, ReadHolder
  <2>3. Exclusion'
    <3>1. ASSUME NEW k \in Lwp PROVE ~WriteHolder(k)'
      <4>1. CASE k \in ts["R"]
        BY <1>c, <2>c, <4>1, Zenon DEF WriteHolder
      <4>2. CASE k = l
        BY <2>c, <4>2, Zenon DEF WriteHolder
      <4>3. CASE k \notin ts["R"] /\ k # l
        <5>1. ~WriteHolder(k)
          BY <1>b, <4>3, Zenon DEF IInv, Exclusion
        <5>2. pc'[k] = pc[k] /\ op'[k] = op[k] /\ rw'.own # k
          BY <2>b, <2>c, <4>3, ZenonT(30)
        <5> QED BY <5>1, <5>2, Zenon DEF WriteHolder
      <4> QED BY <4>1, <4>2, <4>3, Zenon
    <3>2. Cardinality(ts["R"] \cup {l}) = Cardinality(ts["R"]) + 1
      BY <2>a, <2>c, FS_AddElement, Zenon
    <3> QED BY <2>2, <2>b, <3>1, <3>2, Zenon DEF Exclusion
  <2>4. QueueInv'
    BY <1>a, <2>c DEF IInv, QueueInv
  <2>5. BitsInv'
    <3>1. \A k \in Lwp : Waits(k)' <=> k \in ts["W"]
      BY <1>a, <1>c, <2>c DEF Waits
    <3>2. WriterWaits' <=> ts["W"] # {}
      BY <1>a, <1>c, <3>1 DEF WriterWaits
    <3>3. WriteWantedIsTrue'
      BY <2>b, <3>2, Zenon DEF WriteWantedIsTrue, WriterWaits, Waits
    <3>4. ts["W"] # {} <=> \E k \in Lwp : Waits(k)'
      BY <1>c, <3>1, Zenon
    <3>5. rw'.cnt # 0
      <4>1. \A n \in Nat : n + 1 # 0
        OBVIOUS
      <4> QED BY <2>a, <2>b, <4>1, Zenon
    <3> QED BY <2>b, <3>2, <3>3, <3>4, <3>5, Zenon DEF BitsInv, NoThread
  <2>6. CopyInv'
    <3>1. \A k \in Lwp : k # l => ~WriteHolder(k) /\ ~ReadHolder(k)
      BY <1>b, Zenon DEF IInv, Exclusion, Readers
    <3>2. \A k \in Lwp : k # l => pc[k] \notin {"release", "xlookup", "handoff",
                                                "dcas", "dlookup", "dswap"}
      BY <3>1, Zenon DEF WriteHolder, ReadHolder, IInv, TypeOK
    <3> SUFFICES ASSUME NEW k \in Lwp PROVE CopyOK(k)'
      BY Zenon DEF CopyInv
    <3>3. CASE k = l \/ k \in ts["R"]
      BY <2>c, <3>3, Zenon DEF CopyOK
    <3>4. CASE k # l /\ k \notin ts["R"]
      <4>1. pc'[k] = pc[k] /\ op'[k] = op[k] /\ owner'[k] = owner[k] /\ CopyOK(k)
        BY <2>c, <3>4, Zenon DEF IInv, CopyInv
      <4> QED BY <3>2, <3>4, <4>1, Zenon DEF CopyOK
    <3> QED BY <3>3, <3>4, Zenon
  <2> QED BY <2>1, <2>3, <2>4, <2>5, <2>6, Zenon DEF IInv
<1>2. CASE /\ rw # owner[l] /\ Load(l, rw) /\ Goto(l, "dlookup")
           /\ rw' = rw /\ op' = op /\ ts' = ts
  <2> USE <1>2
  <2>1. TypeOK'
    BY <1>a, Zenon DEF IInv, TypeOK
  <2>2. Readers' = Readers
    BY <1>a DEF Readers, ReadHolder
  <2>3. Exclusion'
    BY <1>a, <2>2 DEF IInv, TypeOK, Exclusion, WriteHolder
  <2>4. QueueInv'
    BY <1>a, Zenon DEF IInv, TypeOK, QueueInv
  <2>5. BitsInv'
    BY <1>a DEF IInv, BitsInv, Waits, WriterWaits, WriteWantedIsTrue,
       AwakeWriter
  <2>6. CopyInv'
    BY <1>b DEF IInv, TypeOK, CopyInv, CopyOK
  <2> QED BY <2>1, <2>3, <2>4, <2>5, <2>6, Zenon DEF IInv
<1> QED BY <1>1, <1>2, Zenon DEF DowngradeSwap

\* The three ways of handing the lock over have this in common: the LWPs of S,
\* all on queue m, are woken, and the new word grants the lock to all of them
\* (readers), to the one it names, or to nobody (all writers woken).
Handed(l, m, S) ==
    /\ S \in SUBSET ts[m] /\ Wakeup(l, m, S, "idle") /\ rw' \in Word
    /\ rw'.cnt = IF m = "R" THEN Cardinality(S) ELSE 0
    /\ m = "R" => /\ rw'.own = None /\ S = ts["R"] /\ S # {}
                  /\ (rw'.hw <=> ts["W"] # {}) /\ (rw'.ww <=> ts["W"] # {})
    /\ m = "W" => \/ /\ rw'.own = None /\ S = ts["W"] /\ ts["R"] = {}
                     /\ rw'.ww /\ ~rw'.hw
                  \/ /\ rw'.own \in Lwp /\ S = {rw'.own} /\ ts["R"] # {}
                     /\ rw'.hw /\ (rw'.ww <=> ts["W"] # S)

\* rw_vector_exit hands the lock to a writer, to all readers, or opens it and
\* wakes all writers.
LEMMA HandoffPreserves ==
    ASSUME IInv, NEW l \in Lwp, Handoff(l)
    PROVE  IInv'
<1>a. pc[l] = "handoff" /\ tc = l /\ op' = op /\ Forget(l) /\ op[l] \in Mode
  BY Zenon DEF Handoff, IInv, QueueInv, TypeOK
<1>b. /\ rw \in Word /\ rw.hw
      /\ op[l] = "R" => rw.own = None /\ rw.cnt = 1 /\ Readers = {l}
      /\ op[l] = "W" => rw.own = l /\ rw.cnt = 0 /\ Readers = {}
  <2>1. op[l] = "R" => l \in Readers
    BY <1>a, Zenon DEF Readers, ReadHolder
  <2>2. op[l] = "W" => rw.own = l /\ rw.cnt = 0
    BY <1>a, Zenon DEF IInv, Exclusion, WriteHolder
  <2>3. rw.hw /\ (op[l] = "R" => rw.cnt = 1) /\ rw \in Word
    BY <1>a, Zenon DEF IInv, CopyInv, CopyOK, TypeOK
  <2> QED BY <2>1, <2>2, <2>3, CountFacts, Zenon
<1>c. /\ \A k \in Lwp : pc[k] # "block"
      /\ \A k \in Lwp : k \in ts["R"] <=> pc[k] = "sleep" /\ op[k] = "R"
      /\ \A k \in Lwp : k \in ts["W"] <=> pc[k] = "sleep" /\ op[k] = "W"
      /\ ts["R"] \subseteq Lwp /\ ts["W"] \subseteq Lwp
      /\ l \notin ts["R"] /\ l \notin ts["W"]
  BY <1>a, Zenon DEF IInv, TypeOK, QueueInv
<1>d. ts["R"] = {} => ts["W"] # {}
  <2>1. PICK k \in Lwp : Waits(k)
    BY <1>b, Zenon DEF IInv, BitsInv
  <2>2. k \in ts["R"] \/ k \in ts["W"]
    BY <1>c, <2>1, Zenon DEF Waits, IInv, TypeOK
  <2> QED BY <2>2, Zenon
<1>e. \A k \in Lwp : k # l =>
        /\ ~WriteHolder(k) /\ ~ReadHolder(k)
        /\ pc[k] \notin {"release", "xlookup", "handoff", "dcas", "dlookup", "dswap"}
  <2>1. \A k \in Lwp : k # l => ~WriteHolder(k) /\ ~ReadHolder(k)
    BY <1>a, <1>b DEF IInv, Exclusion, Readers
  <2> QED BY <2>1, Zenon DEF WriteHolder, ReadHolder, IInv, TypeOK
<1>1. ASSUME NEW m \in Mode, NEW S, Handed(l, m, S) PROVE IInv'
  <2> USE DEF Handed
  <2>a. /\ S \subseteq Lwp /\ l \notin S
        /\ \A k \in S : op[k] = m /\ pc[k] = "sleep"
        /\ m = "R" \/ m = "W"
    BY <1>c, <1>1, Zenon
  <2>b. /\ \A k \in Lwp : pc'[k] = IF k \in S THEN "woken"
                                  ELSE IF k = l THEN "idle" ELSE pc[k]
        /\ ts'[m] = ts[m] \ S /\ (\A n \in Mode : n # m => ts'[n] = ts[n])
        /\ ts' \in [Mode -> SUBSET Lwp] /\ pc' \in [Lwp -> Labels] /\ tc' = None
        /\ \A k \in Lwp : k # l => owner'[k] = owner[k]
        /\ owner' \in [Lwp -> Word]
    BY <1>a, <1>1, UnlockedFields, Zenon DEF Wakeup, IInv, TypeOK
  <2>1. TypeOK'
    BY <1>1, <1>a, <2>b, ZenonT(30) DEF IInv, TypeOK
  <2>2. Readers' = IF m = "R" THEN S ELSE {}
    BY <1>a, <1>e, <2>a, <2>b DEF Readers, ReadHolder
  <2>3. Exclusion'
    <3>1. ASSUME NEW k \in Lwp PROVE WriteHolder(k)' <=> rw'.own = k
      <4>1. CASE k \in S
        <5>1. pc'[k] = "woken" /\ op'[k] = m
          BY <1>a, <2>a, <2>b, <4>1, Zenon
        <5>2. m \in {"R", "W"} /\ (m = "R" => rw'.own # k)
          BY <1>1, ZenonT(30)
        <5> QED BY <5>1, <5>2, Zenon DEF WriteHolder
      <4>2. CASE k = l
        BY <1>1, <2>a, <2>b, <4>2 DEF WriteHolder
      <4>3. CASE k \notin S /\ k # l
        <5>1. ~WriteHolder(k) /\ pc'[k] = pc[k] /\ op'[k] = op[k] /\ rw'.own # k
          BY <1>1, <1>a, <1>e, <2>b, <4>3
        <5>2. ~WriteHolder(k)'
          BY <5>1, Zenon DEF WriteHolder
        <5> QED BY <5>1, <5>2, Zenon
      <4> QED BY <4>1, <4>2, <4>3, Zenon
    <3> QED BY <1>1, <2>2, <3>1, FS_EmptySet, Zenon DEF Exclusion
  <2>4. QueueInv'
    <3>1. \A n \in Mode : \A k \in Lwp : k \in ts'[n] <=> pc'[k] = "sleep" /\ op'[k] = n
      BY <1>a, <2>a, <2>b DEF IInv, QueueInv
    <3>2. \A k \in Lwp : pc'[k] \notin {"recheck", "setwait", "block", "handoff", "dswap"}
      BY <1>a, <2>b DEF IInv, QueueInv
    <3> QED BY <2>b, <3>1, <3>2 DEF QueueInv
  <2>5. BitsInv'
    <3>1. \A k \in Lwp : Waits(k)' <=> k \in ts'["R"] \/ k \in ts'["W"]
      BY <2>b, <2>4 DEF Waits, QueueInv, TypeOK, IInv
    <3>2. WriterWaits' <=> ts'["W"] # {}
      BY <2>4, <2>b DEF WriterWaits, QueueInv, Waits
    <3>3. CASE m = "R"
      <4>1. ts'["R"] = {} /\ ts'["W"] = ts["W"]
        BY <1>1, <2>b, <3>3
      <4>2. rw'.hw <=> \E k \in Lwp : Waits(k)'
        BY <1>1, <1>c, <3>1, <3>3, <4>1, Zenon
      <4>3. WriteWantedIsTrue'
        BY <1>1, <3>2, <3>3, <4>1, Zenon DEF WriteWantedIsTrue, WriterWaits,
           Waits
      <4>4. rw'.cnt # 0
        BY <1>1, <3>3, <1>c, FS_Subset, FS_EmptySet, Zenon
      <4> QED BY <1>1, <3>2, <4>1, <4>2, <4>3, <4>4, Zenon DEF BitsInv,
        NoThread
    <3>4. CASE m = "W" /\ rw'.own = None
      <4>1. /\ ts'["R"] = {} /\ ts'["W"] = {} /\ ts["W"] # {} /\ S = ts["W"]
            /\ rw'.ww /\ ~rw'.hw
        BY <1>1, <1>d, <2>b, <3>4, Zenon
      <4>2. PICK k \in Lwp : k \in S
        BY <2>a, <4>1, Zenon
      <4>3. AwakeWriter(k)'
        BY <1>a, <2>a, <2>b, <3>4, <4>2, Zenon DEF AwakeWriter
      <4> QED BY <1>1, <3>1, <3>2, <4>1, <4>3, Zenon DEF BitsInv,
        WriteWantedIsTrue
    <3>5. CASE m = "W" /\ rw'.own # None
      <4>1. ts'["R"] = ts["R"] /\ ts["R"] # {} /\ ts'["W"] = ts["W"] \ S /\ rw'.hw
        BY <1>1, <2>b, <3>5, Zenon
      <4>2. rw'.ww <=> WriterWaits'
        BY <1>1, <3>2, <3>5, <4>1, Zenon
      <4>3. WriteWantedIsTrue'
        BY <4>2, Zenon DEF WriteWantedIsTrue, WriterWaits, Waits
      <4> QED BY <1>1, <1>c, <3>1, <3>5, <4>1, <4>2, <4>3 DEF BitsInv, NoThread
    <3> QED BY <3>3, <3>4, <3>5, Zenon
  <2>6. CopyInv'
    <3> SUFFICES ASSUME NEW k \in Lwp PROVE CopyOK(k)'
      BY Zenon DEF CopyInv
    <3>1. CASE k = l \/ k \in S
      BY <2>b, <3>1, Zenon DEF CopyOK
    <3>2. CASE k # l /\ k \notin S
      <4>1. pc'[k] = pc[k] /\ op'[k] = op[k] /\ owner'[k] = owner[k] /\ CopyOK(k)
        BY <1>a, <2>b, <3>2, Zenon DEF IInv, CopyInv
      <4> QED BY <1>e, <3>2, <4>1, Zenon DEF CopyOK
    <3> QED BY <3>1, <3>2, Zenon
  <2> QED BY <2>1, <2>3, <2>4, <2>5, <2>6, Zenon DEF IInv

<1>2. CASE HandToWriters(l)
  <2>1. ASSUME NEW w \in ts["W"], ts["R"] # {},
               rw' = [own |-> w, cnt |-> 0, hw |-> TRUE, ww |-> ts["W"] # {w}],
               Wakeup(l, "W", {w}, "idle")
        PROVE  IInv'
    <3>1. /\ rw' \in Word /\ rw'.own = w /\ rw'.cnt = 0 /\ rw'.hw /\ w # None
          /\ rw'.ww <=> ts["W"] # {w}
      <4>1. CASE ts["W"] = {w}
        <5>1. rw' = [own |-> w, cnt |-> 0, hw |-> TRUE, ww |-> FALSE]
          BY <2>1, <4>1, Zenon
        <5> QED BY <1>c, <4>1, <5>1, Zenon DEF Word
      <4>2. CASE ts["W"] # {w}
        <5>1. rw' = [own |-> w, cnt |-> 0, hw |-> TRUE, ww |-> TRUE]
          BY <2>1, <4>2, Zenon
        <5> QED BY <1>c, <4>2, <5>1, Zenon DEF Word
      <4> QED BY <4>1, <4>2, Zenon
    <3>2. {w} \in SUBSET ts["W"] /\ "W" \in Mode /\ w \in Lwp
      BY <1>c, Zenon
    <3>3. Handed(l, "W", {w})
      BY <2>1, <3>1, <3>2, Zenon DEF Handed
    <3> QED BY <1>1, <3>3, Zenon
  <2>2. CASE /\ ts["R"] = {} /\ rw' = [Unlocked EXCEPT !.ww = TRUE]
             /\ Wakeup(l, "W", ts["W"], "idle")
    <3>1. rw' \in Word /\ rw'.own = None /\ rw'.cnt = 0 /\ ~rw'.hw /\ rw'.ww
      BY <2>2, Zenon DEF Unlocked, MkWord, Word
    <3>2. Handed(l, "W", ts["W"])
      BY <2>2, <3>1 DEF Handed
    <3> QED BY <1>1, <3>2, Zenon
  <2> QED BY <1>2, <2>1, <2>2, Zenon DEF HandToWriters
<1>3. CASE HandToReaders(l)
  <2>1. /\ rw' \in Word /\ rw'.own = None /\ rw'.cnt = Cardinality(ts["R"])
        /\ rw'.hw <=> ts["W"] # {}
        /\ rw'.ww <=> ts["W"] # {}
    <3>1. Cardinality(ts["R"]) \in Nat
      BY <1>c, FS_Subset, FS_CardinalityType, Zenon
    <3>2. CASE ts["W"] = {}
      <4>1. rw' = MkWord(None, Cardinality(ts["R"]), FALSE)
        BY <1>3, <3>2, Zenon DEF HandToReaders
      <4> QED BY <3>1, <3>2, <4>1, Zenon DEF MkWord, Word
    <3>3. CASE ts["W"] # {}
      <4>1. rw' = MkWord(None, Cardinality(ts["R"]), TRUE)
        BY <1>3, <3>3, Zenon DEF HandToReaders
      <4> QED BY <3>1, <3>3, <4>1, Zenon DEF MkWord, Word
    <3> QED BY <3>2, <3>3, Zenon
  <2>2. Handed(l, "R", ts["R"])
    BY <1>3, <2>1, Zenon DEF HandToReaders, Handed
  <2> QED BY <1>1, <2>2, Zenon
<1> QED BY <1>2, <1>3, Zenon DEF Handoff

-----------------------------------------------------------------------------
(* The theorems.                                                           *)

\* rw_init leaves the lock in a state of the inductive invariant.
LEMMA InitIInv == Init => IInv
<1> SUFFICES ASSUME Init PROVE IInv
  OBVIOUS
<1>1. TypeOK
  BY UnlockedFields, Zenon DEF Init, TypeOK
<1>2. Exclusion
  <2>1. Readers = {}
    BY Zenon DEF Init, Readers, ReadHolder
  <2> QED BY <2>1, UnlockedFields, FS_EmptySet, Zenon DEF Init, Exclusion,
    WriteHolder
<1>3. QueueInv
  BY Zenon DEF Init, QueueInv
<1>4. BitsInv
  BY UnlockedFields, Zenon DEF Init, BitsInv, Waits, WriterWaits,
     WriteWantedIsTrue
<1>5. CopyInv
  BY Zenon DEF Init, CopyInv, CopyOK
<1> QED BY <1>1, <1>2, <1>3, <1>4, <1>5, Zenon DEF IInv

\* Every step of every function of the lock preserves the invariant.
LEMMA NextIInv == IInv /\ [Next]_vars => IInv'
<1> SUFFICES ASSUME IInv, [Next]_vars PROVE IInv'
  OBVIOUS
<1>1. ASSUME NEW l \in Lwp, Step(l) PROVE IInv'
  BY ZenonT(30), <1>1, EnterCasPreserves, EnterWaitPreserves, SpinPreserves,
     LookupPreserves, RecheckPreserves, MarkWaitersPreserves, BlockPreserves,
     AwakePreserves, ReleasePreserves, ExitLookupPreserves, HandoffPreserves,
     TryCasPreserves, DowngradeCasPreserves, DowngradeLookupPreserves,
     DowngradeSwapPreserves, UpgradeCasPreserves, Zenon DEF Step
<1>2. ASSUME NEW l \in Lwp, Call(l) PROVE IInv'
  BY <1>2, EnterPreserves, TryEnterPreserves, ExitPreserves,
     DowngradePreserves, TryUpgradePreserves, Zenon DEF Call
<1>3. CASE UNCHANGED vars
  <2>1. TypeOK' /\ QueueInv'
    BY <1>3, Zenon DEF vars, IInv, TypeOK, QueueInv
  <2>2. Exclusion'
    BY <1>3, Zenon DEF vars, IInv, Exclusion, Readers, ReadHolder, WriteHolder
  <2>3. BitsInv'
    BY <1>3, Zenon DEF vars, IInv, BitsInv, Waits, WriterWaits,
       WriteWantedIsTrue, AwakeWriter
  <2>4. CopyInv'
    BY <1>3, Zenon DEF vars, IInv, CopyInv, CopyOK
  <2> QED BY <2>1, <2>2, <2>3, <2>4, Zenon DEF IInv
<1> QED BY <1>1, <1>2, <1>3, Zenon DEF Next

\* The inductive invariant holds in every reachable state.
THEOREM Invariance == Spec => []IInv
BY InitIInv, NextIInv, PTL DEF Spec

\* The lock word and everybody's copy of it stay words: in particular the
\* read count never goes below zero.
THEOREM TypeCorrect == Spec => []TypeOK
<1>1. IInv => TypeOK
  BY Zenon DEF IInv
<1> QED BY <1>1, Invariance, PTL

\* At any time the lock is held by one writer or by exactly as many readers
\* as the word counts, whatever number of LWPs use it.
THEOREM LockExcludes == Spec => []Exclusion
<1>1. IInv => Exclusion
  BY Zenon DEF IInv
<1> QED BY <1>1, Invariance, PTL

\* The assertions of rw_vector_exit, rw_downgrade and rw_swap never fail.
THEOREM AssertsHold == Spec => []HandoffAsserts
<1>1. IInv => HandoffAsserts
  <2> SUFFICES ASSUME IInv, NEW l \in Lwp, pc[l] \in {"handoff", "dswap"}
               PROVE  /\ pc[l] = "handoff" =>
                            /\ rw = owner[l] /\ rw.hw
                            /\ ts["R"] = {} \/ op[l] = "R" => ts["W"] # {} /\ rw.ww
                      /\ pc[l] = "dswap" =>
                            /\ ts["R"] \cup ts["W"] # {}
                            /\ ts["R"] = {} => ts["W"] # {} /\ rw.hw /\ rw.ww
    BY Zenon DEF HandoffAsserts
  <2>1. rw.hw /\ \A k \in Lwp : pc[k] # "block"
    BY DEF IInv, CopyInv, CopyOK, QueueInv
  <2>2. PICK k \in Lwp : Waits(k)
    BY <2>1, Zenon DEF IInv, BitsInv
  <2>3. k \in ts["R"] \/ k \in ts["W"]
    BY <2>2, Zenon DEF IInv, TypeOK, QueueInv, Waits
  <2>4. ts["W"] # {} => rw.ww
    BY DEF IInv, TypeOK, QueueInv, BitsInv, WriterWaits, Waits
  <2>5. ASSUME pc[l] = "handoff", op[l] = "R" PROVE ts["W"] # {}
    <3>1. rw.cnt = 1
      BY <2>5, Zenon DEF IInv, CopyInv, CopyOK
    <3>2. PICK w \in Lwp : Waits(w) /\ op[w] = "W"
      BY <2>1, <3>1 DEF IInv, BitsInv, WriterWaits
    <3> QED BY <3>2, Zenon DEF IInv, QueueInv, Waits
  <2>6. pc[l] = "handoff" => rw = owner[l]
    BY Zenon DEF IInv, CopyInv, CopyOK
  <2> QED BY <2>1, <2>3, <2>4, <2>5, <2>6, Zenon
<1> QED BY <1>1, Invariance, PTL

\* No LWP sleeps on a lock whose word does not show it, or that nobody holds
\* and no writer is about to take.
THEOREM NobodyOrphaned == Spec => []NoOrphanedWaiter
<1>1. IInv => NoOrphanedWaiter
  <2> SUFFICES ASSUME IInv, NEW k \in ts["R"] \cup ts["W"]
               PROVE  rw.hw /\ (~NoThread(rw) \/ \E l \in Lwp : AwakeWriter(l))
    BY Zenon DEF NoOrphanedWaiter
  <2>1. k \in Lwp /\ Waits(k)
    BY Zenon DEF IInv, TypeOK, QueueInv, Waits
  <2>2. rw.hw
    BY <2>1, Zenon DEF IInv, BitsInv
  <2>3. ASSUME NoThread(rw) PROVE \E l \in Lwp : AwakeWriter(l)
    <3>1. rw.ww /\ ~WriterWaits
      BY <2>2, <2>3, Zenon DEF IInv, BitsInv
    <3> QED BY <3>1, Zenon DEF IInv, BitsInv, WriteWantedIsTrue, WriterWaits,
      Waits
  <2> QED BY <2>2, <2>3, Zenon
<1> QED BY <1>1, Invariance, PTL

\* RW_WRITE_WANTED is set only while a writer waits or is on its way.
THEOREM WriteWantedHolds == Spec => []WriteWantedIsTrue
<1>1. IInv => WriteWantedIsTrue
  BY Zenon DEF IInv, BitsInv
<1> QED BY <1>1, Invariance, PTL

-----------------------------------------------------------------------------
(* Each step is one of the abstract lock.                                  *)

USE LwpAssumption DEF Mode, Labels, Goto, Load, Forget, Holding

\* A step that changes neither who asks nor who holds the lock is not seen.
LEMMA Unseen ==
    ASSUME IInv, rw'.own = rw.own,
           \A k \in Lwp : /\ Asks(k)' <=> Asks(k)
                          /\ Asks(k) => op'[k] = op[k]
                          /\ ReadHolder(k)' <=> ReadHolder(k)
    PROVE  UNCHANGED Abstract!avars
<1>1. Want' = Want
  BY Zenon DEF Want
<1>2. Readers' = Readers
  BY Zenon DEF Readers
<1> QED BY <1>1, <1>2, Zenon DEF Abstract!avars

\* The initial state is the abstract one.
LEMMA InitRefines == Init => Abstract!Init
BY UnlockedFields, Zenon DEF Init, Abstract!Init, Readers, ReadHolder, Want,
   Asks

\* rw_enter and rw_tryenter ask.
LEMMA EnterRefines ==
    ASSUME IInv, NEW l \in Lwp, NEW m \in Mode, Enter(l, m) \/ TryEnter(l, m)
    PROVE  Abstract!Ask(l)
<1>1. /\ pc[l] = "idle" /\ rw' = rw /\ pc'[l] \in {"loop", "try"} /\ op'[l] = m
      /\ \A k \in Lwp \ {l} : pc'[k] = pc[k] /\ op'[k] = op[k]
  BY DEF Enter, TryEnter, IInv, TypeOK
<1>2. Readers' = Readers
  BY <1>1, Zenon DEF Readers, ReadHolder
<1>3. Want' = [Want EXCEPT ![l] = m]
  BY <1>1, Zenon DEF Want, Asks
<1>4. l \notin Readers /\ l # rw.own /\ Want[l] = "-"
  BY <1>1, Zenon DEF IInv, Exclusion, Readers, ReadHolder, WriteHolder, Want,
     Asks
<1> QED BY <1>1, <1>2, <1>3, <1>4, Zenon DEF Abstract!Ask, Abstract!Holds

\* The steps that wait, look things up, or find that a CAS has failed.
LEMMA WaitingRefines ==
    ASSUME IInv, NEW l \in Lwp,
           \/ EnterWait(l) \/ Spin(l) \/ Lookup(l) \/ Recheck(l) \/ MarkWaiters(l)
           \/ Block(l) \/ ExitLookup(l) \/ Downgrade(l) \/ DowngradeLookup(l) \/ TryUpgrade(l)
    PROVE  UNCHANGED Abstract!avars
<1>1. rw'.own = rw.own
  <2>1. CASE MarkWaiters(l)
    BY <2>1, SetWaitFields DEF MarkWaiters, IInv, TypeOK
  <2> QED BY <2>1, Zenon DEF EnterWait, Spin, Lookup, Recheck, Block,
    ExitLookup, Downgrade, DowngradeLookup, TryUpgrade
<1>2. op' = op /\ \A k \in Lwp \ {l} : pc'[k] = pc[k]
  BY Zenon DEF EnterWait, Spin, Lookup, Recheck, MarkWaiters, Block,
     ExitLookup, Downgrade, DowngradeLookup, TryUpgrade, IInv, TypeOK
<1>3. \/ /\ pc[l] \in {"loop", "spin", "lookup", "recheck", "setwait", "block"}
         /\ pc'[l] \in {"loop", "spin", "lookup", "recheck", "setwait", "block", "sleep"}
      \/ pc[l] = "xlookup" /\ pc'[l] = "handoff"
      \/ pc[l] = "write" /\ pc'[l] \in {"dlookup", "dcas"}
      \/ pc[l] = "dlookup" /\ pc'[l] = "dswap"
      \/ pc[l] = "read" /\ pc'[l] = "up"
  BY DEF EnterWait, Spin, Lookup, Recheck, MarkWaiters, Block, ExitLookup, Downgrade,
         DowngradeLookup, TryUpgrade, IInv, TypeOK
<1>4. ASSUME NEW k \in Lwp
      PROVE  (Asks(k)' <=> Asks(k)) /\ (ReadHolder(k)' <=> ReadHolder(k))
  <2>1. CASE k = l
    BY <1>2, <1>3, <2>1, Zenon DEF Asks, ReadHolder
  <2>2. CASE k # l
    BY <1>1, <1>2, <2>2, Zenon DEF Asks, ReadHolder
  <2> QED BY <2>1, <2>2, Zenon
<1> QED BY <1>1, <1>2, <1>4, Unseen, Zenon

\* An LWP that was woken has been granted the lock before, or asks on; and
\* rw_exit finds the mode that the lock is held in.
LEMMA AwakeRefines ==
    ASSUME IInv, NEW l \in Lwp, Awake(l) \/ Exit(l)
    PROVE  UNCHANGED Abstract!avars
<1>1. /\ rw' = rw /\ \A k \in Lwp \ {l} : pc'[k] = pc[k] /\ op'[k] = op[k]
  BY DEF Awake, Exit, IInv, TypeOK
<1>2. /\ Asks(l)' <=> Asks(l)
      /\ Asks(l) => op'[l] = op[l]
      /\ ReadHolder(l)' <=> ReadHolder(l)
  <2>1. CASE Awake(l)
    BY <2>1 DEF Awake, Asks, ReadHolder, IInv, TypeOK
  <2>2. CASE Exit(l)
    <3>1. /\ pc[l] = "read" => rw.own = None
          /\ pc[l] = "write" => rw.own # None
      BY CountFacts, Zenon DEF IInv, Exclusion, WriteHolder, Readers,
         ReadHolder
    <3> QED BY <2>2, <3>1, Zenon DEF Exit, Asks, ReadHolder, IInv, TypeOK
  <2> QED BY <2>1, <2>2, Zenon
<1>3. ASSUME NEW k \in Lwp, k # l
      PROVE  /\ Asks(k)' <=> Asks(k)
             /\ Asks(k) => op'[k] = op[k]
             /\ ReadHolder(k)' <=> ReadHolder(k)
  BY <1>1, <1>3, Zenon DEF Asks, ReadHolder
<1> QED BY <1>1, <1>2, <1>3, Unseen, Zenon

\* The CAS of rw_enter and rw_tryenter: the lock is acquired, or not yet, or
\* the try is given up.
LEMMA CasRefines ==
    ASSUME IInv, NEW l \in Lwp, EnterCas(l) \/ TryCas(l)
    PROVE  Abstract!Acquire(l) \/ Abstract!Withdraw(l) \/ UNCHANGED Abstract!avars
<1>1. /\ rw \in Word /\ owner[l] \in Word /\ op[l] \in Mode /\ op' = op
      /\ ~NeedWait(op[l], owner[l]) /\ pc[l] \in {"loop", "try"}
      /\ \A k \in Lwp \ {l} : pc'[k] = pc[k]
  BY DEF EnterCas, TryCas, IInv, TypeOK, CopyInv, CopyOK
<1>2. CASE rw # owner[l]
  <2>1. rw' = rw /\ pc'[l] \in {pc[l], "idle"}
    BY <1>2, Zenon DEF EnterCas, TryCas, IInv, TypeOK
  <2>2. Readers' = Readers
    BY <1>1, <2>1, Zenon DEF Readers, ReadHolder
  <2>3. CASE pc'[l] = "idle"
    <3>1. Want' = [Want EXCEPT ![l] = "-"] /\ Want[l] # "-"
      BY <1>1, <2>1, <2>3, Zenon DEF Want, Asks
    <3> QED BY <2>1, <2>2, <3>1, Zenon DEF Abstract!Withdraw
  <2>4. CASE pc'[l] = pc[l]
    BY <1>1, <2>1, <2>4, Unseen, Zenon DEF Asks, ReadHolder
  <2> QED BY <2>1, <2>3, <2>4, Zenon
<1>3. CASE rw = owner[l]
  <2>1. /\ rw'.own = IF op[l] = "R" THEN rw.own ELSE l
        /\ rw.own = None /\ (op[l] = "W" => rw.cnt = 0)
        /\ pc'[l] = IF op[l] = "R" THEN "read" ELSE "write"
    BY <1>1, <1>3, PlusFields, AcquiredFields DEF EnterCas, TryCas, NeedWait, IInv, TypeOK
  <2>2. Want' = [k \in Lwp |-> IF k \in {l} THEN "-" ELSE Want[k]] /\ Want[l] = op[l]
    <3>1. ASSUME NEW k \in Lwp, k # l PROVE Asks(k)' <=> Asks(k)
      BY <1>1, <2>1, <3>1 DEF Asks
    <3>2. ~Asks(l)' /\ Asks(l)
      BY <1>1, <2>1, Zenon DEF Asks
    <3> QED BY <1>1, <3>1, <3>2, Zenon DEF Want
  <2>3. CASE op[l] = "R"
    <3>1. Readers' = Readers \cup {l}
      BY <1>1, <2>1, <2>3, Zenon DEF Readers, ReadHolder
    <3> QED BY <2>1, <2>2, <2>3, <3>1, Zenon DEF Abstract!Acquire,
      Abstract!GrantFrom
  <2>4. CASE op[l] = "W"
    <3>1. Readers = {} /\ Readers' = {}
      <4>1. Readers = {}
        BY <2>1, <2>4, CountFacts, Zenon
      <4> QED BY <1>1, <2>1, <2>4, <4>1, Zenon DEF Readers, ReadHolder
    <3> QED BY <2>1, <2>2, <2>4, <3>1, Zenon DEF Abstract!Acquire,
      Abstract!GrantFrom
  <2> QED BY <1>1, <2>3, <2>4, ZenonT(30)
<1> QED BY <1>2, <1>3, ZenonT(30)

\* What the holder of the lock is to the abstract lock
LEMMA HolderFacts ==
    ASSUME IInv, NEW l \in Lwp
    PROVE  /\ ReadHolder(l) => rw.own = None /\ l \in Readers
           /\ WriteHolder(l) => rw.own = l /\ Readers = {}
           /\ rw.own = None \/ rw.own \in Lwp
<1>1. rw.own # None => Readers = {}
  BY CountFacts, Zenon
<1> QED BY CountFacts, Zenon DEF IInv, Exclusion, Readers, TypeOK, Word

\* rw_exit gives up a hold that nobody waits for the end of.
LEMMA ReleaseRefines ==
    ASSUME IInv, NEW l \in Lwp, Release(l)
    PROVE  Abstract!Release(l) \/ UNCHANGED Abstract!avars
<1>1. /\ rw \in Word /\ owner[l] \in Word /\ op[l] \in Mode /\ op' = op /\ pc[l] = "release"
      /\ \A k \in Lwp \ {l} : pc'[k] = pc[k]
  BY Zenon DEF Release, IInv, TypeOK
<1>2. CASE rw' = rw /\ pc'[l] \in {"release", "xlookup"}
  BY <1>1, <1>2, Unseen, Zenon DEF Asks, ReadHolder
<1>3. CASE rw = owner[l] /\ rw' = Minus(op[l], owner[l]) /\ pc'[l] = "idle"
  <2>1. /\ op[l] = "R" => rw.own = None /\ l \in Readers
        /\ op[l] = "W" => rw.own = l /\ Readers = {}
    BY <1>1, HolderFacts, Zenon DEF ReadHolder, WriteHolder
  <2>2. rw'.own = None
    <3>1. op[l] = "R" => owner[l].cnt # 0
      BY <1>1, Zenon DEF IInv, CopyInv, CopyOK
    <3> QED BY <1>1, <1>3, <2>1, <3>1, MinusFields
  <2>3. Want' = [k \in Lwp |-> IF k \in {} THEN "-" ELSE Want[k]]
    <3>1. ASSUME NEW k \in Lwp PROVE Asks(k)' <=> Asks(k)
      <4>1. CASE k = l
        BY <1>1, <1>3, <4>1, Zenon DEF Asks
      <4>2. CASE k # l
        BY <1>1, <2>1, <2>2, <4>2, Zenon DEF Asks
      <4> QED BY <4>1, <4>2, Zenon
    <3> QED BY <1>1, <3>1, Zenon DEF Want
  <2>4. Readers' = Readers \ {l}
    BY <1>1, <1>3, Zenon DEF Readers, ReadHolder
  <2>5. CASE op[l] = "R"
    <3>1. Abstract!GrantFrom(Readers \ {l}, rw.own, {})
      BY <2>1, <2>2, <2>3, <2>4, <2>5, Zenon DEF Abstract!GrantFrom
    <3> QED BY <2>1, <2>5, <3>1, Zenon DEF Abstract!Release
  <2>6. CASE op[l] = "W"
    <3>1. Abstract!GrantFrom(Readers, None, {})
      BY <2>1, <2>2, <2>3, <2>4, <2>6, Zenon DEF Abstract!GrantFrom
    <3> QED BY <2>1, <2>6, <3>1, Zenon DEF Abstract!Release
  <2> QED BY <1>1, <2>5, <2>6, Zenon
<1> QED BY <1>2, <1>3, Zenon DEF Release, IInv, TypeOK

\* rw_exit hands the lock to a writer, to the readers, or to nobody yet.
LEMMA HandoffRefines ==
    ASSUME IInv, NEW l \in Lwp, Handoff(l)
    PROVE  Abstract!Release(l)
<1>1. /\ op' = op /\ pc[l] = "handoff" /\ op[l] \in Mode /\ rw.hw
      /\ op[l] = "R" => rw.own = None /\ Readers = {l}
      /\ op[l] = "W" => rw.own = l /\ Readers = {}
  <2>1. op[l] = "R" => rw.cnt = 1
    BY Zenon DEF Handoff, IInv, CopyInv, CopyOK
  <2> QED BY CountFacts, HolderFacts, Zenon DEF Handoff, IInv, TypeOK,
    CopyInv, CopyOK, ReadHolder, WriteHolder
<1>2. \A m \in Mode : \A k \in Lwp : k \in ts[m] <=> pc[k] = "sleep" /\ op[k] = m
  BY Zenon DEF IInv, QueueInv
<1>3. ASSUME NEW w \in ts["W"], ts["R"] # {}, op[l] = "R", Wakeup(l, "W", {w}, "idle"),
             rw' = [own |-> w, cnt |-> 0, hw |-> TRUE, ww |-> ts["W"] # {w}]
      PROVE  Abstract!Release(l)
  <2>1. /\ w \in Lwp /\ w # l /\ op[w] = "W" /\ pc[w] = "sleep" /\ rw'.own = w
        /\ pc'[w] = "woken" /\ pc'[l] = "idle" /\ \A k \in Lwp \ {l, w} : pc'[k] = pc[k]
    BY <1>2, <1>3, Zenon DEF Wakeup, IInv, TypeOK
  <2>2. Want' = [k \in Lwp |-> IF k \in {w} THEN "-" ELSE Want[k]] /\ Want[w] = "W"
    <3>1. ASSUME NEW k \in Lwp, k # w PROVE Asks(k)' <=> Asks(k)
      BY <1>1, <2>1, <3>1, Zenon DEF Asks
    <3>2. ~Asks(w)' /\ Asks(w)
      BY <2>1, Zenon DEF Asks
    <3> QED BY <1>1, <2>1, <3>1, <3>2, Zenon DEF Want
  <2>3. Readers' = {}
    BY <1>1, <2>1 DEF Readers, ReadHolder
  <2>4. Abstract!GrantFrom(Readers \ {l}, rw.own, {w})
    BY <1>1, <1>3, <2>1, <2>2, <2>3, Zenon DEF Abstract!GrantFrom
  <2>5. {w} \in SUBSET Lwp /\ l \in Readers
    BY <1>1, <1>3, <2>1, Zenon
  <2> QED BY <2>4, <2>5, Zenon DEF Abstract!Release
<1>4. ASSUME ts["R"] = {}, rw' = [Unlocked EXCEPT !.ww = TRUE], Wakeup(l, "W", ts["W"], "idle")
      PROVE  Abstract!Release(l)
  <2>1. /\ rw'.own = None /\ pc'[l] = "idle"
        /\ \A k \in Lwp \ {l} : pc'[k] = IF k \in ts["W"] THEN "woken" ELSE pc[k]
    BY <1>1, <1>2, <1>4, UnlockedFields DEF Wakeup
  <2>2. Want' = [k \in Lwp |-> IF k \in {} THEN "-" ELSE Want[k]]
    <3>1. ASSUME NEW k \in Lwp PROVE Asks(k)' <=> Asks(k)
      <4>1. CASE k = l
        BY <1>1, <2>1, <4>1, Zenon DEF Asks
      <4>2. CASE k # l
        BY <1>1, <1>2, <2>1, Zenon DEF Asks
      <4> QED BY <4>1, <4>2, Zenon
    <3> QED BY <1>1, <3>1, Zenon DEF Want
  <2>3. Readers' = Readers \ {l}
    BY <1>1, <1>2, <2>1 DEF Readers, ReadHolder
  <2>4. CASE op[l] = "R"
    <3>1. Abstract!GrantFrom(Readers \ {l}, rw.own, {}) /\ l \in Readers
      BY <1>1, <2>1, <2>2, <2>3, <2>4, Zenon DEF Abstract!GrantFrom
    <3> QED BY <3>1, Zenon DEF Abstract!Release
  <2>5. CASE op[l] = "W"
    <3>1. Abstract!GrantFrom(Readers, None, {})
      BY <1>1, <2>1, <2>2, <2>3, <2>5, Zenon DEF Abstract!GrantFrom
    <3> QED BY <1>1, <2>5, <3>1, Zenon DEF Abstract!Release
  <2> QED BY <1>1, <2>4, <2>5, Zenon
<1>5. CASE HandToReaders(l)
  <2>1. rw'.own = None /\ op[l] = "W" /\ Wakeup(l, "R", ts["R"], "idle")
    BY <1>5, Zenon DEF HandToReaders, MkWord
  <2>2. /\ pc'[l] = "idle" /\ ts["R"] \in SUBSET Lwp
        /\ \A k \in Lwp \ {l} : pc'[k] = IF k \in ts["R"] THEN "woken" ELSE pc[k]
    BY <1>2, <2>1, Zenon DEF Wakeup, IInv, TypeOK
  <2>3. ASSUME NEW k \in Lwp
        PROVE  /\ Asks(k)' <=> Asks(k) /\ k \notin ts["R"]
               /\ k \in ts["R"] => Asks(k) /\ op[k] = "R"
               /\ ReadHolder(k)' <=> k \in ts["R"]
    <3>1. ~ReadHolder(k)
      BY <1>1, <2>1, Zenon DEF Readers
    <3>2. CASE k = l
      BY <1>1, <1>2, <2>2, <3>2, Zenon DEF Asks, ReadHolder
    <3>3. CASE k # l
      BY <1>1, <1>2, <2>1, <2>2, <3>1, Zenon DEF Asks, ReadHolder
    <3> QED BY <3>2, <3>3, Zenon
  <2>4. Want' = [k \in Lwp |-> IF k \in ts["R"] THEN "-" ELSE Want[k]]
    BY <1>1, <2>3, Zenon DEF Want
  <2>5. Readers' = ts["R"] /\ \A k \in ts["R"] : Want[k] = "R"
    BY <2>2, <2>3, Zenon DEF Readers, Want
  <2>6. Abstract!GrantFrom(Readers, None, ts["R"])
    BY <1>1, <2>1, <2>4, <2>5, Zenon DEF Abstract!GrantFrom
  <2> QED BY <1>1, <2>1, <2>2, <2>6, Zenon DEF Abstract!Release
<1> QED BY <1>3, <1>4, <1>5, Zenon DEF Handoff, HandToWriters

\* rw_downgrade: the writer stays as a reader, and all sleeping readers join.
LEMMA DowngradeRefines ==
    ASSUME IInv, NEW l \in Lwp, DowngradeCas(l) \/ DowngradeSwap(l)
    PROVE  Abstract!Downgrade(l) \/ UNCHANGED Abstract!avars
<1>1. /\ pc[l] \in {"dcas", "dswap"} /\ rw.own = l /\ Readers = {}
  BY HolderFacts, Zenon DEF DowngradeCas, DowngradeSwap, WriteHolder
<1>2. CASE rw # owner[l]
  <2>1. /\ rw' = rw /\ op' = op /\ pc'[l] = "dlookup" /\ \A k \in Lwp \ {l} : pc'[k] = pc[k]
    BY <1>2, Zenon DEF DowngradeCas, DowngradeSwap, IInv, TypeOK
  <2> QED BY <1>1, <2>1, Unseen, Zenon DEF Asks, ReadHolder
<1>3. CASE rw = owner[l]
  <2> DEFINE S == IF pc[l] = "dcas" THEN {} ELSE ts["R"]
  <2>1. /\ S \in SUBSET Lwp /\ l \notin S /\ \A k \in S : pc[k] = "sleep" /\ op[k] = "R"
    BY <1>1, Zenon DEF IInv, TypeOK, QueueInv
  <2> HIDE DEF S
  <2>2. /\ rw'.own = None /\ pc'[l] = "read" /\ op' = [op EXCEPT ![l] = "R"]
        /\ \A k \in Lwp \ {l} : pc'[k] = IF k \in S THEN "woken" ELSE pc[k]
    <3>1. CASE DowngradeCas(l)
      BY <1>3, <3>1 DEF DowngradeCas, MkWord, IInv, TypeOK, S
    <3>2. CASE DowngradeSwap(l)
      <4>1. pc[l] = "dswap" /\ S = ts["R"]
        BY <3>2, Zenon DEF DowngradeSwap, S
      <4> QED BY <1>3, <2>1, <3>2, <4>1 DEF DowngradeSwap, MkWord, Wakeup
    <3> QED BY <3>1, <3>2, Zenon
  <2>3. ASSUME NEW k \in Lwp
        PROVE  /\ Asks(k)' <=> Asks(k) /\ k \notin S
               /\ k \in S => Asks(k) /\ op[k] = "R"
               /\ ReadHolder(k)' <=> k \in S \/ k = l
               /\ k # l => op'[k] = op[k]
    <3>1. ~ReadHolder(k)
      BY <1>1, Zenon DEF Readers
    <3>2. CASE k = l
      BY <1>1, <2>1, <2>2, <3>2, ZenonT(30) DEF Asks, ReadHolder
    <3>3. CASE k # l
      BY <1>1, <2>1, <2>2, <3>1 DEF Asks, ReadHolder
    <3> QED BY <3>2, <3>3, Zenon
  <2>4. Want' = [k \in Lwp |-> IF k \in S THEN "-" ELSE Want[k]]
    <3>1. ~Asks(l)
      BY <1>1, Zenon DEF Asks
    <3> QED BY <2>3, <3>1, Zenon DEF Want
  <2>5. Readers' = Readers \cup {l} \cup S /\ \A k \in S : Want[k] = "R"
    BY <1>1, <2>1, <2>3, Zenon DEF Readers, Want
  <2>6. Abstract!GrantFrom(Readers \cup {l}, None, S)
    BY <2>2, <2>4, <2>5, Zenon DEF Abstract!GrantFrom
  <2> QED BY <1>1, <2>1, <2>6, Zenon DEF Abstract!Downgrade
<1> QED BY <1>2, <1>3, Zenon

\* rw_tryupgrade: the only reader becomes the writer, or nothing is changed.
LEMMA UpgradeRefines ==
    ASSUME IInv, NEW l \in Lwp, UpgradeCas(l)
    PROVE  Abstract!Upgrade(l) \/ UNCHANGED Abstract!avars
<1>1. /\ pc[l] = "up" /\ rw.own = None /\ l \in Readers
      /\ \A k \in Lwp \ {l} : pc'[k] = pc[k] /\ op'[k] = op[k]
  BY HolderFacts, Zenon DEF UpgradeCas, ReadHolder, IInv, TypeOK
<1>2. CASE rw' = rw /\ op' = op /\ pc'[l] \in {"up", "read"}
  BY <1>1, <1>2, Unseen, Zenon DEF Asks, ReadHolder
<1>3. CASE SoleReader(owner[l]) /\ rw = owner[l]
  <2>1. /\ rw'.own = l /\ pc'[l] = "write" /\ rw.cnt = 1
    BY <1>3, ZenonT(30) DEF UpgradeCas, SoleReader, IInv, TypeOK, Word
  <2>2. Readers = {l}
    BY <1>1, <2>1, CountFacts, Zenon
  <2>3. Readers' = {}
    BY <1>1, <2>1, <2>2, Zenon DEF Readers, ReadHolder
  <2>4. Want' = Want
    <3>1. ASSUME NEW k \in Lwp
          PROVE  (Asks(k)' <=> Asks(k)) /\ (Asks(k) => op'[k] = op[k])
      <4>1. CASE k = l
        BY <1>1, <2>1, Zenon DEF Asks
      <4>2. CASE k # l
        BY <1>1, <2>1, Zenon DEF Asks
      <4> QED BY <4>1, <4>2, Zenon
    <3> QED BY <3>1, Zenon DEF Want
  <2> QED BY <1>1, <2>1, <2>2, <2>3, <2>4, Zenon DEF Abstract!Upgrade
<1> QED BY <1>2, <1>3, Zenon DEF UpgradeCas, IInv, TypeOK

-----------------------------------------------------------------------------
\* The lock of kern_rwlock.c is a readers/writer lock.
THEOREM Refines == Spec => IsReadersWriter
<1>1. IInv /\ [Next]_vars => [Abstract!Next]_(Abstract!avars)
  <2> SUFFICES ASSUME IInv, [Next]_vars PROVE [Abstract!Next]_(Abstract!avars)
    OBVIOUS
  <2>1. CASE UNCHANGED vars
    BY <2>1, Unseen, Zenon DEF vars, Asks, ReadHolder
  <2>2. ASSUME NEW l \in Lwp, Step(l) PROVE [Abstract!Next]_(Abstract!avars)
    BY <2>2, CasRefines, WaitingRefines, AwakeRefines, ReleaseRefines,
       HandoffRefines, DowngradeRefines, UpgradeRefines, Zenon DEF Step,
       Abstract!Next
  <2>3. ASSUME NEW l \in Lwp, Call(l) PROVE [Abstract!Next]_(Abstract!avars)
    BY <2>3, EnterRefines, WaitingRefines, AwakeRefines, Zenon DEF Call,
       Abstract!Next
  <2> QED BY <2>1, <2>2, <2>3, Zenon DEF Next
<1> QED BY <1>1, InitRefines, Invariance, PTL DEF Spec, IsReadersWriter, Abstract!Spec
=============================================================================
