----------------------- MODULE ExtReadWriteLock_proofs -----------------------
(***************************************************************************)
(* Proofs about ExtReadWriteLock for any finite set of threads and any     *)
(* depth of nested read locks: type correctness, exact counters, no lost   *)
(* wake-up, mutual exclusion and the precedence of writers.                *)
(***************************************************************************)
EXTENDS ExtReadWriteLock, FiniteSetTheorems, TLAPS

\* Mutual exclusion and the precedence of writers follow from these three.
LockInv == LockTypeOK /\ CountersExact /\ NoLostWakeup

USE DEF PCs
-----------------------------------------------------------------------------
(***************************************************************************)
(* The sets that the counters count are finite, in a state and in the next.*)
(***************************************************************************)
LEMMA ReadSlotsFinite == IsFiniteSet(Threads \X (1..MaxNested))
<1>1. IsFiniteSet(1..MaxNested)
  BY FS_Interval, MaxNestedAssumption
<1> QED
  BY <1>1, FS_Product, ThreadsAssumption

LEMMA CountedSetsFinite ==
  /\ IsFiniteSet(PendingWriters)
  /\ IsFiniteSet(PendingReaders)
  /\ IsFiniteSet(HeldReads)
<1>1. PendingWriters \in SUBSET Threads /\ PendingReaders \in SUBSET Threads
  BY DEF PendingWriters, PendingReaders, At
<1>2. HeldReads \in SUBSET (Threads \X (1..MaxNested))
  BY DEF HeldReads
<1> QED
  BY <1>1, <1>2, FS_Subset, ThreadsAssumption, ReadSlotsFinite

(***************************************************************************)
(* A counter is zero exactly when nobody is counted.                       *)
(***************************************************************************)
LEMMA ZeroCounters ==
  /\ Cardinality(PendingWriters) \in Nat /\ (Cardinality(PendingWriters) = 0 <=> PendingWriters = {})
  /\ Cardinality(PendingReaders) \in Nat /\ (Cardinality(PendingReaders) = 0 <=> PendingReaders = {})
  /\ Cardinality(HeldReads) \in Nat /\ (Cardinality(HeldReads) = 0 <=> HeldReads = {})
BY CountedSetsFinite, FS_EmptySet, FS_CardinalityType

(***************************************************************************)
(* No counted read lock means that no thread holds one.                    *)
(***************************************************************************)
LEMMA NoHeldReads ==
  ASSUME LockTypeOK
  PROVE  HeldReads = {} <=> \A t \in Threads : readLocks[t] = 0
<1>1. ASSUME HeldReads = {}, NEW t \in Threads PROVE readLocks[t] = 0
  <2>1. readLocks[t] \in 0..MaxNested
    BY DEF LockTypeOK
  <2>2. CASE readLocks[t] # 0
    <3>1. <<t, readLocks[t]>> \in Threads \X (1..MaxNested)
      BY <2>1, <2>2, MaxNestedAssumption
    <3>2. <<t, readLocks[t]>> \in HeldReads
      BY <2>1, <3>1, MaxNestedAssumption DEF HeldReads
    <3> QED
      BY <1>1, <3>2
  <2> QED
    BY <2>2
<1>2. ASSUME \A t \in Threads : readLocks[t] = 0 PROVE HeldReads = {}
  BY <1>2, MaxNestedAssumption DEF HeldReads
<1> QED
  BY <1>1, <1>2
-----------------------------------------------------------------------------
(***************************************************************************)
(* One more, and one less, read lock of a thread is one more, and one      *)
(* less, element of HeldReads.                                             *)
(***************************************************************************)
LEMMA GrantRead ==
  ASSUME LockTypeOK, NEW t \in Threads, readLocks[t] < MaxNested,
         readLocks' = [readLocks EXCEPT ![t] = @ + 1]
  PROVE  Cardinality(HeldReads') = Cardinality(HeldReads) + 1
<1> DEFINE r == <<t, readLocks[t] + 1>>
<1>1. readLocks \in [Threads -> 0..MaxNested] /\ MaxNested \in Nat
  BY MaxNestedAssumption DEF LockTypeOK
<1>2. r \in Threads \X (1..MaxNested) /\ r \notin HeldReads
  BY <1>1 DEF HeldReads
<1>3. HeldReads' = HeldReads \cup {r}
  <2>1. ASSUME NEW q \in Threads \X (1..MaxNested)
        PROVE  q[2] <= readLocks'[q[1]] <=> q[2] <= readLocks[q[1]] \/ q = r
    <3>1. PICK u \in Threads, i \in 1..MaxNested : q = <<u, i>>
      BY <2>1
    <3>2. readLocks'[u] = IF u = t THEN readLocks[t] + 1 ELSE readLocks[u]
      BY <1>1
    <3>3. i <= readLocks'[u] <=> i <= readLocks[u] \/ (u = t /\ i = readLocks[t] + 1)
      BY <1>1, <3>2
    <3> QED
      BY <3>1, <3>3
  <2> QED
    BY <1>2, <2>1 DEF HeldReads
<1> QED
  BY <1>2, <1>3, CountedSetsFinite, FS_AddElement

LEMMA ReturnRead ==
  ASSUME LockTypeOK, NEW t \in Threads, readLocks[t] > 0,
         readLocks' = [readLocks EXCEPT ![t] = @ - 1]
  PROVE  Cardinality(HeldReads') = Cardinality(HeldReads) - 1
<1> DEFINE r == <<t, readLocks[t]>>
<1>1. readLocks \in [Threads -> 0..MaxNested] /\ MaxNested \in Nat
  BY MaxNestedAssumption DEF LockTypeOK
<1>2. r \in HeldReads
  BY <1>1 DEF HeldReads
<1>3. HeldReads' = HeldReads \ {r}
  <2>1. ASSUME NEW q \in Threads \X (1..MaxNested)
        PROVE  q[2] <= readLocks'[q[1]] <=> q[2] <= readLocks[q[1]] /\ q # r
    <3>1. PICK u \in Threads, i \in 1..MaxNested : q = <<u, i>>
      BY <2>1
    <3>2. readLocks'[u] = IF u = t THEN readLocks[t] - 1 ELSE readLocks[u]
      BY <1>1
    <3>3. i <= readLocks'[u] <=> i <= readLocks[u] /\ ~(u = t /\ i = readLocks[t])
      BY <1>1, <3>2
    <3> QED
      BY <3>1, <3>3
  <2> QED
    BY <2>1 DEF HeldReads
<1> QED
  BY <1>2, <1>3, CountedSetsFinite, FS_RemoveElement
-----------------------------------------------------------------------------
(***************************************************************************)
(* The initial states.                                                     *)
(***************************************************************************)
LEMMA LockInitInv == LockInit => LockInv
<1> SUFFICES ASSUME LockInit PROVE LockInv
  OBVIOUS
<1>1. LockTypeOK
  BY MaxNestedAssumption DEF LockInit, LockTypeOK
<1>2. PendingWriters = {} /\ PendingReaders = {}
  BY DEF LockInit, PendingWriters, PendingReaders, At
<1>3. HeldReads = {}
  BY <1>1, NoHeldReads DEF LockInit
<1>4. CountersExact
  BY <1>2, <1>3, FS_EmptySet DEF LockInit, CountersExact
<1>5. NoLostWakeup
  BY <1>2 DEF NoLostWakeup, PendingWriters, PendingReaders
<1> QED
  BY <1>1, <1>4, <1>5 DEF LockInv

(***************************************************************************)
(* What CountersExact says when a lock is or is not held.                  *)
(***************************************************************************)
LEMMA WhoHolds ==
  ASSUME LockInv
  PROVE  /\ accessCount < 0 => accessCount = -1 /\ HeldReads = {} /\ \E w \in Threads : writers = {w}
         /\ accessCount >= 0 => writers = {} /\ accessCount = Cardinality(HeldReads)
         /\ accessCount = 0 => HeldReads = {}
         /\ \A t \in Threads : readLocks[t] > 0 => accessCount > 0
         /\ \A t \in Threads : t \in writers => accessCount = -1 /\ writers = {t}
<1>1. LockTypeOK /\ CountersExact
  BY DEF LockInv
<1>2. accessCount \in Int
  BY <1>1 DEF LockTypeOK
<1>3. CASE writers = {} /\ accessCount = Cardinality(HeldReads)
  <2>1. \A t \in Threads : readLocks[t] > 0 => HeldReads # {}
    BY <1>1, NoHeldReads
  <2> QED
    BY <1>3, <2>1, ZeroCounters
<1>4. CASE HeldReads = {} /\ accessCount = -1 /\ \E w \in Threads : writers = {w}
  <2>1. \A t \in Threads : readLocks[t] = 0
    BY <1>1, <1>4, NoHeldReads
  <2> QED
    BY <1>4, <2>1
<1> QED
  BY <1>1, <1>3, <1>4 DEF CountersExact

(***************************************************************************)
(* The three ways in which pc changes a thread's place: it starts to wait, *)
(* it is woken, it goes on.                                                *)
(***************************************************************************)
LEMMA StartWaiting ==
  ASSUME LockTypeOK, NEW t \in Threads, pc[t] = "run"
  PROVE  /\ pc' = [pc EXCEPT ![t] = "writerWait"] =>
              /\ Cardinality(PendingWriters') = Cardinality(PendingWriters) + 1
              /\ PendingReaders' = PendingReaders
         /\ pc' = [pc EXCEPT ![t] = "readerWait"] =>
              /\ Cardinality(PendingReaders') = Cardinality(PendingReaders) + 1
              /\ PendingWriters' = PendingWriters
<1>1. t \notin PendingWriters /\ t \notin PendingReaders
  BY DEF PendingWriters, PendingReaders, At
<1>2. pc' = [pc EXCEPT ![t] = "writerWait"] =>
        PendingWriters' = PendingWriters \cup {t} /\ PendingReaders' = PendingReaders
  BY DEF PendingWriters, PendingReaders, At, LockTypeOK
<1>3. pc' = [pc EXCEPT ![t] = "readerWait"] =>
        PendingReaders' = PendingReaders \cup {t} /\ PendingWriters' = PendingWriters
  BY DEF PendingWriters, PendingReaders, At, LockTypeOK
<1>4. /\ Cardinality(PendingWriters \cup {t}) = Cardinality(PendingWriters) + 1
      /\ Cardinality(PendingReaders \cup {t}) = Cardinality(PendingReaders) + 1
  BY <1>1, CountedSetsFinite, FS_AddElement
<1> QED
  BY <1>2, <1>3, <1>4

LEMMA GoOn ==
  ASSUME LockTypeOK, NEW t \in Threads, pc' = [pc EXCEPT ![t] = "run"]
  PROVE  /\ PendingWriters' = PendingWriters \ {t} /\ PendingReaders' = PendingReaders \ {t}
         /\ Cardinality(PendingWriters') =
               Cardinality(PendingWriters) - (IF t \in PendingWriters THEN 1 ELSE 0)
         /\ Cardinality(PendingReaders') =
               Cardinality(PendingReaders) - (IF t \in PendingReaders THEN 1 ELSE 0)
<1>1. PendingWriters' = PendingWriters \ {t} /\ PendingReaders' = PendingReaders \ {t}
  BY DEF PendingWriters, PendingReaders, At, LockTypeOK
<1>2. /\ Cardinality(PendingWriters \ {t}) =
           IF t \in PendingWriters THEN Cardinality(PendingWriters) - 1
                                  ELSE Cardinality(PendingWriters)
      /\ Cardinality(PendingReaders \ {t}) =
           IF t \in PendingReaders THEN Cardinality(PendingReaders) - 1
                                  ELSE Cardinality(PendingReaders)
  BY CountedSetsFinite, FS_RemoveElement
<1> QED
  BY <1>1, <1>2, ZeroCounters

LEMMA WakingKeepsPending ==
  ASSUME LockTypeOK, NEW u \in BOOLEAN, WakeUp(u)
  PROVE  /\ pc' \in [Threads -> PCs]
         /\ PendingWriters' = PendingWriters /\ PendingReaders' = PendingReaders
<1>1. CASE wakeOne
  BY <1>1 DEF wakeOne, At, PendingWriters, PendingReaders, LockTypeOK
<1>2. CASE wakeAll
  BY <1>2 DEF wakeAll, At, PendingWriters, PendingReaders, LockTypeOK
<1>3. CASE UNCHANGED pc
  BY <1>3 DEF At, PendingWriters, PendingReaders, LockTypeOK
<1> QED
  BY <1>1, <1>2, <1>3 DEF WakeUp
-----------------------------------------------------------------------------
(***************************************************************************)
(* lockForWrite and resumeLockForWrite preserve the invariant.             *)
(***************************************************************************)
LEMMA AcquireWriteInv ==
  ASSUME LockInv, NEW t \in Threads, AcquireWrite(t), accessCount = 0, pc[t] # "readerWait",
         pc[t] # "readerWoken", writerWaiting' = Cardinality(PendingWriters')
  PROVE  LockInv'
<1>1. LockTypeOK /\ CountersExact /\ NoLostWakeup
  BY DEF LockInv
<1>2. writers = {} /\ HeldReads = {}
  BY WhoHolds
<1>3. /\ accessCount' = -1 /\ writers' = {t} /\ pc' = [pc EXCEPT ![t] = "run"]
      /\ readerWaiting' = readerWaiting /\ currentReaders' = currentReaders
      /\ readLocks' = readLocks
  BY <1>2 DEF AcquireWrite
<1>4. writerWaiting' \in Nat
  <2>1. PendingWriters' = PendingWriters \ {t}
    BY <1>1, <1>3, GoOn
  <2> QED
    BY <2>1, CountedSetsFinite, FS_RemoveElement, FS_CardinalityType
<1>5. LockTypeOK'
  BY <1>1, <1>3, <1>4 DEF LockTypeOK
<1>6. HeldReads' = {}
  BY <1>2, <1>3 DEF HeldReads
<1>7. PendingReaders' = PendingReaders /\ PendingWriters' = PendingWriters \ {t}
  <2>1. t \notin PendingReaders
    BY DEF PendingReaders, At
  <2> QED
    BY <1>1, <1>3, <2>1, GoOn
<1>8. \A u \in PendingWriters' \cup PendingReaders' : HoldsNothing(u)'
  <2>1. t \notin PendingReaders
    BY DEF PendingReaders, At
  <2> QED
    BY <1>1, <1>2, <1>3, <1>7, <2>1 DEF CountersExact, HoldsNothing
<1>9. CountersExact'
  BY <1>1, <1>3, <1>6, <1>7, <1>8 DEF CountersExact
<1>10. NoLostWakeup'
  BY <1>3 DEF NoLostWakeup, KeepReadersOut
<1> QED
  BY <1>5, <1>9, <1>10 DEF LockInv

LEMMA LockForWriteInv ==
  ASSUME LockInv, NEW t \in Threads, CallLockForWrite(t)
  PROVE  LockInv'
<1>1. LockTypeOK /\ CountersExact /\ NoLostWakeup
  BY DEF LockInv
<1>2. HoldsNothing(t) /\ pc[t] = "run"
  BY DEF CallLockForWrite, lockForWrite
<1>3. CASE /\ accessCount # 0 /\ writerWaiting' = writerWaiting + 1
           /\ pc' = [pc EXCEPT ![t] = "writerWait"]
           /\ UNCHANGED <<accessCount, readerWaiting, currentReaders, readLocks, writers>>
  <2>1. LockTypeOK'
    BY <1>1, <1>3 DEF LockTypeOK
  <2>2. /\ Cardinality(PendingWriters') = Cardinality(PendingWriters) + 1
        /\ PendingReaders' = PendingReaders
    BY <1>1, <1>2, <1>3, StartWaiting
  <2>3. PendingWriters' = PendingWriters \cup {t}
    BY <1>1, <1>3 DEF PendingWriters, At, LockTypeOK
  <2>4. \A u \in PendingWriters' \cup PendingReaders' : HoldsNothing(u)'
    BY <1>1, <1>2, <1>3, <2>2, <2>3 DEF CountersExact, HoldsNothing
  <2>5. HeldReads' = HeldReads
    BY <1>3 DEF HeldReads
  <2>6. CountersExact'
    BY <1>1, <1>3, <2>2, <2>4, <2>5 DEF CountersExact
  <2>7. NoLostWakeup'
    BY <1>1, <1>3 DEF NoLostWakeup, KeepReadersOut, LockTypeOK
  <2> QED
    BY <2>1, <2>6, <2>7 DEF LockInv
<1>4. CASE accessCount = 0 /\ AcquireWrite(t) /\ UNCHANGED writerWaiting
  <2>1. pc' = [pc EXCEPT ![t] = "run"]
    BY <1>4 DEF AcquireWrite
  <2>2. t \notin PendingWriters
    BY <1>2 DEF PendingWriters, At
  <2>3. Cardinality(PendingWriters') = Cardinality(PendingWriters)
    BY <1>1, <2>1, <2>2, GoOn
  <2> QED
    BY <1>1, <1>2, <1>4, <2>3, AcquireWriteInv DEF CountersExact
<1> QED
  BY <1>3, <1>4 DEF CallLockForWrite, lockForWrite

LEMMA ResumeLockForWriteInv ==
  ASSUME LockInv, NEW t \in Threads, resumeLockForWrite(t)
  PROVE  LockInv'
<1>1. LockTypeOK /\ CountersExact /\ NoLostWakeup
  BY DEF LockInv
<1>2. pc[t] = "writerWoken" /\ t \in PendingWriters
  BY DEF resumeLockForWrite, PendingWriters, At
<1>3. CASE /\ accessCount # 0 /\ pc' = [pc EXCEPT ![t] = "writerWait"]
           /\ UNCHANGED <<accessCount, writerWaiting, readerWaiting, currentReaders,
                          readLocks, writers>>
  <2>1. LockTypeOK'
    BY <1>1, <1>3 DEF LockTypeOK
  <2>2. PendingWriters' = PendingWriters /\ PendingReaders' = PendingReaders
    BY <1>1, <1>2, <1>3 DEF PendingWriters, PendingReaders, At, LockTypeOK
  <2>3. HeldReads' = HeldReads
    BY <1>3 DEF HeldReads
  <2>4. CountersExact'
    BY <1>1, <1>3, <2>2, <2>3 DEF CountersExact, HoldsNothing
  <2>5. At("readerWait")' = At("readerWait")
    BY <1>1, <1>2, <1>3 DEF At, LockTypeOK
  <2>6. NoLostWakeup'
    BY <1>1, <1>3, <2>5 DEF NoLostWakeup, KeepReadersOut
  <2> QED
    BY <2>1, <2>4, <2>6 DEF LockInv
<1>4. CASE accessCount = 0 /\ AcquireWrite(t) /\ writerWaiting' = writerWaiting - 1
  <2>1. pc' = [pc EXCEPT ![t] = "run"]
    BY <1>4 DEF AcquireWrite
  <2>2. Cardinality(PendingWriters') = Cardinality(PendingWriters) - 1
    BY <1>1, <1>2, <2>1, GoOn
  <2> QED
    BY <1>1, <1>2, <1>4, <2>2, AcquireWriteInv DEF CountersExact
<1> QED
  BY <1>3, <1>4 DEF resumeLockForWrite
-----------------------------------------------------------------------------
(***************************************************************************)
(* lockForRead and resumeLockForRead preserve the invariant.               *)
(***************************************************************************)
LEMMA AcquireReadInv ==
  ASSUME LockInv, NEW t \in Threads, AcquireRead(t, currentReaders[t] + 1),
         accessCount >= 0, readLocks[t] < MaxNested,
         pc[t] # "writerWait", pc[t] # "writerWoken",
         At("readerWait") # {} => writerWaiting # 0,
         readerWaiting' = Cardinality(PendingReaders')
  PROVE  LockInv'
<1>1. LockTypeOK /\ CountersExact /\ NoLostWakeup
  BY DEF LockInv
<1>2. writers = {} /\ accessCount = Cardinality(HeldReads)
  BY WhoHolds
<1>3. /\ accessCount' = accessCount + 1 /\ writers' = {} /\ pc' = [pc EXCEPT ![t] = "run"]
      /\ writerWaiting' = writerWaiting
      /\ currentReaders' = [currentReaders EXCEPT ![t] = currentReaders[t] + 1]
      /\ readLocks' = [readLocks EXCEPT ![t] = @ + 1]
  BY <1>2 DEF AcquireRead
<1>4. t \notin PendingWriters
  BY DEF PendingWriters, At
<1>5. PendingReaders' = PendingReaders \ {t} /\ PendingWriters' = PendingWriters
  BY <1>1, <1>3, <1>4, GoOn
<1>6. LockTypeOK'
  <2>1. readerWaiting' \in Nat
    BY <1>5, CountedSetsFinite, FS_RemoveElement, FS_CardinalityType
  <2>2. readLocks' \in [Threads -> 0..MaxNested]
    BY <1>1, <1>3, MaxNestedAssumption DEF LockTypeOK
  <2> QED
    BY <1>1, <1>3, <2>1, <2>2 DEF LockTypeOK
<1>7. Cardinality(HeldReads') = Cardinality(HeldReads) + 1
  BY <1>1, <1>3, GrantRead
<1>8. \A u \in PendingWriters' \cup PendingReaders' : HoldsNothing(u)'
  <2>1. ASSUME NEW u \in PendingWriters' \cup PendingReaders' PROVE HoldsNothing(u)'
    <3>1. u # t /\ u \in PendingWriters \cup PendingReaders /\ u \in Threads
      BY <1>4, <1>5 DEF PendingWriters, PendingReaders, At
    <3>2. readLocks[u] = 0 /\ readLocks'[u] = readLocks[u]
      BY <1>1, <1>3, <3>1 DEF CountersExact, HoldsNothing, LockTypeOK
    <3> QED
      BY <1>3, <3>2 DEF HoldsNothing
  <2> QED
    BY <2>1
<1>9. currentReaders' = readLocks'
  BY <1>1, <1>3 DEF CountersExact
<1>10. CountersExact'
  BY <1>1, <1>2, <1>3, <1>5, <1>7, <1>8, <1>9 DEF CountersExact
<1>11. NoLostWakeup'
  <2>1. accessCount' # 0
    BY <1>1, <1>3 DEF LockTypeOK
  <2>2. At("readerWait")' \subseteq At("readerWait")
    BY <1>1, <1>3 DEF At, LockTypeOK
  <2> QED
    BY <1>3, <2>1, <2>2 DEF NoLostWakeup, KeepReadersOut
<1> QED
  BY <1>6, <1>10, <1>11 DEF LockInv

LEMMA LockForReadInv ==
  ASSUME LockInv, NEW t \in Threads, CallLockForRead(t)
  PROVE  LockInv'
<1>1. LockTypeOK /\ CountersExact /\ NoLostWakeup
  BY DEF LockInv
<1>2. pc[t] = "run" /\ t \notin writers /\ readLocks[t] < MaxNested
  BY DEF CallLockForRead, lockForRead
<1>3. currentReaders[t] = readLocks[t] /\ readLocks[t] \in Nat
  BY <1>1 DEF CountersExact, LockTypeOK
<1>4. ASSUME pc' = [pc EXCEPT ![t] = "run"], UNCHANGED readerWaiting
      PROVE  readerWaiting' = Cardinality(PendingReaders')
  <2>1. t \notin PendingReaders
    BY <1>2 DEF PendingReaders, At
  <2>2. PendingReaders' = PendingReaders
    BY <1>1, <1>4, <2>1, GoOn
  <2> QED
    BY <1>1, <1>4, <2>2 DEF CountersExact
<1>5. CASE /\ currentReaders[t] # 0 /\ AcquireRead(t, currentReaders[t] + 1)
           /\ UNCHANGED readerWaiting
  <2>1. accessCount > 0
    BY <1>3, <1>5, WhoHolds
  <2>2. At("readerWait") # {} => writerWaiting # 0
    BY <1>1, <2>1 DEF NoLostWakeup, KeepReadersOut, LockTypeOK
  <2>3. readerWaiting' = Cardinality(PendingReaders')
    BY <1>4, <1>5 DEF AcquireRead
  <2>4. accessCount >= 0
    BY <1>1, <2>1 DEF LockTypeOK
  <2> QED
    BY <1>2, <1>5, <2>2, <2>3, <2>4, AcquireReadInv
<1>6. CASE /\ currentReaders[t] = 0 /\ KeepReadersOut /\ readerWaiting' = readerWaiting + 1
           /\ pc' = [pc EXCEPT ![t] = "readerWait"]
           /\ UNCHANGED <<accessCount, writerWaiting, currentReaders, readLocks, writers>>
  <2>1. LockTypeOK'
    BY <1>1, <1>6 DEF LockTypeOK
  <2>2. /\ Cardinality(PendingReaders') = Cardinality(PendingReaders) + 1
        /\ PendingWriters' = PendingWriters
    BY <1>1, <1>2, <1>6, StartWaiting
  <2>3. PendingReaders' = PendingReaders \cup {t}
    BY <1>1, <1>6 DEF PendingReaders, At, LockTypeOK
  <2>4. HoldsNothing(t)
    BY <1>2, <1>3, <1>6 DEF HoldsNothing
  <2>5. \A u \in PendingWriters' \cup PendingReaders' : HoldsNothing(u)'
    BY <1>1, <1>6, <2>2, <2>3, <2>4 DEF CountersExact, HoldsNothing
  <2>6. HeldReads' = HeldReads
    BY <1>6 DEF HeldReads
  <2>7. CountersExact'
    BY <1>1, <1>6, <2>2, <2>5, <2>6 DEF CountersExact
  <2>8. At("writerWait")' = At("writerWait") /\ At("writerWoken")' = At("writerWoken")
    BY <1>1, <1>2, <1>6 DEF At, LockTypeOK
  <2>9. NoLostWakeup'
    BY <1>1, <1>6, <2>8 DEF NoLostWakeup, KeepReadersOut
  <2> QED
    BY <2>1, <2>7, <2>9 DEF LockInv
<1>7. CASE /\ currentReaders[t] = 0 /\ ~KeepReadersOut /\ AcquireRead(t, 1)
           /\ UNCHANGED readerWaiting
  <2>1. accessCount >= 0 /\ At("readerWait") = {}
    BY <1>1, <1>7 DEF NoLostWakeup, KeepReadersOut, LockTypeOK
  <2>2. readerWaiting' = Cardinality(PendingReaders')
    BY <1>4, <1>7 DEF AcquireRead
  <2>3. AcquireRead(t, currentReaders[t] + 1)
    BY <1>7
  <2> QED
    BY <1>2, <2>1, <2>2, <2>3, AcquireReadInv
<1> QED
  BY <1>5, <1>6, <1>7 DEF CallLockForRead, lockForRead

LEMMA ResumeLockForReadInv ==
  ASSUME LockInv, NEW t \in Threads, resumeLockForRead(t)
  PROVE  LockInv'
<1>1. LockTypeOK /\ CountersExact /\ NoLostWakeup
  BY DEF LockInv
<1>2. pc[t] = "readerWoken" /\ t \in PendingReaders
  BY DEF resumeLockForRead, PendingReaders, At
<1>3. readLocks[t] = 0 /\ currentReaders[t] = 0
  BY <1>1, <1>2 DEF CountersExact, HoldsNothing
<1>4. CASE /\ KeepReadersOut /\ pc' = [pc EXCEPT ![t] = "readerWait"]
           /\ UNCHANGED <<accessCount, writerWaiting, readerWaiting, currentReaders,
                          readLocks, writers>>
  <2>1. LockTypeOK'
    BY <1>1, <1>4 DEF LockTypeOK
  <2>2. PendingWriters' = PendingWriters /\ PendingReaders' = PendingReaders
    BY <1>1, <1>2, <1>4 DEF PendingWriters, PendingReaders, At, LockTypeOK
  <2>3. HeldReads' = HeldReads
    BY <1>4 DEF HeldReads
  <2>4. CountersExact'
    BY <1>1, <1>4, <2>2, <2>3 DEF CountersExact, HoldsNothing
  <2>5. At("writerWait")' = At("writerWait") /\ At("writerWoken")' = At("writerWoken")
    BY <1>1, <1>2, <1>4 DEF At, LockTypeOK
  <2>6. NoLostWakeup'
    BY <1>1, <1>4, <2>5 DEF NoLostWakeup, KeepReadersOut
  <2> QED
    BY <2>1, <2>4, <2>6 DEF LockInv
<1>5. CASE ~KeepReadersOut /\ AcquireRead(t, 1) /\ readerWaiting' = readerWaiting - 1
  <2>1. accessCount >= 0 /\ At("readerWait") = {}
    BY <1>1, <1>5 DEF NoLostWakeup, KeepReadersOut, LockTypeOK
  <2>2. readerWaiting' = Cardinality(PendingReaders')
    <3>1. pc' = [pc EXCEPT ![t] = "run"]
      BY <1>5 DEF AcquireRead
    <3>2. Cardinality(PendingReaders') = Cardinality(PendingReaders) - 1
      BY <1>1, <1>2, <3>1, GoOn
    <3> QED
      BY <1>1, <1>5, <3>2 DEF CountersExact
  <2>3. AcquireRead(t, currentReaders[t] + 1)
    BY <1>3, <1>5
  <2>4. readLocks[t] < MaxNested
    BY <1>3, MaxNestedAssumption
  <2> QED
    BY <1>2, <2>1, <2>2, <2>3, <2>4, AcquireReadInv
<1> QED
  BY <1>4, <1>5 DEF resumeLockForRead
-----------------------------------------------------------------------------
(***************************************************************************)
(* unlock preserves the invariant.  The wake-up it owes depends on whether *)
(* the lock becomes free.                                                  *)
(***************************************************************************)
LEMMA WakeUpOwed ==
  ASSUME LockInv, WakeUp(accessCount' = 0), accessCount' \in Nat,
         writerWaiting' = writerWaiting, accessCount' # 0 => accessCount >= 0
  PROVE  NoLostWakeup'
<1>1. LockTypeOK /\ CountersExact /\ NoLostWakeup
  BY DEF LockInv
<1>2. CASE accessCount' = 0 /\ writerWaiting # 0 /\ wakeOne
  <2>1. At("writerWait")' # {} => At("writerWoken")' # {}
    BY <1>1, <1>2 DEF wakeOne, At, LockTypeOK
  <2> QED
    BY <1>2, <2>1 DEF NoLostWakeup, KeepReadersOut
<1>3. CASE accessCount' = 0 /\ writerWaiting = 0 /\ wakeAll
  <2>1. PendingWriters = {}
    BY <1>1, <1>3, ZeroCounters DEF CountersExact
  <2>2. At("writerWait")' = {} /\ At("readerWait")' = {}
    BY <1>1, <1>3, <2>1 DEF wakeAll, At, LockTypeOK, PendingWriters
  <2> QED
    BY <2>2 DEF NoLostWakeup
<1>4. CASE accessCount' = 0 /\ writerWaiting = 0 /\ readerWaiting = 0 /\ UNCHANGED pc
  <2>1. PendingWriters = {} /\ PendingReaders = {}
    BY <1>1, <1>4, ZeroCounters DEF CountersExact
  <2>2. At("writerWait")' = {} /\ At("readerWait")' = {}
    BY <1>4, <2>1 DEF At, PendingWriters, PendingReaders
  <2> QED
    BY <2>2 DEF NoLostWakeup
<1>5. CASE accessCount' # 0 /\ UNCHANGED pc
  <2>1. At("readerWait")' = At("readerWait")
    BY <1>5 DEF At
  <2>2. accessCount >= 0 /\ accessCount \in Int
    BY <1>1, <1>5 DEF LockTypeOK
  <2> QED
    BY <1>1, <1>5, <2>1, <2>2 DEF NoLostWakeup, KeepReadersOut
<1> QED
  BY <1>2, <1>3, <1>4, <1>5 DEF WakeUp

LEMMA UnlockInv ==
  ASSUME LockInv, NEW t \in Threads, CallUnlock(t)
  PROVE  LockInv'
<1>1. LockTypeOK /\ CountersExact /\ NoLostWakeup
  BY DEF LockInv
<1>2. /\ pc[t] = "run" /\ ~HoldsNothing(t) /\ UNCHANGED <<writerWaiting, readerWaiting>>
      /\ writers' = writers \ {t}
  BY DEF CallUnlock, unlock
<1>3. readLocks[t] \in 0..MaxNested /\ MaxNested \in Nat /\ accessCount \in Int
  BY <1>1, MaxNestedAssumption DEF LockTypeOK
<1>4. \A u \in PendingWriters \cup PendingReaders : u # t /\ HoldsNothing(u)
  BY <1>1, <1>2 DEF CountersExact
<1>5. CASE t \in writers
  <2>1. accessCount = -1 /\ writers = {t} /\ HeldReads = {}
    BY <1>3, <1>5, WhoHolds
  <2>2. accessCount' = 0 /\ UNCHANGED currentReaders /\ WakeUp(accessCount' = 0)
    BY <2>1 DEF CallUnlock, unlock, ReleaseRead, ReleaseWrite
  <2>3. readLocks' = readLocks /\ writers' = {}
    BY <1>2, <1>5, <2>1 DEF CallUnlock, unlock
  <2>4. /\ pc' \in [Threads -> PCs]
        /\ PendingWriters' = PendingWriters /\ PendingReaders' = PendingReaders
    BY <1>1, <2>2, WakingKeepsPending
  <2>5. LockTypeOK'
    BY <1>1, <1>2, <2>2, <2>3, <2>4 DEF LockTypeOK
  <2>6. HeldReads' = {} /\ Cardinality(HeldReads') = 0
    BY <2>1, <2>3, FS_EmptySet DEF HeldReads
  <2>7. \A u \in PendingWriters' \cup PendingReaders' : HoldsNothing(u)'
    BY <1>4, <2>3, <2>4 DEF HoldsNothing
  <2>8. CountersExact'
    BY <1>1, <1>2, <2>2, <2>3, <2>4, <2>6, <2>7 DEF CountersExact
  <2>9. NoLostWakeup'
    BY <1>2, <2>2, WakeUpOwed
  <2> QED
    BY <2>5, <2>8, <2>9 DEF LockInv
<1>6. CASE t \notin writers
  <2>1. readLocks[t] > 0
    BY <1>2, <1>3, <1>6 DEF HoldsNothing
  <2>2. accessCount > 0 /\ writers = {} /\ accessCount = Cardinality(HeldReads)
    BY <1>3, <2>1, WhoHolds
  <2>3. /\ currentReaders' = [currentReaders EXCEPT ![t] = IF @ > 0 THEN @ - 1 ELSE 0]
        /\ accessCount' = accessCount - 1
        /\ WakeUp(accessCount' = 0)
    BY <1>3, <2>2 DEF CallUnlock, unlock, ReleaseRead, ReleaseWrite
  <2>4. readLocks' = [readLocks EXCEPT ![t] = @ - 1] /\ writers' = {}
    BY <1>2, <1>6, <2>2 DEF CallUnlock, unlock
  <2>5. /\ pc' \in [Threads -> PCs]
        /\ PendingWriters' = PendingWriters /\ PendingReaders' = PendingReaders
    BY <1>1, <2>3, WakingKeepsPending
  <2>6. currentReaders' = readLocks'
    BY <1>1, <2>1, <2>3, <2>4 DEF CountersExact
  <2>7. readLocks' \in [Threads -> 0..MaxNested]
    BY <1>1, <1>3, <2>1, <2>4 DEF LockTypeOK
  <2>8. currentReaders' \in [Threads -> Nat]
    BY <1>3, <2>6, <2>7
  <2>9. LockTypeOK'
    BY <1>1, <1>2, <1>3, <2>3, <2>5, <2>7, <2>8 DEF LockTypeOK
  <2>10. accessCount' = Cardinality(HeldReads')
    BY <1>1, <2>1, <2>2, <2>3, <2>4, ReturnRead
  <2>11. \A u \in PendingWriters' \cup PendingReaders' : HoldsNothing(u)'
    <3>1. ASSUME NEW u \in PendingWriters' \cup PendingReaders' PROVE HoldsNothing(u)'
      <4>1. u # t /\ readLocks[u] = 0 /\ u \in Threads
        BY <1>4, <2>5 DEF HoldsNothing, PendingWriters, PendingReaders, At
      <4>2. readLocks'[u] = 0
        BY <1>1, <2>4, <4>1 DEF LockTypeOK
      <4> QED
        BY <2>4, <4>2 DEF HoldsNothing
    <3> QED
      BY <3>1
  <2>12. CountersExact'
    BY <1>1, <1>2, <2>4, <2>5, <2>6, <2>10, <2>11 DEF CountersExact
  <2>13. NoLostWakeup'
    <3>1. accessCount' \in Nat /\ accessCount >= 0
      BY <1>3, <2>2, <2>3
    <3> QED
      BY <1>2, <2>3, <3>1, WakeUpOwed
  <2> QED
    BY <2>9, <2>12, <2>13 DEF LockInv
<1> QED
  BY <1>5, <1>6
-----------------------------------------------------------------------------
(***************************************************************************)
(* Every step of every thread, and every stuttering step, preserves the    *)
(* invariant.                                                              *)
(***************************************************************************)
LEMMA LockNextInv == LockInv /\ [LockNext]_lockVars => LockInv'
<1> SUFFICES ASSUME LockInv, [LockNext]_lockVars PROVE LockInv'
  OBVIOUS
<1>1. ASSUME NEW t \in Threads, LockStep(t) PROVE LockInv'
  BY <1>1, LockForWriteInv, ResumeLockForWriteInv, LockForReadInv, ResumeLockForReadInv,
     UnlockInv DEF LockStep
<1>2. CASE UNCHANGED lockVars
  BY <1>2 DEF lockVars, LockInv, LockTypeOK, CountersExact, NoLostWakeup, HeldReads,
     PendingWriters, PendingReaders, At, HoldsNothing, KeepReadersOut
<1> QED
  BY <1>1, <1>2 DEF LockNext

(***************************************************************************)
(* A writer is alone: its -1 in accessCount leaves no read lock counted.   *)
(***************************************************************************)
LEMMA LockInvExcludes == LockInv => MutualExclusion
<1> SUFFICES ASSUME LockInv, NEW w \in writers, NEW t \in Threads, t # w
             PROVE  HoldsNothing(t)
  BY DEF MutualExclusion
<1>1. LockTypeOK /\ w \in Threads
  BY DEF LockInv, LockTypeOK
<1>2. accessCount = -1 /\ writers = {w}
  BY <1>1, WhoHolds
<1>3. HeldReads = {}
  BY <1>2, WhoHolds
<1>4. readLocks[t] = 0
  BY <1>1, <1>3, NoHeldReads
<1> QED
  BY <1>2, <1>4 DEF HoldsNothing

(***************************************************************************)
(* The lock's variables keep their types and its counters are exact in     *)
(* every reachable state: accessCount, currentReaders, writerWaiting and   *)
(* readerWaiting of extreadwritelock.cpp never drift from what the threads *)
(* hold and wait for.                                                      *)
(***************************************************************************)
THEOREM CountersAreExact == LockSpec => [](LockTypeOK /\ CountersExact)
<1>1. LockInv => LockTypeOK /\ CountersExact
  BY DEF LockInv
<1> QED
  BY <1>1, LockInitInv, LockNextInv, PTL DEF LockSpec

(***************************************************************************)
(* unlock never leaves the lock free with a thread asleep that nobody will *)
(* wake.                                                                   *)
(***************************************************************************)
THEOREM NoWakeupIsLost == LockSpec => []NoLostWakeup
<1>1. LockInv => NoLostWakeup
  BY DEF LockInv
<1> QED
  BY <1>1, LockInitInv, LockNextInv, PTL DEF LockSpec

(***************************************************************************)
(* A thread that holds the lock for writing is the only holder.            *)
(***************************************************************************)
THEOREM MutualExclusionHolds == LockSpec => []MutualExclusion
  BY LockInvExcludes, LockInitInv, LockNextInv, PTL DEF LockSpec

(***************************************************************************)
(* mutexmodel.h's "write operations take precedence": lockForRead lets no  *)
(* thread in for the first time while a writer is in or waits.             *)
(***************************************************************************)
THEOREM WritersComeFirst == LockSpec => WritersFirst
<1> DEFINE Step == \A t \in Threads : readLocks[t] = 0 /\ readLocks'[t] > 0
                                        => PendingWriters = {} /\ writers = {}
<1>1. LockInv /\ [LockNext]_lockVars => [Step]_lockVars
  <2> SUFFICES ASSUME LockInv, LockNext, NEW t \in Threads, readLocks[t] = 0, readLocks'[t] > 0
               PROVE  PendingWriters = {} /\ writers = {}
    OBVIOUS
  <2>1. LockTypeOK /\ CountersExact
    BY DEF LockInv
  <2>2. PICK u \in Threads : LockStep(u)
    BY DEF LockNext
  <2>3. readLocks' # readLocks
    OBVIOUS
  <2>4. ASSUME NEW e, AcquireRead(u, e), ~KeepReadersOut PROVE PendingWriters = {} /\ writers = {}
    <3>1. accessCount >= 0 /\ writerWaiting = 0
      BY <2>1, <2>4 DEF KeepReadersOut, LockTypeOK
    <3> QED
      BY <2>1, <3>1, WhoHolds, ZeroCounters DEF CountersExact
  <2>5. CASE CallLockForWrite(u) \/ resumeLockForWrite(u)
    BY <2>3, <2>5 DEF CallLockForWrite, lockForWrite, resumeLockForWrite, AcquireWrite
  <2>6. CASE CallLockForRead(u)
    <3>1. CASE currentReaders[u] # 0 /\ AcquireRead(u, currentReaders[u] + 1)
      <4>1. u # t
        BY <2>1, <3>1 DEF CountersExact
      <4>2. readLocks'[t] = readLocks[t]
        BY <2>1, <3>1, <4>1 DEF AcquireRead, LockTypeOK
      <4> QED
        BY <4>2
    <3> QED
      BY <2>3, <2>4, <2>6, <3>1 DEF CallLockForRead, lockForRead
  <2>7. CASE resumeLockForRead(u)
    BY <2>3, <2>4, <2>7 DEF resumeLockForRead
  <2>8. CASE CallUnlock(u)
    <3>1. readLocks' = readLocks \/ readLocks' = [readLocks EXCEPT ![u] = @ - 1]
      BY <2>8 DEF CallUnlock, unlock
    <3>2. readLocks'[t] = readLocks[t] \/ readLocks'[t] = readLocks[t] - 1
      BY <2>1, <3>1 DEF LockTypeOK
    <3> QED
      BY <3>2
  <2> QED
    BY <2>2, <2>5, <2>6, <2>7, <2>8 DEF LockStep
<1>2. LockSpec => [][Step]_lockVars
  BY <1>1, LockInitInv, LockNextInv, PTL DEF LockSpec
<1> QED
  BY <1>2 DEF WritersFirst
=============================================================================
