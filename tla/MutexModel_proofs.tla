-------------------------- MODULE MutexModel_proofs -------------------------
(***************************************************************************)
(* Proofs about MutexModel for any finite sets of threads and iterators:   *)
(* it uses its lock within the lock's contract, it implements              *)
(* ThreadSafeModel, and no iterator outlives it dangling where the list of *)
(* open iterators is kept under the mutex.                                 *)
(***************************************************************************)
EXTENDS MutexModel, FiniteSetTheorems, TLAPS

\* what is proved of the lock itself
Proved == INSTANCE ExtReadWriteLock_proofs WITH MaxNested <- Cardinality(Iterators) + 1

Ops == WriteOps \cup IterOps \cup AskOps
Calls ==
  [op : Ops \cup {"none"}, phase : Phases, it : Iterators \cup {NoIterator}, copy : SUBSET Iterators]
Handles == [owner : Threads \cup {NoThread}, seen : SUBSET Statements, model : BOOLEAN]

MutexTypeOK ==
  /\ mode \in Modes
  /\ mutexOwner \in Threads \cup {NoThread}
  /\ call \in [Threads -> Calls]
  /\ statements \in SUBSET Statements
  /\ iters \in [Iterators -> Handles]
  /\ openIterators \in SUBSET Iterators
  /\ destroyed \in BOOLEAN

\* phases in which a call has the lock for itself: for writing, or beside its thread's iterators
Writing(t) == call[t].phase \in {"work", "unlock"} /\ call[t].op \in WriteOps
Reading(t) ==
  \/ call[t].phase \in {"work", "unlock"} /\ call[t].op \notin WriteOps
  \/ call[t].phase \in {"remove", "removing"}

(***************************************************************************)
(* What a call knows: its operation fits its phase, a thread that writes   *)
(* has no iterators, and ~MutexModel is called outside of calls.           *)
(***************************************************************************)
CallOK(t) ==
  /\ call[t].phase \in {"lock", "work"} => call[t].op \in Ops
  /\ call[t].phase \in {"idle", "remove", "removing"} => call[t].op = "none"
  /\ ~AtPhase(t, "idle") /\ call[t].op \in WriteOps =>
       call[t].phase \in {"lock", "work", "unlock"} /\ OpenBy(t) = {}
  /\ AtPhase(t, "append") => call[t].it \in OpenBy(t)
  /\ destroyed => AtPhase(t, "idle")

ModelKnown == ~destroyed => \A i \in Iterators : IsOpen(i) => iters[i].model

(***************************************************************************)
(* ReadWriteMultiThreading: a thread holds a read lock for each open       *)
(* iterator and one for the call it is in, or the write lock for its       *)
(* write, and waits inside the lock only in the phase before.              *)
(***************************************************************************)
ReadLocksOwned(t) ==
  ~destroyed => readLocks[t] = Cardinality(OpenBy(t)) + (IF Reading(t) THEN 1 ELSE 0)
WaitsInLock(t) ==
  /\ pc[t] # "run" => AtPhase(t, "lock")
  /\ pc[t] \in {"writerWait", "writerWoken"} => call[t].op \in WriteOps
  /\ pc[t] \in {"readerWait", "readerWoken"} => call[t].op \notin WriteOps

ReadWriteInv ==
  mode = ReadWrite =>
    \A t \in Threads : ReadLocksOwned(t) /\ WaitsInLock(t) /\ (t \in writers <=> Writing(t))

(***************************************************************************)
(* PlainMultiThreading: the mutex is with the thread that has an iterator  *)
(* or is in a call, so the list of open iterators is never changed by two  *)
(* threads at once and names every open iterator.                          *)
(***************************************************************************)
OwnsMutex(t) == call[t].phase \notin {"idle", "lock"} \/ OpenBy(t) # {}

PlainCall(t) ==
  /\ OwnsMutex(t) => mutexOwner = t
  /\ \A i, j \in OpenBy(t) : i = j
  /\ call[t].phase \notin {"idle", "append"} => OpenBy(t) = {}
  /\ call[t].phase \in {"append", "removing"} => call[t].copy = openIterators

Listed(i) ==
  IsOpen(i) =>
    IF destroyed THEN ~iters[i].model
    ELSE i \in openIterators \/ \E t \in Threads : AtPhase(t, "append") /\ call[t].it = i

PlainInv ==
  mode = Plain =>
    /\ Lock!LockInit
    /\ \A t \in Threads : PlainCall(t)
    /\ \A i \in Iterators : Listed(i)

Inv ==
  /\ MutexTypeOK /\ Proved!LockInv
  /\ \A t \in Threads : CallOK(t)
  /\ ModelKnown /\ ReadWriteInv /\ PlainInv
-----------------------------------------------------------------------------
(***************************************************************************)
(* The lock of the model is the lock the proofs are about.                 *)
(***************************************************************************)
LEMMA LockConstants ==
  /\ Proved!IsFiniteSet(Threads)
  /\ Cardinality(Iterators) \in Nat /\ Cardinality(Iterators) + 1 \in Nat \ {0}
<1>1. Proved!IsFiniteSet(Threads)
  BY FiniteAssumption DEF IsFiniteSet, Proved!IsFiniteSet
<1> QED
  BY <1>1, FiniteAssumption, FS_CardinalityType

LEMMA SameInit == Lock!LockInit => Proved!LockInit
  BY DEF Lock!LockInit, Proved!LockInit

LEMMA SameStep ==
  ASSUME NEW t
  PROVE  Lock!LockStep(t) => Proved!LockStep(t)
<1> USE DEF Lock!HoldsNothing, Proved!HoldsNothing, Lock!At, Proved!At
<1>1. Lock!CallLockForWrite(t) => Proved!CallLockForWrite(t)
  BY DEF Lock!CallLockForWrite, Proved!CallLockForWrite, Lock!lockForWrite, Proved!lockForWrite,
     Lock!AcquireWrite, Proved!AcquireWrite
<1>2. Lock!resumeLockForWrite(t) => Proved!resumeLockForWrite(t)
  BY DEF Lock!resumeLockForWrite, Proved!resumeLockForWrite, Lock!AcquireWrite, Proved!AcquireWrite
<1>3. Lock!CallLockForRead(t) => Proved!CallLockForRead(t)
  BY DEF Lock!CallLockForRead, Proved!CallLockForRead, Lock!lockForRead, Proved!lockForRead,
     Lock!AcquireRead, Proved!AcquireRead, Lock!KeepReadersOut, Proved!KeepReadersOut
<1>4. Lock!resumeLockForRead(t) => Proved!resumeLockForRead(t)
  BY DEF Lock!resumeLockForRead, Proved!resumeLockForRead,
     Lock!AcquireRead, Proved!AcquireRead, Lock!KeepReadersOut, Proved!KeepReadersOut
<1>5. Lock!CallUnlock(t) => Proved!CallUnlock(t)
  <2>1. ASSUME NEW b PROVE Lock!WakeUp(b) => Proved!WakeUp(b)
    BY DEF Lock!WakeUp, Proved!WakeUp, Lock!wakeOne, Proved!wakeOne, Lock!wakeAll, Proved!wakeAll
  <2>2. Lock!ReleaseRead(t) => Proved!ReleaseRead(t)
    BY <2>1 DEF Lock!ReleaseRead, Proved!ReleaseRead
  <2>3. Lock!ReleaseWrite => Proved!ReleaseWrite
    BY <2>1 DEF Lock!ReleaseWrite, Proved!ReleaseWrite
  <2> QED
    BY <2>2, <2>3 DEF Lock!CallUnlock, Proved!CallUnlock, Lock!unlock, Proved!unlock
<1> QED
  BY <1>1, <1>2, <1>3, <1>4, <1>5 DEF Lock!LockStep, Proved!LockStep

LEMMA LockSteps ==
  ASSUME Proved!LockInv, (\E t \in Threads : Lock!LockStep(t)) \/ UNCHANGED lockVars
  PROVE  Proved!LockInv'
<1>1. Proved!LockInv /\ [Proved!LockNext]_(Proved!lockVars) => Proved!LockInv'
  BY LockConstants, Proved!LockNextInv
<1>2. [Proved!LockNext]_(Proved!lockVars)
  BY SameStep DEF Proved!LockNext, lockVars, Proved!lockVars
<1> QED
  BY <1>1, <1>2

\* What the lock's own invariant says of a state.
WriterWaits == {"writerWait", "writerWoken"}
ReaderWaits == {"readerWait", "readerWoken"}

LEMMA LockTyped ==
  ASSUME Proved!LockInv
  PROVE  /\ pc \in [Threads -> {"run"} \cup WriterWaits \cup ReaderWaits]
         /\ readLocks \in [Threads -> Nat] /\ writers \in SUBSET Threads
         /\ currentReaders = readLocks /\ accessCount \in Int
<1>1. Proved!LockTypeOK /\ Proved!CountersExact
  BY DEF Proved!LockInv
<1>2. readLocks \in [Threads -> Nat]
  BY <1>1, LockConstants DEF Proved!LockTypeOK
<1> QED
  BY <1>1, <1>2 DEF Proved!LockTypeOK, Proved!CountersExact, Proved!PCs, WriterWaits, ReaderWaits

LEMMA Excludes ==
  ASSUME Proved!LockInv, NEW w \in writers, NEW t \in Threads, t # w
  PROVE  readLocks[t] = 0 /\ t \notin writers
<1>1. Proved!LockInv => Proved!MutualExclusion
  BY LockConstants, Proved!LockInvExcludes
<1> QED
  BY <1>1 DEF Proved!MutualExclusion, Proved!HoldsNothing
-----------------------------------------------------------------------------
(***************************************************************************)
(* The invariant thread by thread, and a thread that takes no part in a    *)
(* step.                                                                   *)
(***************************************************************************)
ThreadOK(t) ==
  /\ CallOK(t)
  /\ mode = ReadWrite => ReadLocksOwned(t) /\ WaitsInLock(t) /\ (t \in writers <=> Writing(t))
  /\ mode = Plain => PlainCall(t)

LEMMA InvParts ==
  Inv <=> /\ MutexTypeOK /\ Proved!LockInv /\ ModelKnown
          /\ \A t \in Threads : ThreadOK(t)
          /\ mode = Plain => Lock!LockInit /\ \A i \in Iterators : Listed(i)
  BY DEF Inv, ThreadOK, ReadWriteInv, PlainInv

LEMMA Bystander ==
  ASSUME NEW u \in Threads, ThreadOK(u),
         UNCHANGED <<mode, destroyed>>, call'[u] = call[u], OpenBy(u)' = OpenBy(u),
         readLocks'[u] = readLocks[u], u \in writers' <=> u \in writers,
         pc'[u] # "run" => pc[u] # "run",
         pc'[u] \in WriterWaits => pc[u] \in WriterWaits,
         pc'[u] \in ReaderWaits => pc[u] \in ReaderWaits,
         mode = Plain /\ OwnsMutex(u) => UNCHANGED <<mutexOwner, openIterators>>
  PROVE  ThreadOK(u)'
<1>1. CallOK(u)'
  BY DEF ThreadOK, CallOK, AtPhase
<1>2. ASSUME mode = ReadWrite
      PROVE  ReadLocksOwned(u)' /\ WaitsInLock(u)' /\ (u \in writers <=> Writing(u))'
  <2>1. ReadLocksOwned(u) /\ WaitsInLock(u) /\ (u \in writers <=> Writing(u))
    BY <1>2 DEF ThreadOK
  <2>2. Reading(u)' <=> Reading(u)
    BY DEF Reading
  <2>3. ReadLocksOwned(u)'
    BY <2>1, <2>2 DEF ReadLocksOwned
  <2>4. WaitsInLock(u)'
    BY <2>1 DEF WaitsInLock, AtPhase, WriterWaits, ReaderWaits
  <2>5. (u \in writers <=> Writing(u))'
    BY <2>1 DEF Writing
  <2> QED
    BY <2>3, <2>4, <2>5
<1>3. ASSUME mode = Plain PROVE PlainCall(u)'
  <2>1. OwnsMutex(u)' <=> OwnsMutex(u)
    BY DEF OwnsMutex
  <2>2. PlainCall(u)
    BY <1>3 DEF ThreadOK
  <2> QED
    BY <1>3, <2>1, <2>2 DEF PlainCall, OwnsMutex
<1> QED
  BY <1>1, <1>2, <1>3 DEF ThreadOK

LEMMA Alone ==
  ASSUME Inv, mode = Plain, NEW t \in Threads, OwnsMutex(t), NEW u \in Threads, u # t
  PROVE  ~OwnsMutex(u)
  BY DEF Inv, PlainInv, PlainCall

(***************************************************************************)
(* A step of one thread that leaves the lock alone.                        *)
(***************************************************************************)
LEMMA OwnStep ==
  ASSUME Inv, NEW t \in Threads,
         UNCHANGED <<mode, mutexOwner, lockVars, destroyed>>,
         call' \in [Threads -> Calls], iters' \in [Iterators -> Handles],
         statements' \in SUBSET Statements, openIterators' \in SUBSET Iterators,
         \A u \in Threads \ {t} : call'[u] = call[u] /\ OpenBy(u)' = OpenBy(u),
         openIterators' = openIterators \/ OwnsMutex(t),
         ThreadOK(t)', ModelKnown', mode = Plain => \A i \in Iterators : Listed(i)'
  PROVE  Inv'
<1>1. MutexTypeOK /\ Proved!LockInv /\ (\A u \in Threads : ThreadOK(u)) /\ (mode = Plain => Lock!LockInit)
  BY InvParts
<1>2. Proved!LockInv'
  BY <1>1, LockSteps
<1>3. MutexTypeOK'
  BY <1>1 DEF MutexTypeOK
<1>4. ASSUME NEW u \in Threads PROVE ThreadOK(u)'
  <2>1. CASE u = t
    BY <2>1
  <2>2. CASE u # t
    <3>1. call'[u] = call[u] /\ OpenBy(u)' = OpenBy(u)
      BY <2>2
    <3>2. ThreadOK(u)
      BY <1>1
    <3>3. mode = Plain /\ OwnsMutex(u) => UNCHANGED <<mutexOwner, openIterators>>
      BY <2>2, Alone
    <3>4. readLocks' = readLocks /\ writers' = writers /\ pc' = pc
      BY DEF lockVars
    <3> QED
      BY <3>1, <3>2, <3>3, <3>4, Bystander
  <2> QED
    BY <2>1, <2>2
<1>5. mode' = Plain => Lock!LockInit'
  BY <1>1 DEF Lock!LockInit, lockVars
<1> QED
  BY <1>2, <1>3, <1>4, <1>5 DEF Inv, ThreadOK, ReadWriteInv, PlainInv

\* one step on within a call
LEMMA GoTyped ==
  ASSUME MutexTypeOK, NEW t \in Threads, NEW p \in Phases, GoTo(t, p)
  PROVE  /\ call' \in [Threads -> Calls] /\ \A u \in Threads \ {t} : call'[u] = call[u]
         /\ call'[t] = [call[t] EXCEPT !.phase = p]
         /\ call'[t].phase = p /\ call'[t].op = call[t].op
         /\ call'[t].it = call[t].it /\ call'[t].copy = call[t].copy
<1>1. call \in [Threads -> Calls] /\ call[t] \in Calls
  BY DEF MutexTypeOK
<1>2. [call[t] EXCEPT !.phase = p] \in Calls
  BY <1>1 DEF Calls
<1>3. call' = [call EXCEPT ![t] = [call[t] EXCEPT !.phase = p]]
  BY DEF GoTo
<1> QED
  BY <1>1, <1>2, <1>3 DEF Calls

LEMMA CallInv ==
  ASSUME Inv, NEW t \in Threads, NEW op \in Ops, Call(t, op)
  PROVE  Inv'
<1>1. MutexTypeOK /\ ThreadOK(t) /\ ModelKnown /\ (mode = Plain => \A i \in Iterators : Listed(i))
  BY InvParts
<1>2. /\ UNCHANGED <<mode, mutexOwner, lockVars, statements, iters, openIterators, destroyed>>
      /\ call' = [call EXCEPT ![t].op = op, ![t].phase = "lock"]
      /\ ~destroyed /\ call[t].phase = "idle" /\ (op \in WriteOps \/ mode = Plain => OpenBy(t) = {})
  BY DEF Call, MayCall, AtPhase
<1>3. /\ call' \in [Threads -> Calls] /\ \A u \in Threads \ {t} : call'[u] = call[u]
      /\ call'[t].op = op /\ call'[t].phase = "lock"
  <2>1. call \in [Threads -> Calls] /\ call[t] \in Calls
    BY <1>1 DEF MutexTypeOK
  <2>2. [call[t] EXCEPT !.op = op, !.phase = "lock"] \in Calls
        /\ [call[t] EXCEPT !.op = op, !.phase = "lock"].op = op
        /\ [call[t] EXCEPT !.op = op, !.phase = "lock"].phase = "lock"
    BY <2>1 DEF Calls, Phases
  <2>3. call' = [call EXCEPT ![t] = [call[t] EXCEPT !.op = op, !.phase = "lock"]]
    BY <1>2
  <2> QED
    BY <2>1, <2>2, <2>3
<1>4. \A u \in Threads : OpenBy(u)' = OpenBy(u)
  BY <1>2 DEF OpenBy
<1>5. op # "none" /\ (op \in WriteOps => op \notin IterOps \cup AskOps)
  BY DEF Ops, WriteOps, IterOps, AskOps
<1>6. CallOK(t)'
  BY <1>1, <1>2, <1>3, <1>4 DEF ThreadOK, CallOK, AtPhase
<1>7. mode = ReadWrite => (ReadLocksOwned(t) /\ WaitsInLock(t) /\ (t \in writers <=> Writing(t)))'
  <2> SUFFICES ASSUME mode = ReadWrite
               PROVE  ReadLocksOwned(t)' /\ WaitsInLock(t)' /\ (t \in writers <=> Writing(t))'
    OBVIOUS
  <2>1. ReadLocksOwned(t) /\ WaitsInLock(t) /\ (t \in writers <=> Writing(t)) /\ readLocks' = readLocks
        /\ pc' = pc /\ writers' = writers
    BY <1>1, <1>2 DEF ThreadOK, lockVars
  <2>2. pc[t] = "run" /\ ~Reading(t) /\ ~Reading(t)' /\ ~Writing(t) /\ ~Writing(t)'
    BY <1>2, <1>3, <2>1 DEF WaitsInLock, AtPhase, Reading, Writing
  <2> QED
    BY <1>2, <1>4, <2>1, <2>2 DEF ReadLocksOwned, WaitsInLock
<1>8. mode = Plain => PlainCall(t)'
  BY <1>1, <1>2, <1>3, <1>4 DEF ThreadOK, PlainCall, OwnsMutex
<1>9. ThreadOK(t)'
  BY <1>2, <1>6, <1>7, <1>8 DEF ThreadOK
<1>10. ModelKnown' /\ (mode = Plain => \A i \in Iterators : Listed(i)')
  BY <1>1, <1>2, <1>3 DEF ModelKnown, IsOpen, Listed, AtPhase
<1> QED
  BY <1>1, <1>2, <1>3, <1>4, <1>9, <1>10, OwnStep DEF MutexTypeOK

(***************************************************************************)
(* The operations on the parent.                                           *)
(***************************************************************************)
LEMMA WorkDone ==
  ASSUME Inv, NEW t \in Threads, AtPhase(t, "work"), GoTo(t, "unlock"), statements' \in SUBSET Statements,
         UNCHANGED <<mode, mutexOwner, lockVars, iters, openIterators, destroyed>>
  PROVE  Inv'
<1>1. MutexTypeOK /\ ThreadOK(t) /\ ModelKnown /\ (mode = Plain => \A i \in Iterators : Listed(i))
  BY InvParts
<1>2. /\ call' \in [Threads -> Calls] /\ \A u \in Threads \ {t} : call'[u] = call[u]
      /\ call'[t].phase = "unlock" /\ call'[t].op = call[t].op
      /\ call'[t].it = call[t].it /\ call'[t].copy = call[t].copy
  BY <1>1, GoTyped DEF Phases
<1>3. \A u \in Threads : OpenBy(u)' = OpenBy(u)
  BY DEF OpenBy
<1>4. call[t].phase = "work"
  BY DEF AtPhase
<1>5. CallOK(t)'
  BY <1>1, <1>2, <1>3, <1>4 DEF ThreadOK, CallOK, AtPhase
<1>6. mode = ReadWrite => (ReadLocksOwned(t) /\ WaitsInLock(t) /\ (t \in writers <=> Writing(t)))'
  <2> SUFFICES ASSUME mode = ReadWrite
               PROVE  ReadLocksOwned(t)' /\ WaitsInLock(t)' /\ (t \in writers <=> Writing(t))'
    OBVIOUS
  <2>1. ReadLocksOwned(t) /\ WaitsInLock(t) /\ (t \in writers <=> Writing(t)) /\ readLocks' = readLocks
        /\ pc' = pc /\ writers' = writers
    BY <1>1 DEF ThreadOK, lockVars
  <2>2. pc[t] = "run" /\ (Reading(t)' <=> Reading(t)) /\ (Writing(t)' <=> Writing(t))
    BY <1>2, <1>4, <2>1 DEF WaitsInLock, AtPhase, Reading, Writing
  <2> QED
    BY <1>3, <2>1, <2>2 DEF ReadLocksOwned, WaitsInLock
<1>7. mode = Plain => PlainCall(t)'
  BY <1>1, <1>2, <1>3, <1>4 DEF ThreadOK, PlainCall, OwnsMutex
<1>8. ThreadOK(t)'
  BY <1>5, <1>6, <1>7 DEF ThreadOK
<1>9. ModelKnown' /\ (mode = Plain => \A i \in Iterators : Listed(i)')
  BY <1>1, <1>2, <1>4 DEF ModelKnown, IsOpen, Listed, AtPhase
<1> QED
  BY <1>1, <1>2, <1>3, <1>8, <1>9, OwnStep DEF MutexTypeOK

LEMMA ParentInv ==
  ASSUME Inv, NEW t \in Threads, addStatement(t) \/ removeStatement(t) \/ removeAllStatements(t) \/ askParent(t)
  PROVE  Inv'
<1>1. statements \in SUBSET Statements
  BY DEF Inv, MutexTypeOK
<1>2. AtPhase(t, "work") /\ GoTo(t, "unlock") /\ statements' \in SUBSET Statements
      /\ UNCHANGED <<mode, mutexOwner, lockVars, iters, openIterators, destroyed>>
  BY <1>1 DEF addStatement, removeStatement, removeAllStatements, askParent, ParentWrite, Work
<1> QED
  BY <1>2, WorkDone

(***************************************************************************)
(* Iterators.                                                              *)
(***************************************************************************)
LEMMA OpenByFinite == \A t : IsFiniteSet(OpenBy(t)) /\ Cardinality(OpenBy(t)) \in 0..Cardinality(Iterators)
<1> SUFFICES ASSUME NEW t PROVE IsFiniteSet(OpenBy(t)) /\ Cardinality(OpenBy(t)) \in 0..Cardinality(Iterators)
  OBVIOUS
<1>1. OpenBy(t) \subseteq Iterators
  BY DEF OpenBy
<1> QED
  BY <1>1, FiniteAssumption, FS_Subset, FS_CardinalityType

LEMMA OpenInv ==
  ASSUME Inv, NEW t \in Threads, openIterator(t)
  PROVE  Inv'
<1>1. MutexTypeOK /\ ThreadOK(t) /\ ModelKnown /\ (mode = Plain => \A i \in Iterators : Listed(i))
  BY InvParts
<1>2. /\ call[t].phase = "work" /\ call[t].op \in IterOps
      /\ UNCHANGED <<mode, mutexOwner, lockVars, statements, openIterators, destroyed>>
  BY DEF openIterator, AtPhase
<1>3. CASE GoTo(t, "unlock") /\ UNCHANGED iters
  BY <1>1, <1>2, <1>3, WorkDone DEF MutexTypeOK, AtPhase
<1>4. CASE \E i \in Iterators :
             /\ ~IsOpen(i)
             /\ iters' = [iters EXCEPT ![i] = [owner |-> t, seen |-> {}, model |-> TRUE]]
             /\ call' = [call EXCEPT ![t].phase = "append", ![t].it = i, ![t].copy = openIterators]
  <2>1. PICK i \in Iterators :
             /\ ~IsOpen(i)
             /\ iters' = [iters EXCEPT ![i] = [owner |-> t, seen |-> {}, model |-> TRUE]]
             /\ call' = [call EXCEPT ![t].phase = "append", ![t].it = i, ![t].copy = openIterators]
    BY <1>4
  <2>2. /\ call' \in [Threads -> Calls] /\ \A u \in Threads \ {t} : call'[u] = call[u]
        /\ call'[t].phase = "append" /\ call'[t].op = call[t].op
        /\ call'[t].it = i /\ call'[t].copy = openIterators
    <3> DEFINE c == [call[t] EXCEPT !.phase = "append", !.it = i, !.copy = openIterators]
    <3>1. call \in [Threads -> Calls] /\ call[t] \in Calls /\ openIterators \in SUBSET Iterators
      BY <1>1 DEF MutexTypeOK
    <3>2. c \in Calls /\ c.phase = "append" /\ c.op = call[t].op /\ c.it = i /\ c.copy = openIterators
      BY <3>1 DEF Calls, Phases
    <3>3. call' = [call EXCEPT ![t] = c]
      BY <2>1
    <3> HIDE DEF c
    <3> QED
      BY <3>1, <3>2, <3>3
  <2>3. /\ iters' \in [Iterators -> Handles] /\ \A j \in Iterators \ {i} : iters'[j] = iters[j]
        /\ iters'[i].owner = t /\ iters'[i].model /\ iters[i].owner = NoThread
    BY <1>1, <2>1 DEF MutexTypeOK, Handles, IsOpen
  <2>4. /\ OpenBy(t)' = OpenBy(t) \cup {i} /\ i \notin OpenBy(t)
        /\ \A u \in Threads \ {t} : OpenBy(u)' = OpenBy(u)
    BY <2>3, NamesAssumption DEF OpenBy
  <2>5. call[t].op \notin WriteOps /\ call[t].op # "none"
    BY <1>2 DEF IterOps, WriteOps
  <2>6. CallOK(t)'
    BY <1>1, <1>2, <2>2, <2>4, <2>5 DEF ThreadOK, CallOK, AtPhase
  <2>7. mode = ReadWrite => (ReadLocksOwned(t) /\ WaitsInLock(t) /\ (t \in writers <=> Writing(t)))'
    <3> SUFFICES ASSUME mode = ReadWrite
                 PROVE  ReadLocksOwned(t)' /\ WaitsInLock(t)' /\ (t \in writers <=> Writing(t))'
      OBVIOUS
    <3>1. ReadLocksOwned(t) /\ WaitsInLock(t) /\ (t \in writers <=> Writing(t)) /\ readLocks' = readLocks
          /\ pc' = pc /\ writers' = writers
      BY <1>1, <1>2 DEF ThreadOK, lockVars
    <3>2. pc[t] = "run" /\ Reading(t) /\ ~Reading(t)' /\ ~Writing(t) /\ ~Writing(t)'
      BY <1>2, <2>2, <2>5, <3>1 DEF WaitsInLock, AtPhase, Reading, Writing
    <3>3. Cardinality(OpenBy(t)') = Cardinality(OpenBy(t)) + 1
      BY <2>4, OpenByFinite, FS_AddElement
    <3> QED
      BY <1>2, <3>1, <3>2, <3>3, OpenByFinite DEF ReadLocksOwned, WaitsInLock
  <2>8. mode = Plain => PlainCall(t)'
    BY <1>1, <1>2, <2>2, <2>4 DEF ThreadOK, PlainCall, OwnsMutex
  <2>9. ThreadOK(t)'
    BY <1>2, <2>6, <2>7, <2>8 DEF ThreadOK
  <2>10. ModelKnown'
    BY <1>1, <1>2, <2>3 DEF ModelKnown, IsOpen
  <2>11. mode = Plain => \A j \in Iterators : Listed(j)'
    <3> SUFFICES ASSUME mode = Plain, NEW j \in Iterators PROVE Listed(j)'
      OBVIOUS
    <3>1. ~destroyed
      BY <1>1, <1>2 DEF ThreadOK, CallOK, AtPhase
    <3>2. CASE j = i
      BY <1>2, <2>2, <3>1, <3>2 DEF Listed, AtPhase
    <3>3. CASE j # i
      BY <1>1, <1>2, <2>2, <2>3, <3>1, <3>3 DEF Listed, AtPhase, IsOpen
    <3> QED
      BY <3>2, <3>3
  <2> QED
    BY <1>1, <1>2, <2>2, <2>3, <2>4, <2>9, <2>10, <2>11, OwnStep DEF MutexTypeOK
<1> QED
  BY <1>3, <1>4 DEF openIterator

LEMMA AppendInv ==
  ASSUME Inv, NEW t \in Threads, appendIterator(t)
  PROVE  Inv'
<1>1. MutexTypeOK /\ ThreadOK(t) /\ ModelKnown /\ (mode = Plain => \A i \in Iterators : Listed(i))
  BY InvParts
<1>2. /\ call[t].phase = "append" /\ openIterators' = call[t].copy \cup {call[t].it}
      /\ call' = [call EXCEPT ![t] = Idle]
      /\ UNCHANGED <<mode, mutexOwner, lockVars, statements, iters, destroyed>>
  BY DEF appendIterator, AtPhase
<1>3. /\ call' \in [Threads -> Calls] /\ \A u \in Threads \ {t} : call'[u] = call[u]
      /\ call'[t].phase = "idle" /\ call'[t].op = "none"
  <2>1. Idle \in Calls /\ Idle.phase = "idle" /\ Idle.op = "none"
    BY DEF Idle, Calls, Phases
  <2> QED
    BY <1>1, <1>2, <2>1 DEF MutexTypeOK
<1>4. /\ \A u \in Threads : OpenBy(u)' = OpenBy(u)
      /\ call[t].it \in OpenBy(t) /\ call[t].it \in Iterators /\ OwnsMutex(t)
  BY <1>1, <1>2 DEF OpenBy, ThreadOK, CallOK, AtPhase, OwnsMutex
<1>5. openIterators' \in SUBSET Iterators
  BY <1>1, <1>2, <1>4 DEF MutexTypeOK, Calls
<1>6. CallOK(t)'
  BY <1>3 DEF CallOK, AtPhase
<1>7. mode = ReadWrite => (ReadLocksOwned(t) /\ WaitsInLock(t) /\ (t \in writers <=> Writing(t)))'
  <2> SUFFICES ASSUME mode = ReadWrite
               PROVE  ReadLocksOwned(t)' /\ WaitsInLock(t)' /\ (t \in writers <=> Writing(t))'
    OBVIOUS
  <2>1. ReadLocksOwned(t) /\ WaitsInLock(t) /\ (t \in writers <=> Writing(t)) /\ readLocks' = readLocks
        /\ pc' = pc /\ writers' = writers
    BY <1>1, <1>2 DEF ThreadOK, lockVars
  <2>2. pc[t] = "run" /\ ~Reading(t) /\ ~Reading(t)' /\ ~Writing(t) /\ ~Writing(t)'
    BY <1>2, <1>3, <2>1 DEF WaitsInLock, AtPhase, Reading, Writing
  <2> QED
    BY <1>2, <1>4, <2>1, <2>2 DEF ReadLocksOwned, WaitsInLock
<1>8. mode = Plain => PlainCall(t)'
  BY <1>1, <1>2, <1>3, <1>4 DEF ThreadOK, PlainCall, OwnsMutex
<1>9. ThreadOK(t)'
  BY <1>2, <1>6, <1>7, <1>8 DEF ThreadOK
<1>10. ModelKnown'
  BY <1>1, <1>2 DEF ModelKnown, IsOpen
<1>11. mode = Plain => \A j \in Iterators : Listed(j)'
  <2> SUFFICES ASSUME mode = Plain, NEW j \in Iterators PROVE Listed(j)'
    OBVIOUS
  <2>1. call[t].copy = openIterators
    BY <1>1, <1>2 DEF ThreadOK, PlainCall
  <2>2. openIterators \subseteq openIterators' /\ call[t].it \in openIterators'
    BY <1>2, <2>1
  <2>3. Listed(j) /\ \A u \in Threads \ {t} : ~AtPhase(u, "append")
    BY <1>1, <1>4, Alone DEF OwnsMutex, AtPhase
  <2> QED
    BY <1>2, <1>3, <2>2, <2>3 DEF Listed, AtPhase, IsOpen
<1> QED
  BY <1>1, <1>2, <1>3, <1>4, <1>5, <1>9, <1>10, <1>11, OwnStep DEF MutexTypeOK

LEMMA IteratorNextInv ==
  ASSUME Inv, NEW t \in Threads, NEW i \in Iterators, next(t, i)
  PROVE  Inv'
<1>1. MutexTypeOK /\ ThreadOK(t) /\ ModelKnown /\ (mode = Plain => \A j \in Iterators : Listed(j))
  BY InvParts
<1>2. UNCHANGED <<mode, mutexOwner, lockVars, call, statements, openIterators, destroyed>>
  BY DEF next
<1>3. /\ iters' \in [Iterators -> Handles]
      /\ \A j \in Iterators : iters'[j].owner = iters[j].owner /\ iters'[j].model = iters[j].model
  <2>1. PICK s \in statements : iters' = [iters EXCEPT ![i].seen = @ \cup {s}]
    BY DEF next
  <2>2. iters \in [Iterators -> Handles] /\ s \in Statements
    BY <1>1 DEF MutexTypeOK
  <2> QED
    BY <2>1, <2>2 DEF Handles
<1>4. \A u \in Threads : OpenBy(u)' = OpenBy(u)
  BY <1>3 DEF OpenBy
<1>5. ThreadOK(t)'
  <2>1. readLocks' = readLocks /\ writers' = writers /\ pc' = pc
    BY <1>2 DEF lockVars
  <2> QED
    BY <1>1, <1>2, <1>4, <2>1, Bystander
<1>6. ModelKnown' /\ (mode = Plain => \A j \in Iterators : Listed(j)')
  BY <1>1, <1>2, <1>3 DEF ModelKnown, IsOpen, Listed, AtPhase
<1> QED
  BY <1>1, <1>2, <1>3, <1>4, <1>5, <1>6, OwnStep DEF MutexTypeOK

LEMMA CloseInv ==
  ASSUME Inv, NEW t \in Threads, NEW i \in Iterators, close(t, i)
  PROVE  Inv'
<1>1. MutexTypeOK /\ ThreadOK(t) /\ ModelKnown /\ (mode = Plain => \A j \in Iterators : Listed(j))
  BY InvParts
<1>2. /\ call[t].phase = "idle" /\ iters[i].owner = t /\ iters' = [iters EXCEPT ![i] = Unopened]
      /\ UNCHANGED <<mode, mutexOwner, lockVars, statements, openIterators, destroyed>>
  BY DEF close, AtPhase
<1>3. /\ iters' \in [Iterators -> Handles] /\ \A j \in Iterators \ {i} : iters'[j] = iters[j]
      /\ iters'[i].owner = NoThread
  <2>1. Unopened \in Handles /\ Unopened.owner = NoThread
    BY DEF Unopened, Handles
  <2> QED
    BY <1>1, <1>2, <2>1 DEF MutexTypeOK
<1>4. /\ OpenBy(t)' = OpenBy(t) \ {i} /\ i \in OpenBy(t)
      /\ \A u \in Threads \ {t} : OpenBy(u)' = OpenBy(u)
  BY <1>2, <1>3, NamesAssumption DEF OpenBy
<1>5. IsOpen(i)
  BY <1>2, NamesAssumption DEF IsOpen
<1>6. /\ call' \in [Threads -> Calls] /\ \A u \in Threads \ {t} : call'[u] = call[u]
      /\ IF destroyed THEN call' = call
         ELSE call'[t].phase = "remove" /\ call'[t].op = call[t].op /\ call'[t].it = i
  <2>1. CASE destroyed
    BY <1>1, <2>1 DEF close, MutexTypeOK
  <2>2. CASE ~destroyed
    <3> DEFINE c == [call[t] EXCEPT !.phase = "remove", !.it = i]
    <3>1. call \in [Threads -> Calls] /\ call[t] \in Calls
      BY <1>1 DEF MutexTypeOK
    <3>2. c \in Calls /\ c.phase = "remove" /\ c.op = call[t].op /\ c.it = i
      BY <3>1 DEF Calls, Phases
    <3>3. iters[i].model
      BY <1>1, <1>5, <2>2 DEF ModelKnown
    <3>4. call' = [call EXCEPT ![t] = c]
      BY <2>2, <3>3 DEF close
    <3> HIDE DEF c
    <3> QED
      BY <2>2, <3>1, <3>2, <3>4
  <2> QED
    BY <2>1, <2>2
<1>7. CallOK(t)'
  BY <1>1, <1>2, <1>6 DEF ThreadOK, CallOK, AtPhase, WriteOps
<1>8. mode = ReadWrite => (ReadLocksOwned(t) /\ WaitsInLock(t) /\ (t \in writers <=> Writing(t)))'
  <2> SUFFICES ASSUME mode = ReadWrite
               PROVE  ReadLocksOwned(t)' /\ WaitsInLock(t)' /\ (t \in writers <=> Writing(t))'
    OBVIOUS
  <2>1. ReadLocksOwned(t) /\ WaitsInLock(t) /\ (t \in writers <=> Writing(t)) /\ readLocks' = readLocks
        /\ pc' = pc /\ writers' = writers
    BY <1>1, <1>2 DEF ThreadOK, lockVars
  <2>2. pc[t] = "run" /\ ~Reading(t) /\ ~Writing(t) /\ ~Writing(t)' /\ (~destroyed => Reading(t)')
    BY <1>2, <1>6, <2>1 DEF WaitsInLock, AtPhase, Reading, Writing
  <2>3. Cardinality(OpenBy(t)') = Cardinality(OpenBy(t)) - 1
    BY <1>4, OpenByFinite, FS_RemoveElement
  <2> QED
    BY <1>2, <1>4, <2>1, <2>2, <2>3, OpenByFinite DEF ReadLocksOwned, WaitsInLock
<1>9. mode = Plain => PlainCall(t)'
  <2> SUFFICES ASSUME mode = Plain PROVE PlainCall(t)'
    OBVIOUS
  <2>1. PlainCall(t) /\ mutexOwner = t
    BY <1>1, <1>4 DEF ThreadOK, PlainCall, OwnsMutex
  <2>2. OpenBy(t)' = {}
    BY <1>4, <2>1 DEF PlainCall
  <2>3. call'[t].phase \notin {"append", "removing"}
    BY <1>2, <1>6
  <2> QED
    BY <1>2, <2>1, <2>2, <2>3 DEF PlainCall
<1>10. ThreadOK(t)'
  BY <1>2, <1>7, <1>8, <1>9 DEF ThreadOK
<1>11. ModelKnown' /\ (mode = Plain => \A j \in Iterators : Listed(j)')
  BY <1>1, <1>2, <1>3, <1>6 DEF ModelKnown, IsOpen, Listed, AtPhase
<1> QED
  BY <1>1, <1>2, <1>3, <1>4, <1>6, <1>10, <1>11, OwnStep DEF MutexTypeOK

LEMMA RemoveInv ==
  ASSUME Inv, NEW t \in Threads, removeIterator(t)
  PROVE  Inv'
<1>1. MutexTypeOK /\ ThreadOK(t) /\ ModelKnown /\ (mode = Plain => \A i \in Iterators : Listed(i))
  BY InvParts
<1>2. /\ call[t].phase \in {"remove", "removing"}
      /\ UNCHANGED <<mode, mutexOwner, lockVars, statements, iters, destroyed>>
  BY DEF removeIterator, AtPhase
<1>3. /\ call' \in [Threads -> Calls] /\ \A u \in Threads \ {t} : call'[u] = call[u]
      /\ call'[t].op = call[t].op /\ openIterators' \in SUBSET Iterators
      /\ \/ /\ call[t].phase = "remove" /\ call'[t].phase = "removing" /\ call'[t].copy = openIterators
            /\ openIterators' = openIterators
         \/ /\ call[t].phase = "removing" /\ call'[t].phase = "unlock"
  <2>1. call \in [Threads -> Calls] /\ call[t] \in Calls /\ openIterators \in SUBSET Iterators
    BY <1>1 DEF MutexTypeOK
  <2>2. CASE AtPhase(t, "remove")
    <3> DEFINE c == [call[t] EXCEPT !.phase = "removing", !.copy = openIterators]
    <3>1. c \in Calls /\ c.phase = "removing" /\ c.op = call[t].op /\ c.copy = openIterators
      BY <2>1 DEF Calls, Phases
    <3>2. call' = [call EXCEPT ![t] = c] /\ openIterators' = openIterators
      BY <2>2 DEF removeIterator, AtPhase
    <3> HIDE DEF c
    <3> QED
      BY <2>1, <2>2, <3>1, <3>2 DEF AtPhase
  <2>3. CASE AtPhase(t, "removing")
    <3>1. GoTo(t, "unlock") /\ openIterators' = call[t].copy \ {call[t].it}
      BY <2>3 DEF removeIterator, AtPhase
    <3>2. openIterators' \in SUBSET Iterators
      BY <2>1, <3>1 DEF Calls
    <3> QED
      BY <1>1, <2>3, <3>1, <3>2, GoTyped DEF AtPhase, Phases
  <2> QED
    BY <2>2, <2>3 DEF removeIterator
<1>4. /\ \A u \in Threads : OpenBy(u)' = OpenBy(u)
      /\ OwnsMutex(t)
  BY <1>2 DEF OpenBy, OwnsMutex
<1>5. call[t].op = "none" /\ "none" \notin WriteOps
  BY <1>1, <1>2 DEF ThreadOK, CallOK, WriteOps
<1>6. CallOK(t)'
  BY <1>1, <1>2, <1>3, <1>5 DEF ThreadOK, CallOK, AtPhase
<1>7. mode = ReadWrite => (ReadLocksOwned(t) /\ WaitsInLock(t) /\ (t \in writers <=> Writing(t)))'
  <2> SUFFICES ASSUME mode = ReadWrite
               PROVE  ReadLocksOwned(t)' /\ WaitsInLock(t)' /\ (t \in writers <=> Writing(t))'
    OBVIOUS
  <2>1. ReadLocksOwned(t) /\ WaitsInLock(t) /\ (t \in writers <=> Writing(t)) /\ readLocks' = readLocks
        /\ pc' = pc /\ writers' = writers
    BY <1>1, <1>2 DEF ThreadOK, lockVars
  <2>2. pc[t] = "run" /\ Reading(t) /\ Reading(t)' /\ ~Writing(t) /\ ~Writing(t)'
    BY <1>2, <1>3, <1>5, <2>1 DEF WaitsInLock, AtPhase, Reading, Writing
  <2> QED
    BY <1>2, <1>4, <2>1, <2>2 DEF ReadLocksOwned, WaitsInLock
<1>8. mode = Plain => PlainCall(t)'
  BY <1>1, <1>2, <1>3, <1>4 DEF ThreadOK, PlainCall, OwnsMutex
<1>9. ThreadOK(t)'
  BY <1>2, <1>6, <1>7, <1>8 DEF ThreadOK
<1>10. ModelKnown'
  BY <1>1, <1>2 DEF ModelKnown, IsOpen
<1>11. mode = Plain => \A j \in Iterators : Listed(j)'
  <2> SUFFICES ASSUME mode = Plain, NEW j \in Iterators PROVE Listed(j)'
    OBVIOUS
  <2>1. OpenBy(t) = {} /\ \A u \in Threads \ {t} : OpenBy(u) = {}
    BY <1>1, <1>2, <1>4, Alone DEF ThreadOK, PlainCall, OwnsMutex
  <2>2. iters[j].owner \in Threads \cup {NoThread}
    BY <1>1 DEF MutexTypeOK, Handles
  <2>3. ~IsOpen(j)
    BY <2>1, <2>2 DEF OpenBy, IsOpen
  <2> QED
    BY <1>2, <2>3 DEF Listed, IsOpen
<1> QED
  BY <1>1, <1>2, <1>3, <1>4, <1>9, <1>10, <1>11, OwnStep DEF MutexTypeOK

LEMMA DestroyInv ==
  ASSUME Inv, destroy
  PROVE  Inv'
<1>1. MutexTypeOK /\ Proved!LockInv /\ (\A t \in Threads : ThreadOK(t)) /\ ModelKnown
      /\ (mode = Plain => Lock!LockInit /\ \A i \in Iterators : Listed(i))
  BY InvParts
<1>2. /\ ~destroyed /\ destroyed' = TRUE /\ \A t \in Threads : call[t].phase = "idle"
      /\ UNCHANGED <<mode, mutexOwner, lockVars, call, statements, openIterators>>
      /\ iters' = [i \in Iterators |->
                     IF i \in openIterators THEN [iters[i] EXCEPT !.model = FALSE] ELSE iters[i]]
  BY DEF destroy, AtPhase
<1>3. /\ iters' \in [Iterators -> Handles]
      /\ \A i \in Iterators : iters'[i].owner = iters[i].owner /\ (i \in openIterators => ~iters'[i].model)
  <2>1. ASSUME NEW i \in Iterators
        PROVE  /\ iters'[i] \in Handles /\ iters'[i].owner = iters[i].owner
               /\ i \in openIterators => ~iters'[i].model
    <3>1. iters[i] \in Handles
      BY <1>1 DEF MutexTypeOK
    <3>2. [iters[i] EXCEPT !.model = FALSE] \in Handles /\ [iters[i] EXCEPT !.model = FALSE].owner = iters[i].owner
          /\ ~[iters[i] EXCEPT !.model = FALSE].model
      BY <3>1 DEF Handles
    <3> QED
      BY <1>2, <3>1, <3>2
  <2> QED
    BY <1>2, <2>1
<1>4. Proved!LockInv'
  BY <1>1, <1>2, LockSteps
<1>5. MutexTypeOK'
  BY <1>1, <1>2, <1>3 DEF MutexTypeOK
<1>6. ASSUME NEW t \in Threads PROVE ThreadOK(t)'
  <2>1. OpenBy(t)' = OpenBy(t) /\ ThreadOK(t) /\ call[t].phase = "idle"
    BY <1>1, <1>2, <1>3 DEF OpenBy
  <2>2. CallOK(t)'
    BY <1>2, <2>1 DEF ThreadOK, CallOK, AtPhase, WriteOps
  <2>3. mode = ReadWrite => (ReadLocksOwned(t) /\ WaitsInLock(t) /\ (t \in writers <=> Writing(t)))'
    BY <1>2, <2>1 DEF ThreadOK, ReadLocksOwned, WaitsInLock, AtPhase, Writing, lockVars
  <2>4. mode = Plain => PlainCall(t)'
    BY <1>2, <2>1 DEF ThreadOK, PlainCall, OwnsMutex
  <2> QED
    BY <1>2, <2>2, <2>3, <2>4 DEF ThreadOK
<1>7. ModelKnown'
  BY <1>2 DEF ModelKnown
<1>8. mode = Plain => Lock!LockInit' /\ \A i \in Iterators : Listed(i)'
  <2>1. mode = Plain => Lock!LockInit'
    BY <1>1, <1>2 DEF Lock!LockInit, lockVars
  <2>2. ASSUME mode = Plain, NEW i \in Iterators PROVE Listed(i)'
    BY <1>1, <1>2, <1>3, <2>2 DEF Listed, IsOpen, AtPhase
  <2> QED
    BY <2>1, <2>2
<1> QED
  BY <1>2, <1>4, <1>5, <1>6, <1>7, <1>8 DEF Inv, ThreadOK, ReadWriteInv, PlainInv
-----------------------------------------------------------------------------
(***************************************************************************)
(* PlainMultiThreading: the mutex is taken by a thread that has no         *)
(* iterator, and given back by one that has none left.                     *)
(***************************************************************************)
LEMMA PlainStep ==
  ASSUME Inv, mode = Plain, NEW t \in Threads,
         UNCHANGED <<mode, lockVars, statements, iters, openIterators, destroyed>>,
         call' \in [Threads -> Calls], \A u \in Threads \ {t} : call'[u] = call[u],
         mutexOwner' \in Threads \cup {NoThread},
         \A u \in Threads \ {t} : ~OwnsMutex(u),
         ~AtPhase(t, "append"), CallOK(t)', PlainCall(t)'
  PROVE  Inv'
<1>1. MutexTypeOK /\ Proved!LockInv /\ (\A u \in Threads : ThreadOK(u)) /\ ModelKnown
      /\ Lock!LockInit /\ \A i \in Iterators : Listed(i)
  BY InvParts
<1>2. Proved!LockInv'
  BY <1>1, LockSteps
<1>3. MutexTypeOK'
  BY <1>1 DEF MutexTypeOK
<1>4. Plain # ReadWrite
  BY DEF Plain, ReadWrite
<1>5. ASSUME NEW u \in Threads PROVE ThreadOK(u)'
  <2>1. OpenBy(u)' = OpenBy(u) /\ ThreadOK(u)
    BY <1>1 DEF OpenBy
  <2>2. CASE u = t
    BY <1>4, <2>2 DEF ThreadOK
  <2>3. CASE u # t
    <3>1. readLocks' = readLocks /\ writers' = writers /\ pc' = pc /\ call'[u] = call[u] /\ ~OwnsMutex(u)
      BY <2>3 DEF lockVars
    <3> QED
      BY <2>1, <3>1, Bystander
  <2> QED
    BY <2>2, <2>3
<1>6. ModelKnown'
  BY <1>1 DEF ModelKnown, IsOpen
<1>7. Lock!LockInit'
  BY <1>1 DEF Lock!LockInit, lockVars
<1>8. \A i \in Iterators : Listed(i)'
  <2>1. \A u \in Threads : AtPhase(u, "append") => u # t /\ AtPhase(u, "append")' /\ call'[u].it = call[u].it
    BY DEF AtPhase
  <2> QED
    BY <1>1, <2>1 DEF Listed, IsOpen
<1> QED
  BY <1>2, <1>3, <1>4, <1>5, <1>6, <1>7, <1>8 DEF Inv, ThreadOK, ReadWriteInv, PlainInv

LEMMA LockMutexInv ==
  ASSUME Inv, NEW t \in Threads, AtPhase(t, "lock"), lockMutex(t),
         UNCHANGED <<mode, statements, iters, openIterators, destroyed>>
  PROVE  Inv'
<1>1. MutexTypeOK /\ ThreadOK(t)
  BY InvParts
<1>2. mode = Plain /\ mutexOwner = NoThread /\ mutexOwner' = t /\ GoTo(t, "work") /\ UNCHANGED lockVars
      /\ call[t].phase = "lock"
  BY DEF lockMutex, AtPhase
<1>3. /\ call' \in [Threads -> Calls] /\ \A u \in Threads \ {t} : call'[u] = call[u]
      /\ call'[t].phase = "work" /\ call'[t].op = call[t].op
  BY <1>1, <1>2, GoTyped DEF Phases
<1>4. \A u \in Threads : ~OwnsMutex(u)
  BY <1>2, NamesAssumption DEF Inv, PlainInv, PlainCall
<1>5. OpenBy(t)' = OpenBy(t)
  BY DEF OpenBy
<1>6. CallOK(t)'
  BY <1>1, <1>2, <1>3, <1>5 DEF ThreadOK, CallOK, AtPhase
<1>7. PlainCall(t)'
  BY <1>1, <1>2, <1>3, <1>5 DEF ThreadOK, PlainCall
<1> QED
  BY <1>2, <1>3, <1>4, <1>6, <1>7, PlainStep DEF AtPhase

LEMMA UnlockMutexInv ==
  ASSUME Inv, NEW t \in Threads, unlock(t), mode = Plain
  PROVE  Inv'
<1>1. MutexTypeOK /\ ThreadOK(t)
  BY InvParts
<1>2. /\ mutexOwner' = NoThread /\ call' = [call EXCEPT ![t] = Idle] /\ call[t].phase = "unlock"
      /\ UNCHANGED <<mode, lockVars, statements, iters, openIterators, destroyed>>
  BY DEF unlock, AtPhase, Plain, ReadWrite
<1>3. /\ call' \in [Threads -> Calls] /\ \A u \in Threads \ {t} : call'[u] = call[u]
      /\ call'[t].phase = "idle" /\ call'[t].op = "none"
  <2>1. Idle \in Calls /\ Idle.phase = "idle" /\ Idle.op = "none"
    BY DEF Idle, Calls, Phases
  <2> QED
    BY <1>1, <1>2, <2>1 DEF MutexTypeOK
<1>4. \A u \in Threads \ {t} : ~OwnsMutex(u)
  BY <1>2, Alone DEF OwnsMutex
<1>5. OpenBy(t)' = {} /\ OpenBy(t) = {}
  BY <1>1, <1>2 DEF OpenBy, ThreadOK, PlainCall
<1>6. CallOK(t)'
  BY <1>3 DEF CallOK, AtPhase
<1>7. PlainCall(t)'
  BY <1>3, <1>5 DEF PlainCall, OwnsMutex
<1> QED
  BY <1>2, <1>3, <1>4, <1>6, <1>7, PlainStep DEF AtPhase
-----------------------------------------------------------------------------
(***************************************************************************)
(* ReadWriteMultiThreading: what the steps of the lock do to its owners.   *)
(***************************************************************************)
NobodyElseMoves(t) ==
  \A u \in Threads \ {t} :
    /\ readLocks'[u] = readLocks[u] /\ (u \in writers' <=> u \in writers)
    /\ pc'[u] # "run" => pc[u] # "run"
    /\ pc'[u] \in WriterWaits => pc[u] \in WriterWaits
    /\ pc'[u] \in ReaderWaits => pc[u] \in ReaderWaits

LEMMA ReadGranted ==
  ASSUME Proved!LockInv, NEW t \in Threads, Lock!lockForRead(t) \/ Lock!resumeLockForRead(t)
  PROVE  /\ NobodyElseMoves(t) /\ writers' = writers
         /\ \/ pc'[t] = "run" /\ readLocks'[t] = readLocks[t] + 1
            \/ pc'[t] = "readerWait" /\ readLocks'[t] = readLocks[t]
<1>1. /\ pc \in [Threads -> {"run"} \cup WriterWaits \cup ReaderWaits] /\ readLocks \in [Threads -> Nat]
  BY LockTyped
<1>2. CASE \E entry : Lock!AcquireRead(t, entry)
  BY <1>1, <1>2 DEF Lock!AcquireRead, NobodyElseMoves
<1>3. CASE pc' = [pc EXCEPT ![t] = "readerWait"] /\ UNCHANGED <<readLocks, writers>>
  BY <1>1, <1>3 DEF NobodyElseMoves
<1> QED
  BY <1>2, <1>3 DEF Lock!lockForRead, Lock!resumeLockForRead

LEMMA WriteGranted ==
  ASSUME Proved!LockInv, NEW t \in Threads, Lock!lockForWrite(t) \/ Lock!resumeLockForWrite(t)
  PROVE  /\ NobodyElseMoves(t) /\ readLocks' = readLocks
         /\ \/ pc'[t] = "run" /\ t \in writers'
            \/ pc'[t] = "writerWait" /\ writers' = writers
<1>1. /\ pc \in [Threads -> {"run"} \cup WriterWaits \cup ReaderWaits] /\ readLocks \in [Threads -> Nat]
  BY LockTyped
<1>2. CASE Lock!AcquireWrite(t)
  BY <1>1, <1>2 DEF Lock!AcquireWrite, NobodyElseMoves
<1>3. CASE pc' = [pc EXCEPT ![t] = "writerWait"] /\ UNCHANGED <<readLocks, writers>>
  BY <1>1, <1>3 DEF NobodyElseMoves
<1> QED
  BY <1>2, <1>3 DEF Lock!lockForWrite, Lock!resumeLockForWrite

LEMMA Released ==
  ASSUME Proved!LockInv, NEW t \in Threads, Lock!unlock(t), ~Lock!HoldsNothing(t)
  PROVE  /\ NobodyElseMoves(t) /\ t \notin writers' /\ pc'[t] = "run"
         /\ readLocks'[t] = IF t \in writers THEN readLocks[t] ELSE readLocks[t] - 1
<1>1. /\ pc \in [Threads -> {"run"} \cup WriterWaits \cup ReaderWaits] /\ readLocks \in [Threads -> Nat]
  BY LockTyped
<1>2. /\ pc[t] = "run" /\ writers' = writers \ {t}
      /\ readLocks' = IF t \in writers THEN readLocks ELSE [readLocks EXCEPT ![t] = @ - 1]
  BY DEF Lock!unlock
<1>3. \/ UNCHANGED pc
      \/ \E w \in Threads : pc[w] = "writerWait" /\ pc' = [pc EXCEPT ![w] = "writerWoken"]
      \/ pc' = [u \in Threads |-> IF pc[u] = "readerWait" THEN "readerWoken" ELSE pc[u]]
  <2>1. UNCHANGED pc \/ \E b : Lock!WakeUp(b)
    BY DEF Lock!unlock, Lock!ReleaseRead, Lock!ReleaseWrite
  <2> QED
    BY <2>1 DEF Lock!WakeUp, Lock!wakeOne, Lock!wakeAll, Lock!At
<1>4. ASSUME NEW u \in Threads
      PROVE  /\ pc[u] = "run" <=> pc'[u] = "run"
             /\ pc'[u] \in WriterWaits => pc[u] \in WriterWaits
             /\ pc'[u] \in ReaderWaits => pc[u] \in ReaderWaits
  BY <1>1, <1>3 DEF WriterWaits, ReaderWaits
<1>5. readLocks'[t] = IF t \in writers THEN readLocks[t] ELSE readLocks[t] - 1
  BY <1>1, <1>2
<1>6. ASSUME NEW u \in Threads \ {t}
      PROVE  readLocks'[u] = readLocks[u] /\ (u \in writers' <=> u \in writers)
  BY <1>1, <1>2
<1>7. NobodyElseMoves(t)
  BY <1>4, <1>6 DEF NobodyElseMoves
<1>8. pc'[t] = "run"
  BY <1>2, <1>4
<1> QED
  BY <1>2, <1>5, <1>7, <1>8

LEMMA ReadWriteStep ==
  ASSUME Inv, mode = ReadWrite, NEW t \in Threads, Lock!LockStep(t), NobodyElseMoves(t),
         UNCHANGED <<mode, mutexOwner, statements, iters, openIterators, destroyed>>,
         call' \in [Threads -> Calls], \A u \in Threads \ {t} : call'[u] = call[u],
         CallOK(t)', ReadLocksOwned(t)', WaitsInLock(t)', t \in writers' <=> Writing(t)'
  PROVE  Inv'
<1>1. MutexTypeOK /\ Proved!LockInv /\ (\A u \in Threads : ThreadOK(u)) /\ ModelKnown
  BY InvParts
<1>2. Proved!LockInv'
  BY <1>1, LockSteps
<1>3. MutexTypeOK'
  BY <1>1 DEF MutexTypeOK
<1>4. mode' # Plain /\ mode' = ReadWrite
  BY DEF Plain, ReadWrite
<1>5. ASSUME NEW u \in Threads PROVE ThreadOK(u)'
  <2>1. OpenBy(u)' = OpenBy(u) /\ ThreadOK(u)
    BY <1>1 DEF OpenBy
  <2>2. CASE u = t
    BY <1>4, <2>2 DEF ThreadOK
  <2>3. CASE u # t
    BY <1>4, <2>1, <2>3, Bystander DEF NobodyElseMoves
  <2> QED
    BY <2>2, <2>3
<1>6. ModelKnown'
  BY <1>1 DEF ModelKnown, IsOpen
<1> QED
  BY <1>2, <1>3, <1>4, <1>5, <1>6 DEF Inv, ThreadOK, ReadWriteInv, PlainInv

(***************************************************************************)
(* Private::lockForRead, lockForWrite and unlock of a thread that may wait *)
(* inside the lock: each call is one that the lock's contract allows.      *)
(***************************************************************************)
LEMMA SharedLockInv ==
  ASSUME Inv, mode = ReadWrite, NEW t \in Threads, lockForRead(t)
  PROVE  Inv' /\ Lock!LockStep(t)
<1> DEFINE p == IF pc'[t] = "run" THEN "work" ELSE "lock"
<1>1. MutexTypeOK /\ ThreadOK(t) /\ Proved!LockInv
  BY InvParts
<1>2. /\ call[t].phase = "lock" /\ call[t].op \in IterOps \cup AskOps
      /\ Lock!lockForRead(t) \/ Lock!resumeLockForRead(t)
      /\ GoTo(t, p)
      /\ UNCHANGED <<mode, mutexOwner, statements, iters, openIterators, destroyed>>
  BY DEF lockForRead, lockMutex, AfterLockStep, AtPhase, Plain, ReadWrite
<1>3. call[t].op \notin WriteOps /\ call[t].op \in Ops /\ ~destroyed /\ ~Writing(t) /\ ~Reading(t)
  BY <1>1, <1>2 DEF WriteOps, IterOps, AskOps, Ops, ThreadOK, CallOK, AtPhase, Writing, Reading
<1>4. readLocks[t] = Cardinality(OpenBy(t)) /\ t \notin writers /\ readLocks[t] < Cardinality(Iterators) + 1
  <2>1. ReadLocksOwned(t) /\ (t \in writers <=> Writing(t))
    BY <1>1 DEF ThreadOK
  <2>2. readLocks[t] = Cardinality(OpenBy(t)) /\ t \notin writers
    BY <1>3, <2>1, OpenByFinite DEF ReadLocksOwned
  <2> QED
    BY <2>2, OpenByFinite, LockConstants
<1>5. Lock!LockStep(t)
  BY <1>2, <1>4 DEF Lock!LockStep, Lock!CallLockForRead
<1>6. /\ NobodyElseMoves(t) /\ writers' = writers
      /\ \/ pc'[t] = "run" /\ readLocks'[t] = readLocks[t] + 1
         \/ pc'[t] = "readerWait" /\ readLocks'[t] = readLocks[t]
  BY <1>1, <1>2, ReadGranted
<1>7. /\ call' \in [Threads -> Calls] /\ \A u \in Threads \ {t} : call'[u] = call[u]
      /\ call'[t].phase = p /\ call'[t].op = call[t].op
  BY <1>1, <1>2, GoTyped DEF Phases
<1>8. OpenBy(t)' = OpenBy(t)
  BY <1>2 DEF OpenBy
<1>9. CallOK(t)'
  BY <1>2, <1>3, <1>7 DEF CallOK, AtPhase
<1>10. ReadLocksOwned(t)'
  <2>1. CASE pc'[t] = "run"
    BY <1>3, <1>4, <1>6, <1>7, <1>8, <2>1, OpenByFinite DEF ReadLocksOwned, Reading
  <2>2. CASE pc'[t] = "readerWait"
    BY <1>3, <1>4, <1>6, <1>7, <1>8, <2>2, OpenByFinite DEF ReadLocksOwned, Reading
  <2> QED
    BY <1>6, <2>1, <2>2
<1>11. WaitsInLock(t)' /\ (t \in writers' <=> Writing(t)')
  BY <1>3, <1>4, <1>6, <1>7 DEF WaitsInLock, AtPhase, Writing
<1> QED
  BY <1>2, <1>5, <1>6, <1>7, <1>9, <1>10, <1>11, ReadWriteStep

LEMMA ExclusiveLockInv ==
  ASSUME Inv, mode = ReadWrite, NEW t \in Threads, lockForWrite(t)
  PROVE  Inv' /\ Lock!LockStep(t)
<1> DEFINE p == IF pc'[t] = "run" THEN "work" ELSE "lock"
<1>1. MutexTypeOK /\ ThreadOK(t) /\ Proved!LockInv
  BY InvParts
<1>2. /\ call[t].phase = "lock" /\ call[t].op \in WriteOps
      /\ Lock!lockForWrite(t) \/ Lock!resumeLockForWrite(t)
      /\ GoTo(t, p)
      /\ UNCHANGED <<mode, mutexOwner, statements, iters, openIterators, destroyed>>
  BY DEF lockForWrite, lockMutex, AfterLockStep, AtPhase, Plain, ReadWrite
<1>3. call[t].op \in Ops /\ OpenBy(t) = {} /\ ~destroyed /\ ~Writing(t) /\ ~Reading(t)
  BY <1>1, <1>2 DEF Ops, ThreadOK, CallOK, AtPhase, Writing, Reading
<1>4. readLocks[t] = 0 /\ t \notin writers /\ Cardinality(OpenBy(t)) = 0
  <2>1. ReadLocksOwned(t) /\ (t \in writers <=> Writing(t))
    BY <1>1 DEF ThreadOK
  <2>2. Cardinality(OpenBy(t)) = 0
    BY <1>3, FS_EmptySet
  <2> QED
    BY <1>3, <2>1, <2>2 DEF ReadLocksOwned
<1>5. Lock!LockStep(t)
  BY <1>2, <1>4 DEF Lock!LockStep, Lock!CallLockForWrite, Lock!HoldsNothing
<1>6. /\ NobodyElseMoves(t) /\ readLocks' = readLocks
      /\ \/ pc'[t] = "run" /\ t \in writers'
         \/ pc'[t] = "writerWait" /\ writers' = writers
  BY <1>1, <1>2, WriteGranted
<1>7. /\ call' \in [Threads -> Calls] /\ \A u \in Threads \ {t} : call'[u] = call[u]
      /\ call'[t].phase = p /\ call'[t].op = call[t].op
  BY <1>1, <1>2, GoTyped DEF Phases
<1>8. OpenBy(t)' = OpenBy(t)
  BY <1>2 DEF OpenBy
<1>9. CallOK(t)'
  BY <1>2, <1>3, <1>7, <1>8 DEF CallOK, AtPhase
<1>10. ReadLocksOwned(t)'
  BY <1>2, <1>4, <1>6, <1>7, <1>8 DEF ReadLocksOwned, Reading
<1>11. WaitsInLock(t)' /\ (t \in writers' <=> Writing(t)')
  BY <1>2, <1>4, <1>6, <1>7 DEF WaitsInLock, AtPhase, Writing
<1> QED
  BY <1>2, <1>5, <1>6, <1>7, <1>9, <1>10, <1>11, ReadWriteStep

LEMMA UnlockLockInv ==
  ASSUME Inv, mode = ReadWrite, NEW t \in Threads, unlock(t)
  PROVE  Inv' /\ Lock!LockStep(t)
<1>1. MutexTypeOK /\ ThreadOK(t) /\ Proved!LockInv
  BY InvParts
<1>2. /\ call[t].phase = "unlock" /\ Lock!unlock(t) /\ call' = [call EXCEPT ![t] = Idle]
      /\ UNCHANGED <<mode, mutexOwner, statements, iters, openIterators, destroyed>>
  BY DEF unlock, AtPhase, Plain, ReadWrite
<1>3. ~destroyed /\ (Writing(t) <=> ~Reading(t)) /\ ReadLocksOwned(t) /\ (t \in writers <=> Writing(t))
  BY <1>1, <1>2 DEF ThreadOK, CallOK, AtPhase, Writing, Reading
<1>4. readLocks \in [Threads -> Nat] /\ Cardinality(OpenBy(t)) \in Nat
  BY <1>1, LockTyped, OpenByFinite
<1>5. /\ t \in writers => readLocks[t] = Cardinality(OpenBy(t))
      /\ t \notin writers => readLocks[t] = Cardinality(OpenBy(t)) + 1
  BY <1>3, <1>4 DEF ReadLocksOwned
<1>6. ~Lock!HoldsNothing(t)
  BY <1>4, <1>5 DEF Lock!HoldsNothing
<1>7. Lock!LockStep(t)
  BY <1>2, <1>6 DEF Lock!LockStep, Lock!CallUnlock
<1>8. /\ NobodyElseMoves(t) /\ t \notin writers' /\ pc'[t] = "run"
      /\ readLocks'[t] = IF t \in writers THEN readLocks[t] ELSE readLocks[t] - 1
  BY <1>1, <1>2, <1>6, Released
<1>9. /\ call' \in [Threads -> Calls] /\ \A u \in Threads \ {t} : call'[u] = call[u]
      /\ call'[t].phase = "idle" /\ call'[t].op = "none"
  <2>1. Idle \in Calls /\ Idle.phase = "idle" /\ Idle.op = "none"
    BY DEF Idle, Calls, Phases
  <2> QED
    BY <1>1, <1>2, <2>1 DEF MutexTypeOK
<1>10. OpenBy(t)' = OpenBy(t)
  BY <1>2 DEF OpenBy
<1>11. CallOK(t)'
  BY <1>9 DEF CallOK, AtPhase
<1>12. ReadLocksOwned(t)'
  BY <1>4, <1>5, <1>8, <1>9, <1>10 DEF ReadLocksOwned, Reading
<1>13. WaitsInLock(t)' /\ (t \in writers' <=> Writing(t)')
  BY <1>8, <1>9 DEF WaitsInLock, AtPhase, Writing
<1> QED
  BY <1>2, <1>7, <1>8, <1>9, <1>11, <1>12, <1>13, ReadWriteStep
-----------------------------------------------------------------------------
(***************************************************************************)
(* Every step keeps the invariant, and is a step of the lock or none.      *)
(***************************************************************************)
LockMoves == (\E t \in Threads : Lock!LockStep(t)) \/ UNCHANGED lockVars

LEMMA InitInv == Init => Inv
<1> SUFFICES ASSUME Init PROVE Inv
  OBVIOUS
<1>1. /\ mode \in Modes /\ mutexOwner = NoThread /\ Lock!LockInit /\ statements = {}
      /\ call = [t \in Threads |-> Idle] /\ iters = [i \in Iterators |-> Unopened]
      /\ openIterators = {} /\ destroyed = FALSE
  BY DEF Init
<1>2. Idle \in Calls /\ Idle.phase = "idle" /\ Idle.op = "none"
  BY DEF Idle, Calls, Phases
<1>3. Unopened \in Handles /\ Unopened.owner = NoThread
  BY DEF Unopened, Handles
<1>4. MutexTypeOK
  BY <1>1, <1>2, <1>3 DEF MutexTypeOK
<1>5. Proved!LockInv
  BY <1>1, SameInit, LockConstants, Proved!LockInitInv
<1>6. \A i \in Iterators : ~IsOpen(i)
  BY <1>1, <1>3 DEF IsOpen
<1>7. \A t \in Threads : call[t].phase = "idle" /\ call[t].op = "none" /\ OpenBy(t) = {}
  BY <1>1, <1>2, <1>3, NamesAssumption DEF OpenBy
<1>8. \A t \in Threads : CallOK(t)
  BY <1>7 DEF CallOK, AtPhase
<1>9. ReadWriteInv
  <2>1. \A t \in Threads : readLocks[t] = 0 /\ pc[t] = "run" /\ t \notin writers
    BY <1>1 DEF Lock!LockInit
  <2>2. Cardinality({}) = 0
    BY FS_EmptySet
  <2> QED
    BY <1>7, <2>1, <2>2 DEF ReadWriteInv, ReadLocksOwned, WaitsInLock, Reading, Writing
<1>10. PlainInv
  BY <1>1, <1>6, <1>7 DEF PlainInv, PlainCall, OwnsMutex, Listed
<1> QED
  BY <1>4, <1>5, <1>6, <1>8, <1>9, <1>10 DEF Inv, ModelKnown

LEMMA StutterInv ==
  ASSUME Inv, UNCHANGED vars
  PROVE  Inv'
<1>1. /\ UNCHANGED <<mode, mutexOwner, lockVars, call, statements, iters, openIterators, destroyed>>
  BY DEF vars
<1>2. /\ MutexTypeOK /\ Proved!LockInv /\ ModelKnown /\ (\A u \in Threads : ThreadOK(u))
      /\ mode = Plain => Lock!LockInit /\ \A i \in Iterators : Listed(i)
  BY InvParts
<1>3. Proved!LockInv'
  BY <1>1, <1>2, LockSteps
<1>4. MutexTypeOK' /\ ModelKnown' /\ (mode = Plain => \A i \in Iterators : Listed(i)')
  BY <1>1, <1>2 DEF MutexTypeOK, ModelKnown, IsOpen, Listed, AtPhase
<1>5. mode = Plain => Lock!LockInit'
  BY <1>1, <1>2 DEF Lock!LockInit, lockVars
<1>6. ASSUME NEW u \in Threads PROVE ThreadOK(u)'
  <2>1. OpenBy(u)' = OpenBy(u) /\ ThreadOK(u)
    BY <1>1, <1>2 DEF OpenBy
  <2>2. readLocks' = readLocks /\ writers' = writers /\ pc' = pc
    BY <1>1 DEF lockVars
  <2> QED
    BY <1>1, <2>1, <2>2, Bystander
<1> QED
  BY <1>1, <1>3, <1>4, <1>5, <1>6 DEF Inv, ThreadOK, ReadWriteInv, PlainInv

LEMMA LockingInv ==
  ASSUME Inv, NEW t \in Threads, lockForRead(t) \/ lockForWrite(t) \/ unlock(t)
  PROVE  Inv' /\ LockMoves
<1>1. mode \in {Plain, ReadWrite}
  BY ModesAssumption DEF Inv, MutexTypeOK
<1>2. CASE mode = ReadWrite
  BY <1>2, SharedLockInv, ExclusiveLockInv, UnlockLockInv DEF LockMoves
<1>3. CASE mode = Plain
  <2>1. Plain # ReadWrite
    BY DEF Plain, ReadWrite
  <2>2. CASE unlock(t)
    BY <1>3, <2>1, <2>2, UnlockMutexInv DEF LockMoves, unlock
  <2>3. CASE lockForRead(t) \/ lockForWrite(t)
    <3>1. /\ AtPhase(t, "lock") /\ lockMutex(t)
          /\ UNCHANGED <<mode, statements, iters, openIterators, destroyed>>
      BY <1>3, <2>1, <2>3 DEF lockForRead, lockForWrite
    <3> QED
      BY <3>1, LockMutexInv DEF LockMoves, lockMutex
  <2> QED
    BY <2>2, <2>3
<1> QED
  BY <1>1, <1>2, <1>3

LEMMA NextInv ==
  ASSUME Inv, [Next]_vars
  PROVE  Inv' /\ LockMoves
<1>1. CASE UNCHANGED vars
  BY <1>1, StutterInv DEF LockMoves, vars
<1>2. CASE destroy
  BY <1>2, DestroyInv DEF LockMoves, destroy
<1>3. CASE Finished
  BY <1>1, <1>3 DEF Finished
<1>4. ASSUME NEW t \in Threads, NEW op \in WriteOps \cup {"listStatements", "containsStatement"}, Call(t, op)
      PROVE  Inv' /\ LockMoves
  <2>1. op \in Ops
    BY DEF Ops, IterOps, AskOps
  <2> QED
    BY <1>4, <2>1, CallInv DEF LockMoves, Call
<1>5. ASSUME NEW t \in Threads, lockForWrite(t) \/ lockForRead(t) \/ unlock(t)
      PROVE  Inv' /\ LockMoves
  BY <1>5, LockingInv
<1>6. ASSUME NEW t \in Threads, addStatement(t) \/ removeStatement(t) \/ removeAllStatements(t) \/ askParent(t)
      PROVE  Inv' /\ LockMoves
  BY <1>6, ParentInv
     DEF LockMoves, addStatement, removeStatement, removeAllStatements, askParent, ParentWrite
<1>7. ASSUME NEW t \in Threads, openIterator(t) \/ appendIterator(t) \/ removeIterator(t)
      PROVE  Inv' /\ LockMoves
  BY <1>7, OpenInv, AppendInv, RemoveInv DEF LockMoves, openIterator, appendIterator, removeIterator
<1>8. ASSUME NEW t \in Threads, NEW i \in Iterators, next(t, i) \/ close(t, i)
      PROVE  Inv' /\ LockMoves
  BY <1>8, IteratorNextInv, CloseInv DEF LockMoves, next, close
<1> QED
  BY <1>1, <1>2, <1>3, <1>4, <1>5, <1>6, <1>7, <1>8 DEF Next

LEMMA InvHolds == Spec => []Inv
<1>1. Inv /\ [Next]_vars => Inv'
  BY NextInv
<1> QED
  BY <1>1, InitInv, PTL DEF Spec
-----------------------------------------------------------------------------
(***************************************************************************)
(* MutexModel never breaks the contract of its lock: it gives back only    *)
(* what it holds, never asks for the write lock below its own iterators,   *)
(* and never nests deeper than there are iterators.  So the promises       *)
(* proved of the lock are kept to MutexModel.                              *)
(***************************************************************************)
THEOREM LockContractKept == Spec => LockContract
<1>1. Init => Lock!LockInit
  BY DEF Init
<1>2. Inv /\ [Next]_vars => [Lock!LockNext]_(Lock!lockVars)
  BY NextInv DEF LockMoves, Lock!LockNext, lockVars, Lock!lockVars
<1> QED
  BY <1>1, <1>2, InvHolds, PTL DEF Spec, LockContract, Lock!LockSpec

(***************************************************************************)
(* setModelGone reaches every iterator that is open when ~MutexModel runs  *)
(* in PlainMultiThreading mode, so none of them calls the deleted model.   *)
(***************************************************************************)
THEOREM NoModelDangles == Spec => []NoDanglingModel
<1>1. Inv => NoDanglingModel
  <2> SUFFICES ASSUME Inv PROVE NoDanglingModel
    OBVIOUS
  <2>1. MutexTypeOK /\ Proved!LockInv /\ (mode = Plain => \A i \in Iterators : Listed(i))
    BY InvParts
  <2>2. Lock!LockTypeOK
    BY <2>1 DEF Proved!LockInv, Proved!LockTypeOK, Lock!LockTypeOK, Proved!PCs, Lock!PCs
  <2>3. \A t \in Threads : call[t] \in Calls
    BY <2>1 DEF MutexTypeOK
  <2>4. TypeOK
    BY <2>1, <2>2, <2>3 DEF MutexTypeOK, TypeOK, Calls, Ops, Handles
  <2>5. mode = Plain /\ destroyed => \A i \in Iterators : IsOpen(i) => ~iters[i].model
    BY <2>1 DEF Listed
  <2> QED
    BY <2>4, <2>5 DEF NoDanglingModel
<1> QED
  BY <1>1, InvHolds, PTL
-----------------------------------------------------------------------------
(***************************************************************************)
(* MutexModel implements ThreadSafeModel.  The only step of the parent     *)
(* that could go wrong is a write, and nobody's iterator is open in it.    *)
(***************************************************************************)
Pending(i) == IF IsOpen(i) THEN statements \ iters[i].seen ELSE Closed
PendingOf == [i \in Iterators |-> Pending(i)]

LEMMA WriterAlone ==
  ASSUME Inv, NEW t \in Threads, AtPhase(t, "work"), call[t].op \in WriteOps
  PROVE  \A i \in Iterators : ~IsOpen(i)
<1>1. MutexTypeOK /\ Proved!LockInv /\ (\A u \in Threads : ThreadOK(u)) /\ mode \in {Plain, ReadWrite}
  BY InvParts, ModesAssumption DEF MutexTypeOK
<1>2. call[t].phase = "work" /\ ~destroyed /\ OpenBy(t) = {} /\ Writing(t)
  BY <1>1 DEF ThreadOK, CallOK, AtPhase, Writing
<1>3. ASSUME NEW u \in Threads, u # t PROVE OpenBy(u) = {}
  <2>1. CASE mode = Plain
    BY <1>2, <1>3, <2>1, Alone DEF OwnsMutex
  <2>2. CASE mode = ReadWrite
    <3>1. t \in writers /\ ReadLocksOwned(u)
      BY <1>1, <1>2, <2>2 DEF ThreadOK
    <3>2. readLocks[u] = 0
      BY <1>1, <1>3, <3>1, Excludes
    <3>3. Cardinality(OpenBy(u)) = 0
      BY <1>2, <3>1, <3>2, OpenByFinite DEF ReadLocksOwned
    <3> QED
      BY <3>3, OpenByFinite, FS_EmptySet
  <2> QED
    BY <1>1, <2>1, <2>2
<1>4. ASSUME NEW i \in Iterators PROVE iters[i].owner \in Threads \cup {NoThread}
  BY <1>1 DEF MutexTypeOK, Handles
<1> QED
  BY <1>2, <1>3, <1>4 DEF IsOpen, OpenBy

\* what one iterator's step does to the pending statements of all
LEMMA OnePending ==
  ASSUME NEW i \in Iterators, NEW handle, UNCHANGED statements, iters \in [Iterators -> Handles],
         iters' = [iters EXCEPT ![i] = handle]
  PROVE  PendingOf' = [PendingOf EXCEPT ![i] =
                         IF handle.owner # NoThread THEN statements \ handle.seen ELSE Closed]
<1>1. ASSUME NEW j \in Iterators
      PROVE  Pending(j)' = IF j = i THEN IF handle.owner # NoThread THEN statements \ handle.seen ELSE Closed
                                    ELSE Pending(j)
  BY DEF Pending, IsOpen
<1> QED
  BY <1>1 DEF PendingOf

LEMMA AbstractSpec == Abstract!Spec <=> Abstract!Init /\ [][Abstract!Next]_(Abstract!vars)
  BY DEF Abstract!Spec

LEMMA AbstractVars ==
  /\ Abstract!vars = <<statements, PendingOf>>
  /\ UNCHANGED Abstract!vars <=> UNCHANGED <<statements, PendingOf>>
  BY DEF Abstract!vars, PendingOf, Pending

LEMMA WriteStep ==
  ASSUME Inv, NEW t \in Threads, addStatement(t) \/ removeStatement(t) \/ removeAllStatements(t)
  PROVE  Abstract!Write
<1>1. /\ AtPhase(t, "work") /\ call[t].op \in WriteOps /\ UNCHANGED iters
      /\ statements' \in SUBSET Statements
  BY DEF Inv, MutexTypeOK, addStatement, removeStatement, removeAllStatements, ParentWrite, Work, WriteOps
<1>2. \A i \in Iterators : ~IsOpen(i)
  BY <1>1, WriterAlone
<1>3. (\A i \in Iterators : Pending(i) = Closed) /\ PendingOf' = PendingOf
  BY <1>1, <1>2 DEF PendingOf, Pending, IsOpen
<1> QED
  BY <1>1, <1>3 DEF Abstract!Write, PendingOf, Pending

LEMMA IteratorStep ==
  ASSUME Inv, NEW t \in Threads, NEW i \in Iterators,
         \/ /\ ~IsOpen(i) /\ UNCHANGED statements
            /\ iters' = [iters EXCEPT ![i] = [owner |-> t, seen |-> {}, model |-> TRUE]]
         \/ next(t, i)
         \/ close(t, i)
  PROVE  Abstract!Open(i) \/ Abstract!Deliver(i) \/ Abstract!Close(i)
<1>1. iters \in [Iterators -> Handles] /\ iters[i] \in Handles /\ statements \in SUBSET Statements
  BY DEF Inv, MutexTypeOK
<1>2. IsOpen(i) => Pending(i) # Closed
  BY <1>1, ClosedAssumption DEF Pending
<1>3. PendingOf[i] = Pending(i)
  BY DEF PendingOf
<1>4. CASE /\ ~IsOpen(i) /\ UNCHANGED statements
           /\ iters' = [iters EXCEPT ![i] = [owner |-> t, seen |-> {}, model |-> TRUE]]
  <2> DEFINE handle == [owner |-> t, seen |-> {}, model |-> TRUE]
  <2>1. handle.owner # NoThread /\ handle.seen = {} /\ iters' = [iters EXCEPT ![i] = handle]
    BY <1>4, NamesAssumption
  <2> HIDE DEF handle
  <2>2. PendingOf' = [PendingOf EXCEPT ![i] = statements]
    <3>1. PendingOf' = [PendingOf EXCEPT ![i] = statements \ handle.seen]
      BY <1>1, <1>4, <2>1, OnePending
    <3> QED
      BY <2>1, <3>1
  <2> QED
    BY <1>3, <1>4, <2>2 DEF Abstract!Open, PendingOf, Pending
<1>5. CASE next(t, i)
  <2>1. IsOpen(i) /\ UNCHANGED statements
    BY <1>5, NamesAssumption DEF next, IsOpen
  <2>2. PICK s \in statements \ iters[i].seen : iters' = [iters EXCEPT ![i].seen = @ \cup {s}]
    BY <1>5 DEF next
  <2> DEFINE handle == [iters[i] EXCEPT !.seen = @ \cup {s}]
  <2>3. handle.owner = iters[i].owner /\ handle.seen = iters[i].seen \cup {s}
    BY <1>1 DEF Handles
  <2>4. iters' = [iters EXCEPT ![i] = handle]
    BY <2>2
  <2> HIDE DEF handle
  <2>5. PendingOf' = [PendingOf EXCEPT ![i] = statements \ handle.seen]
    BY <1>1, <2>1, <2>3, <2>4, OnePending DEF IsOpen
  <2>6. s \in Pending(i) /\ statements \ handle.seen = Pending(i) \ {s}
    BY <2>1, <2>2, <2>3 DEF Pending
  <2>7. PendingOf' = [PendingOf EXCEPT ![i] = @ \ {s}]
    BY <1>3, <2>5, <2>6
  <2>8. Pending(i) # Closed
    BY <1>2, <2>1
  <2> QED
    BY <1>3, <2>1, <2>6, <2>7, <2>8 DEF Abstract!Deliver, PendingOf, Pending
<1>6. CASE close(t, i)
  <2>1. IsOpen(i) /\ UNCHANGED statements /\ iters' = [iters EXCEPT ![i] = Unopened]
    BY <1>6, NamesAssumption DEF close, IsOpen
  <2>2. PendingOf' = [PendingOf EXCEPT ![i] = Closed]
    <3>1. Unopened.owner = NoThread
      BY DEF Unopened
    <3> QED
      BY <1>1, <2>1, <3>1, OnePending
  <2> QED
    BY <1>2, <1>3, <2>1, <2>2 DEF Abstract!Close, PendingOf, Pending
<1> QED
  BY <1>4, <1>5, <1>6

LEMMA QuietStep ==
  ASSUME UNCHANGED statements,
         UNCHANGED iters \/ \A i \in Iterators : iters'[i].owner = iters[i].owner /\ iters'[i].seen = iters[i].seen
  PROVE  UNCHANGED <<statements, PendingOf>>
  BY DEF PendingOf, Pending, IsOpen

(***************************************************************************)
(* The model that MutexModel makes of its parent is thread-safe: the       *)
(* content never changes below an open iterator, whoever opened it.        *)
(***************************************************************************)
THEOREM ThreadSafe == Spec => IsThreadSafe
<1>1. Init => Abstract!Init
  BY DEF Init, Abstract!Init, IsOpen, Unopened
<1>2. Inv /\ [Next]_vars => [Abstract!Next]_(Abstract!vars)
  <2> SUFFICES ASSUME Inv, [Next]_vars PROVE Abstract!Next \/ UNCHANGED <<statements, PendingOf>>
    BY AbstractVars
  <2>1. CASE UNCHANGED vars \/ Finished
    BY <2>1, QuietStep DEF vars, Finished
  <2>2. CASE destroy
    <3>1. UNCHANGED statements /\ iters \in [Iterators -> Handles]
      BY <2>2 DEF destroy, Inv, MutexTypeOK
    <3>2. ASSUME NEW i \in Iterators PROVE iters'[i].owner = iters[i].owner /\ iters'[i].seen = iters[i].seen
      <4>1. iters'[i] = IF i \in openIterators THEN [iters[i] EXCEPT !.model = FALSE] ELSE iters[i]
        BY <2>2 DEF destroy
      <4> QED
        BY <3>1, <4>1 DEF Handles
    <3> QED
      BY <3>1, <3>2, QuietStep
  <2>3. ASSUME NEW t \in Threads, addStatement(t) \/ removeStatement(t) \/ removeAllStatements(t)
        PROVE  Abstract!Next
    BY <2>3, WriteStep DEF Abstract!Next
  <2>4. ASSUME NEW t \in Threads, openIterator(t)
        PROVE  Abstract!Next \/ UNCHANGED <<statements, PendingOf>>
    <3>1. UNCHANGED statements
      BY <2>4 DEF openIterator
    <3>2. CASE UNCHANGED iters
      BY <3>1, <3>2, QuietStep
    <3>3. CASE \E i \in Iterators :
                 ~IsOpen(i) /\ iters' = [iters EXCEPT ![i] = [owner |-> t, seen |-> {}, model |-> TRUE]]
      BY <3>1, <3>3, IteratorStep DEF Abstract!Next
    <3> QED
      BY <2>4, <3>2, <3>3 DEF openIterator
  <2>5. ASSUME NEW t \in Threads, NEW i \in Iterators, next(t, i) \/ close(t, i)
        PROVE  Abstract!Next
    BY <2>5, IteratorStep DEF Abstract!Next
  <2>6. ASSUME NEW t \in Threads, NEW op, Call(t, op) PROVE UNCHANGED <<statements, PendingOf>>
    BY <2>6, QuietStep DEF Call
  <2>7. ASSUME NEW t \in Threads, lockForRead(t) \/ lockForWrite(t) \/ unlock(t)
        PROVE  UNCHANGED <<statements, PendingOf>>
    BY <2>7, QuietStep DEF lockForRead, lockForWrite, unlock
  <2>8. ASSUME NEW t \in Threads, askParent(t) \/ appendIterator(t) \/ removeIterator(t)
        PROVE  UNCHANGED <<statements, PendingOf>>
    BY <2>8, QuietStep DEF askParent, appendIterator, removeIterator
  <2> QED
    BY <2>1, <2>2, <2>3, <2>4, <2>5, <2>6, <2>7, <2>8 DEF Next
<1> QED
  BY <1>1, <1>2, InvHolds, AbstractSpec, PTL DEF Spec, IsThreadSafe
=============================================================================
