-------------------------- MODULE ExtReadWriteLock --------------------------
(***************************************************************************)
(* soprano/util/extreadwritelock.cpp: the read-write lock below MutexModel.*)
(* Readers share it, a writer is alone, a waiting writer keeps new readers *)
(* out, and a thread that already reads may lock for reading again.        *)
(*                                                                         *)
(* Every method holds d->mutex from its first line to its last except      *)
(* while it sleeps on a QWaitCondition, so a method is one step up to the  *)
(* first wait, and one step from each wake-up to the next wait or the      *)
(* return.  Between a wake-up and the step of the woken thread (which must *)
(* get d->mutex back) other threads run: pc tells the sleeping threads     *)
(* ("writerWait", "readerWait") from the woken ones.                       *)
(***************************************************************************)
EXTENDS Integers, FiniteSets

CONSTANTS
  Threads,      \* the threads that share the lock
  MaxNested     \* bound: read locks one thread holds at the same time

ASSUME ThreadsAssumption == IsFiniteSet(Threads)
ASSUME MaxNestedAssumption == MaxNested \in Nat \ {0}

VARIABLES
  accessCount,    \* d->accessCount: read locks held, or -1 for a writer
  writerWaiting,  \* d->writerWaiting
  readerWaiting,  \* d->readerWaiting
  currentReaders, \* d->currentReaders, 0 for a thread that has no entry
  pc,             \* per thread: "run", or where in the lock it is blocked
  readLocks,      \* history: read locks granted to a thread, not yet released
  writers         \* history: threads granted the write lock, not yet released

lockVars == <<accessCount, writerWaiting, readerWaiting, currentReaders, pc,
              readLocks, writers>>

PCs == {"run", "writerWait", "writerWoken", "readerWait", "readerWoken"}

At(s) == {t \in Threads : pc[t] = s}

\* Threads inside lockForWrite's and lockForRead's loop, sleeping or woken.
PendingWriters == At("writerWait") \cup At("writerWoken")
PendingReaders == At("readerWait") \cup At("readerWoken")

HoldsNothing(t) == readLocks[t] = 0 /\ t \notin writers

LockInit ==
  /\ accessCount = 0
  /\ writerWaiting = 0
  /\ readerWaiting = 0
  /\ currentReaders = [t \in Threads |-> 0]
  /\ pc = [t \in Threads |-> "run"]
  /\ readLocks = [t \in Threads |-> 0]
  /\ writers = {}
-----------------------------------------------------------------------------
(***************************************************************************)
(* lockForWrite: the wait loop, and the acquisition that follows it.       *)
(***************************************************************************)
AcquireWrite(t) ==
  /\ accessCount' = accessCount - 1
  /\ writers' = writers \cup {t}
  /\ pc' = [pc EXCEPT ![t] = "run"]
  /\ UNCHANGED <<readerWaiting, currentReaders, readLocks>>

lockForWrite(t) ==
  /\ pc[t] = "run"
  /\ \/ /\ accessCount # 0
        /\ writerWaiting' = writerWaiting + 1
        /\ pc' = [pc EXCEPT ![t] = "writerWait"]
        /\ UNCHANGED <<accessCount, readerWaiting, currentReaders, readLocks, writers>>
     \/ /\ accessCount = 0
        /\ AcquireWrite(t)
        /\ UNCHANGED writerWaiting

resumeLockForWrite(t) ==
  /\ pc[t] = "writerWoken"
  /\ \/ /\ accessCount # 0     \* another thread was faster: --writerWaiting, ++writerWaiting
        /\ pc' = [pc EXCEPT ![t] = "writerWait"]
        /\ UNCHANGED <<accessCount, writerWaiting, readerWaiting, currentReaders,
                       readLocks, writers>>
     \/ /\ accessCount = 0
        /\ AcquireWrite(t)
        /\ writerWaiting' = writerWaiting - 1
-----------------------------------------------------------------------------
(***************************************************************************)
(* lockForRead: a thread with an entry in currentReaders goes straight in; *)
(* any other waits for the writer that is in and for those that wait.      *)
(***************************************************************************)
KeepReadersOut_WaitingOnly == writerWaiting # 0

KeepReadersOut_WriterOnly == accessCount < 0

KeepReadersOut == accessCount < 0 \/ writerWaiting # 0

AcquireRead(t, entry) ==
  /\ currentReaders' = [currentReaders EXCEPT ![t] = entry]
  /\ accessCount' = accessCount + 1
  /\ readLocks' = [readLocks EXCEPT ![t] = @ + 1]
  /\ pc' = [pc EXCEPT ![t] = "run"]
  /\ UNCHANGED <<writerWaiting, writers>>

lockForRead(t) ==
  /\ pc[t] = "run"
  /\ \/ /\ currentReaders[t] # 0
        /\ AcquireRead(t, currentReaders[t] + 1)
        /\ UNCHANGED readerWaiting
     \/ /\ currentReaders[t] = 0
        /\ KeepReadersOut
        /\ readerWaiting' = readerWaiting + 1
        /\ pc' = [pc EXCEPT ![t] = "readerWait"]
        /\ UNCHANGED <<accessCount, writerWaiting, currentReaders, readLocks, writers>>
     \/ /\ currentReaders[t] = 0
        /\ ~KeepReadersOut
        /\ AcquireRead(t, 1)
        /\ UNCHANGED readerWaiting

resumeLockForRead(t) ==
  /\ pc[t] = "readerWoken"
  /\ \/ /\ KeepReadersOut      \* --readerWaiting, ++readerWaiting
        /\ pc' = [pc EXCEPT ![t] = "readerWait"]
        /\ UNCHANGED <<accessCount, writerWaiting, readerWaiting, currentReaders,
                       readLocks, writers>>
     \/ /\ ~KeepReadersOut
        /\ AcquireRead(t, 1)
        /\ readerWaiting' = readerWaiting - 1
-----------------------------------------------------------------------------
(***************************************************************************)
(* unlock: what the caller releases follows from the sign of accessCount,  *)
(* not from what it holds.  The last one out wakes one writer if any is    *)
(* counted as waiting, otherwise every reader.                             *)
(***************************************************************************)
wakeOne ==
  IF At("writerWait") = {}
  THEN UNCHANGED pc
  ELSE \E w \in At("writerWait") : pc' = [pc EXCEPT ![w] = "writerWoken"]

wakeAll_One ==
  IF At("readerWait") = {}
  THEN UNCHANGED pc
  ELSE \E r \in At("readerWait") : pc' = [pc EXCEPT ![r] = "readerWoken"]

wakeAll ==
  pc' = [t \in Threads |-> IF pc[t] = "readerWait" THEN "readerWoken" ELSE pc[t]]

WakeUp_ReadersFirst(unlocked) ==
  \/ unlocked /\ readerWaiting # 0 /\ wakeAll
  \/ unlocked /\ readerWaiting = 0 /\ writerWaiting # 0 /\ wakeOne
  \/ ~unlocked /\ UNCHANGED pc
  \/ unlocked /\ writerWaiting = 0 /\ readerWaiting = 0 /\ UNCHANGED pc

WakeUp(unlocked) ==
  \/ unlocked /\ writerWaiting # 0 /\ wakeOne
  \/ unlocked /\ writerWaiting = 0 /\ readerWaiting # 0 /\ wakeAll
  \/ ~unlocked /\ UNCHANGED pc
  \/ unlocked /\ writerWaiting = 0 /\ readerWaiting = 0 /\ UNCHANGED pc

ReleaseRead_DropEntry(t) ==
  /\ accessCount > 0
  /\ currentReaders' = [currentReaders EXCEPT ![t] = 0]
  /\ accessCount' = accessCount - 1
  /\ WakeUp(accessCount - 1 = 0)

ReleaseRead(t) ==
  /\ accessCount > 0
  /\ currentReaders' = [currentReaders EXCEPT ![t] = IF @ > 0 THEN @ - 1 ELSE 0]
  /\ accessCount' = accessCount - 1
  /\ WakeUp(accessCount - 1 = 0)

ReleaseWrite ==
  /\ accessCount < 0
  /\ accessCount' = accessCount + 1
  /\ WakeUp(accessCount + 1 = 0)
  /\ UNCHANGED currentReaders

unlock(t) ==
  /\ pc[t] = "run"
  /\ \/ ReleaseRead(t)
     \/ ReleaseWrite
     \/ accessCount = 0 /\ UNCHANGED <<accessCount, currentReaders, pc>>
  /\ writers' = writers \ {t}
  /\ readLocks' = IF HoldsNothing(t) \/ t \in writers
                  THEN readLocks
                  ELSE [readLocks EXCEPT ![t] = @ - 1]
  /\ UNCHANGED <<writerWaiting, readerWaiting>>
-----------------------------------------------------------------------------
(***************************************************************************)
(* The callers' side of the contract: a thread asks for the write lock     *)
(* only when it holds nothing (the lock has no write recursion), asks for  *)
(* a read lock only when it does not write, and gives back its own locks.  *)
(***************************************************************************)
CallLockForWrite(t) == HoldsNothing(t) /\ lockForWrite(t)

CallLockForRead(t) ==
  /\ t \notin writers
  /\ readLocks[t] < MaxNested
  /\ lockForRead(t)

CallUnlock(t) == ~HoldsNothing(t) /\ unlock(t)

LockStep(t) ==
  \/ CallLockForWrite(t)
  \/ resumeLockForWrite(t)
  \/ CallLockForRead(t)
  \/ resumeLockForRead(t)
  \/ CallUnlock(t)

LockNext == \E t \in Threads : LockStep(t)

LockSpec == LockInit /\ [][LockNext]_lockVars

(***************************************************************************)
(* A woken thread gets d->mutex back eventually: no method keeps it.       *)
(***************************************************************************)
LockFairness ==
  \A t \in Threads : WF_lockVars(resumeLockForWrite(t)) /\ WF_lockVars(resumeLockForRead(t))

LockFairSpec == LockSpec /\ LockFairness
-----------------------------------------------------------------------------
LockTypeOK ==
  /\ accessCount \in Int
  /\ writerWaiting \in Nat
  /\ readerWaiting \in Nat
  /\ currentReaders \in [Threads -> Nat]
  /\ pc \in [Threads -> PCs]
  /\ readLocks \in [Threads -> 0..MaxNested]
  /\ writers \in SUBSET Threads

(***************************************************************************)
(* The counters tell the truth, through every nesting of read locks and    *)
(* every wake-up that is not acted on yet: accessCount counts the locks    *)
(* held, currentReaders says who holds them, and writerWaiting and         *)
(* readerWaiting count the threads inside the two loops, which hold        *)
(* nothing.  This is what makes the invariants below inductive.            *)
(***************************************************************************)
HeldReads == {r \in Threads \X (1..MaxNested) : r[2] <= readLocks[r[1]]}

CountersExact ==
  /\ currentReaders = readLocks
  /\ \/ writers = {} /\ accessCount = Cardinality(HeldReads)
     \/ HeldReads = {} /\ accessCount = -1 /\ \E w \in Threads : writers = {w}
  /\ writerWaiting = Cardinality(PendingWriters)
  /\ readerWaiting = Cardinality(PendingReaders)
  /\ \A t \in PendingWriters \cup PendingReaders : HoldsNothing(t)

(***************************************************************************)
(* What the lock promises its users: whoever holds it for writing is the   *)
(* only holder.  lockForWrite may only return when every read lock, the    *)
(* nested ones included, was given back.                                   *)
(***************************************************************************)
MutualExclusion ==
  \A w \in writers : \A t \in Threads : t # w => HoldsNothing(t)

(***************************************************************************)
(* No wake-up is lost: unlock never leaves a free lock with every          *)
(* interested thread asleep, although it wakes one kind of waiter only and *)
(* the counters still include threads that were woken and did not run yet. *)
(***************************************************************************)
NoLostWakeup ==
  /\ accessCount = 0 /\ At("writerWait") # {} => At("writerWoken") # {}
  /\ At("readerWait") # {} => KeepReadersOut

(***************************************************************************)
(* mutexmodel.h: "In general write operations take precedence over read    *)
(* operations": no thread gets its first read lock while a writer is in or *)
(* waits in lockForWrite, asleep or woken and not yet running.             *)
(***************************************************************************)
WritersFirst ==
  [][\A t \in Threads : readLocks[t] = 0 /\ readLocks'[t] > 0
        => PendingWriters = {} /\ writers = {}]_lockVars

(***************************************************************************)
(* If every thread releases all it holds again and again, a thread asleep  *)
(* in lockForWrite is followed by some thread that writes; once the        *)
(* writers stay away, no reader sleeps for ever.                           *)
(***************************************************************************)
AllRelease == \A t \in Threads : []<>HoldsNothing(t)

Progress ==
  /\ AllRelease => (PendingWriters # {} ~> writers # {})
  /\ \A t \in Threads :
       <>[](writers = {} /\ PendingWriters = {}) => (t \in PendingReaders ~> readLocks[t] > 0)
=============================================================================
