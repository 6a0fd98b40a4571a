----------------------------- MODULE MutexModel -----------------------------
(***************************************************************************)
(* soprano/util/mutexmodel.cpp and the Mutex*IteratorBackend classes: a    *)
(* FilterModel that protects its parent model with one QMutex or with an   *)
(* ExtReadWriteLock.  A read operation that returns an iterator keeps its  *)
(* lock until the iterator is closed.                                      *)
(*                                                                         *)
(* A call runs through the phases lock, work and unlock.  The parent model *)
(* is external and is not thread-safe itself: it is a set of statements, a *)
(* write may fail, and its iterators walk the live set.  openIterators is  *)
(* a QList that the code changes while it holds a READ lock only, so its   *)
(* append and removeAll are a load and a store, which may interleave.      *)
(***************************************************************************)
EXTENDS Integers, FiniteSets

CONSTANTS
  Threads, Statements, Iterators,
  NoThread,     \* nobody owns the mutex, or the iterator
  NoIterator,   \* the call has no iterator
  Closed,       \* the iterator is not open (for the abstract specification)
  Modes         \* the protection modes to consider

Plain == "PlainMultiThreading"
ReadWrite == "ReadWriteMultiThreading"

ASSUME ModesAssumption == Modes \subseteq {Plain, ReadWrite}
ASSUME FiniteAssumption == IsFiniteSet(Threads) /\ IsFiniteSet(Iterators)
ASSUME ClosedAssumption == \A S \in SUBSET Statements : S # Closed
ASSUME NamesAssumption == NoThread \notin Threads /\ NoIterator \notin Iterators

VARIABLES
  mode,           \* d->m_protectionMode, fixed by the constructor
  mutexOwner,     \* d->m_mutex
  accessCount, writerWaiting, readerWaiting, currentReaders, pc, readLocks, writers,
                  \* d->m_msLock, an ExtReadWriteLock
  call,           \* per thread: the call it is in
  statements,     \* content of the parent model
  iters,          \* the Mutex*IteratorBackend objects
  openIterators,  \* d->openIterators
  destroyed       \* ~MutexModel has run

Lock == INSTANCE ExtReadWriteLock WITH MaxNested <- Cardinality(Iterators) + 1

lockVars == <<accessCount, writerWaiting, readerWaiting, currentReaders, pc,
              readLocks, writers>>
vars == <<mode, mutexOwner, lockVars, call, statements, iters, openIterators, destroyed>>

WriteOps == {"addStatement", "removeStatement", "removeAllStatements"}
IterOps == {"listStatements", "listContexts", "executeQuery"}
AskOps == {"containsStatement", "containsAnyStatement", "isEmpty", "statementCount"}
Phases == {"idle", "lock", "work", "append", "remove", "removing", "unlock"}

Idle == [op |-> "none", phase |-> "idle", it |-> NoIterator, copy |-> {}]
Unopened == [owner |-> NoThread, seen |-> {}, model |-> FALSE]

IsOpen(i) == iters[i].owner # NoThread
OpenBy(t) == {i \in Iterators : iters[i].owner = t}
AtPhase(t, p) == call[t].phase = p

Init ==
  /\ mode \in Modes
  /\ mutexOwner = NoThread
  /\ Lock!LockInit
  /\ call = [t \in Threads |-> Idle]
  /\ statements = {}
  /\ iters = [i \in Iterators |-> Unopened]
  /\ openIterators = {}
  /\ destroyed = FALSE

GoTo(t, p) == call' = [call EXCEPT ![t].phase = p]
-----------------------------------------------------------------------------
(***************************************************************************)
(* The callers.  A thread closes its iterators before it writes, and in    *)
(* PlainMultiThreading mode before it calls anything: the lock is not      *)
(* recursive (mutexmodel.h: "nesting iterators will result in a deadlock").*)
(***************************************************************************)
MayCall(t, op) ==
  /\ ~destroyed
  /\ AtPhase(t, "idle")
  /\ op \in WriteOps \/ mode = Plain => OpenBy(t) = {}

Call(t, op) ==
  /\ MayCall(t, op)
  /\ call' = [call EXCEPT ![t].op = op, ![t].phase = "lock"]
  /\ UNCHANGED <<mode, mutexOwner, lockVars, statements, iters, openIterators, destroyed>>
-----------------------------------------------------------------------------
(***************************************************************************)
(* Private::lockForWrite, lockForRead, unlock: a switch on the mode.       *)
(***************************************************************************)
lockMutex(t) ==
  /\ mode = Plain
  /\ mutexOwner = NoThread
  /\ mutexOwner' = t
  /\ GoTo(t, "work")
  /\ UNCHANGED lockVars

\* The call stays in its lock phase while the thread waits inside the lock.
AfterLockStep(t) ==
  /\ GoTo(t, IF pc'[t] = "run" THEN "work" ELSE "lock")
  /\ UNCHANGED mutexOwner

lockForWrite_AsReader(t) ==
  /\ AtPhase(t, "lock") /\ call[t].op \in WriteOps
  /\ \/ lockMutex(t)
     \/ /\ mode = ReadWrite
        /\ Lock!lockForRead(t) \/ Lock!resumeLockForRead(t)
        /\ AfterLockStep(t)
  /\ UNCHANGED <<mode, statements, iters, openIterators, destroyed>>

lockForWrite(t) ==
  /\ AtPhase(t, "lock") /\ call[t].op \in WriteOps
  /\ \/ lockMutex(t)
     \/ /\ mode = ReadWrite
        /\ Lock!lockForWrite(t) \/ Lock!resumeLockForWrite(t)
        /\ AfterLockStep(t)
  /\ UNCHANGED <<mode, statements, iters, openIterators, destroyed>>

lockForRead(t) ==
  /\ AtPhase(t, "lock") /\ call[t].op \in IterOps \cup AskOps
  /\ \/ lockMutex(t)
     \/ /\ mode = ReadWrite
        /\ Lock!lockForRead(t) \/ Lock!resumeLockForRead(t)
        /\ AfterLockStep(t)
  /\ UNCHANGED <<mode, statements, iters, openIterators, destroyed>>

unlock(t) ==
  /\ AtPhase(t, "unlock")
  /\ \/ mode = Plain /\ mutexOwner' = NoThread /\ UNCHANGED lockVars
     \/ mode = ReadWrite /\ Lock!unlock(t) /\ UNCHANGED mutexOwner
  /\ call' = [call EXCEPT ![t] = Idle]
  /\ UNCHANGED <<mode, statements, iters, openIterators, destroyed>>
-----------------------------------------------------------------------------
(***************************************************************************)
(* The operations on the parent, between lock and unlock.                  *)
(***************************************************************************)
Work(t, op) == AtPhase(t, "work") /\ call[t].op = op

ParentWrite(t, contents) ==
  /\ statements' \in contents
  /\ GoTo(t, "unlock")
  /\ UNCHANGED <<mode, mutexOwner, lockVars, iters, openIterators, destroyed>>

\* The parent applies the change or fails and leaves its content as it was.
addStatement(t) ==
  /\ Work(t, "addStatement")
  /\ ParentWrite(t, {statements} \cup {statements \cup {s} : s \in Statements})

removeStatement(t) ==
  /\ Work(t, "removeStatement")
  /\ ParentWrite(t, {statements} \cup {statements \ {s} : s \in Statements})

removeAllStatements(t) ==
  /\ Work(t, "removeAllStatements")
  /\ ParentWrite(t, {statements \ S : S \in SUBSET Statements})

\* containsStatement, containsAnyStatement, isEmpty, statementCount.
askParent(t) ==
  /\ AtPhase(t, "work") /\ call[t].op \in AskOps
  /\ GoTo(t, "unlock")
  /\ UNCHANGED <<mode, mutexOwner, lockVars, statements, iters, openIterators, destroyed>>

(***************************************************************************)
(* listStatements, listContexts, executeQuery: an invalid iterator gives   *)
(* the lock back at once, a valid one is wrapped and remembered.           *)
(***************************************************************************)
openIterator(t) ==
  /\ AtPhase(t, "work") /\ call[t].op \in IterOps
  /\ \/ GoTo(t, "unlock") /\ UNCHANGED iters
     \/ \E i \in Iterators :
          /\ ~IsOpen(i)
          /\ iters' = [iters EXCEPT ![i] = [owner |-> t, seen |-> {}, model |-> TRUE]]
          /\ call' = [call EXCEPT ![t].phase = "append", ![t].it = i,
                                  ![t].copy = openIterators]
  /\ UNCHANGED <<mode, mutexOwner, lockVars, statements, openIterators, destroyed>>

appendIterator_ThenUnlock(t) ==
  /\ AtPhase(t, "append")
  /\ openIterators' = call[t].copy \cup {call[t].it}
  /\ GoTo(t, "unlock")
  /\ UNCHANGED <<mode, mutexOwner, lockVars, statements, iters, destroyed>>

appendIterator(t) ==
  /\ AtPhase(t, "append")
  /\ openIterators' = call[t].copy \cup {call[t].it}
  /\ call' = [call EXCEPT ![t] = Idle]
  /\ UNCHANGED <<mode, mutexOwner, lockVars, statements, iters, destroyed>>
-----------------------------------------------------------------------------
(***************************************************************************)
(* The iterator.  next walks the parent's live content; at the end, or     *)
(* when the user closes it, close() gives the lock back through            *)
(* MutexModel::removeIterator unless the model is gone (setModelGone).     *)
(***************************************************************************)
next(t, i) ==
  /\ AtPhase(t, "idle") /\ iters[i].owner = t
  /\ \E s \in statements \ iters[i].seen :
        iters' = [iters EXCEPT ![i].seen = @ \cup {s}]
  /\ UNCHANGED <<mode, mutexOwner, lockVars, call, statements, openIterators, destroyed>>

\* What a removeIterator on a deleted model would do is not followed; that it
\* is not called is NoDanglingModel.
close(t, i) ==
  /\ AtPhase(t, "idle") /\ iters[i].owner = t
  /\ iters' = [iters EXCEPT ![i] = Unopened]
  /\ IF iters[i].model /\ ~destroyed
     THEN call' = [call EXCEPT ![t].phase = "remove", ![t].it = i]
     ELSE UNCHANGED call
  /\ UNCHANGED <<mode, mutexOwner, lockVars, statements, openIterators, destroyed>>

removeIterator(t) ==
  \/ /\ AtPhase(t, "remove")
     /\ call' = [call EXCEPT ![t].phase = "removing", ![t].copy = openIterators]
     /\ UNCHANGED <<mode, mutexOwner, lockVars, statements, iters, openIterators, destroyed>>
  \/ /\ AtPhase(t, "removing")
     /\ openIterators' = call[t].copy \ {call[t].it}
     /\ GoTo(t, "unlock")
     /\ UNCHANGED <<mode, mutexOwner, lockVars, statements, iters, destroyed>>

\* ~MutexModel, called when no thread is inside a call; iterators may be open.
destroy_KeepIterators ==
  /\ ~destroyed /\ \A t \in Threads : AtPhase(t, "idle")
  /\ destroyed' = TRUE
  /\ UNCHANGED <<mode, mutexOwner, lockVars, call, statements, openIterators, iters>>

destroy ==
  /\ ~destroyed /\ \A t \in Threads : AtPhase(t, "idle")
  /\ destroyed' = TRUE
  /\ iters' = [i \in Iterators |->
                 IF i \in openIterators THEN [iters[i] EXCEPT !.model = FALSE] ELSE iters[i]]
  /\ UNCHANGED <<mode, mutexOwner, lockVars, call, statements, openIterators>>

\* The model is gone and every iterator closed: nothing is left to happen.
Finished ==
  /\ destroyed /\ \A i \in Iterators : ~IsOpen(i)
  /\ UNCHANGED vars
-----------------------------------------------------------------------------
Next ==
  \/ \E t \in Threads :
       \/ \E op \in WriteOps \cup {"listStatements", "containsStatement"} : Call(t, op)
       \/ lockForWrite(t) \/ lockForRead(t) \/ unlock(t)
       \/ addStatement(t) \/ removeStatement(t) \/ removeAllStatements(t)
       \/ askParent(t) \/ openIterator(t) \/ appendIterator(t)
       \/ removeIterator(t)
       \/ \E i \in Iterators : next(t, i) \/ close(t, i)
  \/ destroy
  \/ Finished

Spec == Init /\ [][Next]_vars
-----------------------------------------------------------------------------
TypeOK ==
  /\ mode \in Modes
  /\ mutexOwner \in Threads \cup {NoThread}
  /\ Lock!LockTypeOK
  /\ \A t \in Threads :
       /\ call[t].op \in WriteOps \cup IterOps \cup AskOps \cup {"none"}
       /\ call[t].phase \in Phases
       /\ call[t].it \in Iterators \cup {NoIterator}
       /\ call[t].copy \subseteq Iterators
  /\ statements \subseteq Statements
  /\ iters \in [Iterators -> [owner : Threads \cup {NoThread},
                              seen : SUBSET Statements, model : BOOLEAN]]
  /\ openIterators \subseteq Iterators
  /\ destroyed \in BOOLEAN

(***************************************************************************)
(* MutexModel uses its lock within the lock's contract, whatever the       *)
(* interleaving of calls, iterators and their end: every unlock gives back *)
(* a lock that the calling thread holds, and no thread that reads waits    *)
(* for the write lock.                                                     *)
(***************************************************************************)
LockContract == Lock!LockSpec

(***************************************************************************)
(* MutexModel makes its parent a thread-safe model: what an iterator still *)
(* has to deliver is never changed by a writer.  After ~MutexModel the     *)
(* parent is unprotected, but nobody writes through the model any more.    *)
(***************************************************************************)
Abstract == INSTANCE ThreadSafeModel WITH
  content <- statements,
  pending <- [i \in Iterators |->
                IF IsOpen(i) THEN statements \ iters[i].seen ELSE Closed]

IsThreadSafe == Abstract!Spec

(***************************************************************************)
(* setModelGone: an iterator that outlives its MutexModel never calls      *)
(* removeIterator on the deleted object.  In PlainMultiThreading mode the  *)
(* list of open iterators is complete when ~MutexModel walks it.           *)
(***************************************************************************)
NoDanglingModel ==
  /\ TypeOK
  /\ mode = Plain /\ destroyed => \A i \in Iterators : IsOpen(i) => ~iters[i].model
=============================================================================
