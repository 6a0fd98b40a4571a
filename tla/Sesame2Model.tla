---------------------------- MODULE Sesame2Model ----------------------------
(***************************************************************************)
(* The Sesame2 backend: a Java repository called through JNI under a       *)
(* QReadWriteLock.  The lock is not recursive, a writer that waits goes    *)
(* before new readers, and every iterator keeps the read lock it was       *)
(* opened with.  A Java exception stays pending in its thread until it is  *)
(* converted; with one pending every check of the next call finds it.      *)
(*                                                                         *)
(* External: any Java call may throw.  An iterator is used by the thread   *)
(* that opened it, and has ended or is closed before that thread calls the *)
(* model again: the lock would let it wait for itself.  A JNI call on the  *)
(* null result of a query that failed may also crash; here it goes on.     *)
(***************************************************************************)
EXTENDS Rdf, Integers, FiniteSets

CONSTANTS SeThreads, SeStatements, SeTemplates

ASSUME SeThreadsAssumption == "none" \notin SeThreads

VARIABLES
  seModel,        \* "none", "open"
  seReaders,      \* how often each thread has the read lock
  seWriter,       \* who has the write lock, or "none"
  sePending,      \* the threads in which a Java exception is pending
  seError,        \* the threads whose lastError() is an error
  seContent,
  seIterator,     \* each thread's iterator: "none" or "open"
  seCall          \* what each thread does: the call, where it is, how it ended

seLock == <<seReaders, seWriter>>
seVars == <<seModel, seLock, sePending, seError, seContent, seIterator, seCall>>

NoSeCall == [op |-> "none", arg |-> EmptyStatement, at |-> "idle", rc |-> "ErrorNone"]

SeInit ==
  /\ seModel = "none"
  /\ seReaders = [t \in SeThreads |-> 0] /\ seWriter = "none"
  /\ sePending = {} /\ seError = {} /\ seContent = {}
  /\ seIterator = [t \in SeThreads |-> "none"]
  /\ seCall = [t \in SeThreads |-> NoSeCall]
-----------------------------------------------------------------------------
SeAt(t, place) == seCall[t].at = place
SeBody(t, ops) == SeAt(t, "body") /\ seCall[t].op \in ops
SeGo(t, place) == seCall' = [seCall EXCEPT ![t].at = place]
SeEnd(t, rc) == seCall' = [seCall EXCEPT ![t].at = "idle", ![t].rc = rc]

\* setError: what lastError() of the thread says after the call
SeSetError(t, failed) == seError' = IF failed THEN seError \cup {t} ELSE seError \ {t}

\* A group of Java calls that is followed by exceptionOccured() and
\* convertAndClearException(): threw says what the check has found.
Java(t, threw) == t \in sePending => threw
ConvertAndClear(t, threw) == SeSetError(t, threw) /\ sePending' = sePending \ {t}

seUnlock(t) ==
  IF seWriter = t
  THEN seWriter' = "none" /\ UNCHANGED seReaders
  ELSE seReaders' = [seReaders EXCEPT ![t] = @ - 1] /\ UNCHANGED seWriter

\* A repository is made, opened and connected, or thrown away at the first
\* exception.
createRepository == seModel' \in {"none", "open"}

\* BackendPlugin::createModel: a user or unknown option and a path for a memory
\* model are refused; a Java exception is swallowed by debugException(), so the
\* caller is given no model and no error.
seCreateModel(t, setting) ==
  /\ seModel = "none" /\ SeAt(t, "idle")
  /\ \/ setting = "refused" /\ SeSetError(t, TRUE) /\ UNCHANGED seModel
     \/ setting = "accepted" /\ SeSetError(t, FALSE) /\ createRepository
  /\ seContent' = {}
  /\ UNCHANGED <<seLock, sePending, seIterator, seCall>>

closeRepository == seModel' = "none"

\* ~Model: closeIterators walks lists that each close() shortens, so the walk is
\* undefined when it does not skip the last iterator.  Here it ends; an iterator
\* it has skipped points to a model that is gone, and is not used any more.
seDestroyModel(t) ==
  /\ seModel = "open"
  /\ \A u \in SeThreads : SeAt(u, "idle")
  /\ closeRepository
  /\ seReaders' = [u \in SeThreads |-> 0] /\ seWriter' = "none"
  /\ seIterator' = [u \in SeThreads |-> "none"]
  /\ UNCHANGED <<sePending, seError, seContent, seCall>>

SeReads == {"list", "query", "count"}

seBegin(t, op, arg) ==
  /\ SeAt(t, "idle") /\ seModel = "open" /\ seIterator[t] = "none"
  /\ seCall' = [seCall EXCEPT ![t] =
       [op |-> IF op = "remove" /\ StatementValid(arg) /\ ~IsEmpty(arg.c) THEN "removeAll" ELSE op, arg |-> arg, rc |-> "ErrorNone",
        at |-> CASE op \in SeReads -> "read"
                 [] op = "remove" /\ ~StatementValid(arg) -> "refused"
                 [] OTHER -> "write"]]
  /\ UNCHANGED <<seModel, seLock, sePending, seError, seContent, seIterator>>

seRefused(t) ==
  /\ SeAt(t, "refused")
  /\ SeSetError(t, TRUE) /\ SeEnd(t, "ErrorInvalidArgument")
  /\ UNCHANGED <<seModel, seLock, sePending, seContent, seIterator>>

\* The lock, and clearError(), with which every call begins below it
seLockForRead(t) ==
  /\ SeAt(t, "read") /\ seWriter = "none" /\ ~\E u \in SeThreads : SeAt(u, "write")
  /\ seReaders' = [seReaders EXCEPT ![t] = @ + 1]
  /\ SeSetError(t, FALSE) /\ SeGo(t, "body")
  /\ UNCHANGED <<seModel, seWriter, sePending, seContent, seIterator>>

seLockForWrite(t) ==
  /\ SeAt(t, "write") /\ seWriter = "none" /\ \A u \in SeThreads : seReaders[u] = 0
  /\ seWriter' = t
  /\ SeSetError(t, FALSE) /\ SeGo(t, "body")
  /\ UNCHANGED <<seModel, seReaders, sePending, seContent, seIterator>>
-----------------------------------------------------------------------------
\* convertStatement returns 0 on an exception and addStatement does not ask for
\* it: no error is set, and the exception stays pending.
addUnconverted(t) ==
  /\ SeBody(t, {"add"})
  /\ sePending' = sePending \cup {t}
  /\ seUnlock(t) /\ SeEnd(t, "ErrorUnknown")
  /\ UNCHANGED <<seModel, seError, seContent, seIterator>>

addConverted(t) ==
  /\ SeBody(t, {"add"}) /\ t \notin sePending
  /\ \E threw \in BOOLEAN :
       /\ ConvertAndClear(t, threw)
       /\ IF threw THEN UNCHANGED seContent /\ SeEnd(t, "ErrorUnknown")
          ELSE seContent' = seContent \cup {seCall[t].arg} /\ SeGo(t, "emit")
  /\ seUnlock(t)
  /\ UNCHANGED <<seModel, seIterator>>

SeMatches(op, st, arg) == IF op = "remove" THEN st = arg ELSE StatementMatches(st, arg)

\* removeStatement of the default graph, and removeAllStatements
removeMatching_(t) ==
  LET op == seCall[t].op
      rest == {st \in seContent : ~SeMatches(op, st, seCall[t].arg)}
  IN /\ SeBody(t, {"remove", "removeAll"})
     /\ \E threw \in BOOLEAN :
          /\ Java(t, threw) /\ ConvertAndClear(t, threw)
          /\ IF ~threw THEN seContent' = rest /\ SeGo(t, "emit")
             ELSE \* behind a pending exception the call may have been made or not
                  /\ IF t \in sePending THEN seContent' \in {seContent, rest} ELSE UNCHANGED seContent
                  /\ SeEnd(t, "ErrorUnknown")
     /\ seUnlock(t)
     /\ UNCHANGED <<seModel, seIterator>>

\* statementAdded or -Removed and the plural, after the lock is released
seEmit(t) ==
  /\ SeAt(t, "emit") /\ SeEnd(t, "ErrorNone")
  /\ UNCHANGED <<seModel, seLock, sePending, seError, seContent, seIterator>>

seList_Kept(t) ==
  /\ SeBody(t, {"list"})
  /\ \E threw \in BOOLEAN :
       /\ Java(t, threw) /\ ConvertAndClear(t, threw)
       /\ seIterator' = [seIterator EXCEPT ![t] = IF threw THEN "none" ELSE "open"]
       /\ SeEnd(t, IF threw THEN "ErrorUnknown" ELSE "ErrorNone")
  /\ UNCHANGED <<seModel, seLock, seContent>>

\* listStatements, listContexts: an iterator keeps the lock; on an error there
\* is none.
seList(t) ==
  /\ SeBody(t, {"list"})
  /\ \E threw \in BOOLEAN :
       /\ Java(t, threw) /\ ConvertAndClear(t, threw)
       /\ IF threw THEN seUnlock(t) /\ UNCHANGED seIterator /\ SeEnd(t, "ErrorUnknown")
          ELSE UNCHANGED seLock /\ seIterator' = [seIterator EXCEPT ![t] = "open"] /\ SeEnd(t, "ErrorNone")
  /\ UNCHANGED <<seModel, seContent>>

\* executeQuery: without a query object, or with another language, there is an
\* error.  What evaluate() throws is not asked for: there is an iterator, no
\* error, and the exception is pending.
seQuery(t) ==
  /\ SeBody(t, {"query"})
  /\ \/ sePending' \in {sePending, sePending \cup {t}}
        /\ seIterator' = [seIterator EXCEPT ![t] = "open"] /\ SeEnd(t, "ErrorNone")
        /\ UNCHANGED <<seLock, seError>>
     \/ sePending' \in {sePending, sePending \ {t}} /\ SeSetError(t, TRUE)
        /\ seUnlock(t) /\ SeEnd(t, "ErrorUnknown") /\ UNCHANGED seIterator
  /\ UNCHANGED <<seModel, seContent>>

\* statementCount, isEmpty, containsAnyStatement: a QReadLocker releases the lock
seReadOnce(t) ==
  /\ SeBody(t, {"count"})
  /\ \E threw \in BOOLEAN :
       /\ Java(t, threw) /\ ConvertAndClear(t, threw)
       /\ SeEnd(t, IF threw THEN "ErrorUnknown" ELSE "ErrorNone")
  /\ seUnlock(t)
  /\ UNCHANGED <<seModel, seContent, seIterator>>

\* createBlankNode takes no lock.
seCreateBlankNode(t) ==
  /\ SeAt(t, "idle") /\ seModel = "open"
  /\ \E threw \in BOOLEAN : Java(t, threw) /\ ConvertAndClear(t, threw)
  /\ UNCHANGED <<seModel, seLock, seContent, seIterator, seCall>>
-----------------------------------------------------------------------------
\* The backend's close(): what the Java close throws is converted, for the
\* iterator's own lastError(), and removeIterator releases the lock.
closeBackend(t) ==
  /\ sePending' = sePending \ {t}
  /\ seIterator' = [seIterator EXCEPT ![t] = "none"]
  /\ seUnlock(t)

seIteratorNext_KeepLock(t) ==
  /\ SeAt(t, "idle") /\ seIterator[t] = "open"
  /\ \/ t \notin sePending /\ UNCHANGED <<sePending, seIterator>>
     \/ sePending' = sePending \ {t} /\ seIterator' = [seIterator EXCEPT ![t] = "none"]
  /\ UNCHANGED <<seModel, seLock, seError, seContent, seCall>>

\* Iterator::next: an element; or the end or an exception, and then the backend
\* is closed.
seIteratorNext(t) ==
  /\ SeAt(t, "idle") /\ seIterator[t] = "open"
  /\ \/ t \notin sePending /\ UNCHANGED <<sePending, seIterator, seLock>>
     \/ closeBackend(t)
  /\ UNCHANGED <<seModel, seError, seContent, seCall>>

\* Iterator::close, also from the destructor of the backend
seIteratorClose(t) ==
  /\ SeAt(t, "idle") /\ seIterator[t] = "open"
  /\ closeBackend(t)
  /\ UNCHANGED <<seModel, seError, seContent, seCall>>

SeNext ==
  \E t \in SeThreads :
    \/ \E setting \in {"accepted", "refused"} : seCreateModel(t, setting)
    \/ seDestroyModel(t)
    \/ \E st \in SeStatements : seBegin(t, "add", st) \/ seBegin(t, "remove", st)
    \/ \E tm \in SeTemplates : seBegin(t, "removeAll", tm)
    \/ \E op \in SeReads : seBegin(t, op, EmptyStatement)
    \/ seRefused(t) \/ seLockForRead(t) \/ seLockForWrite(t)
    \/ addUnconverted(t) \/ addConverted(t) \/ removeMatching_(t) \/ seEmit(t)
    \/ seList(t) \/ seQuery(t) \/ seReadOnce(t) \/ seCreateBlankNode(t)
    \/ seIteratorNext(t) \/ seIteratorClose(t)

SeSpec == SeInit /\ [][SeNext]_seVars
-----------------------------------------------------------------------------
(***************************************************************************)
(* iterator.h: "Iterators have to be closed. This can either be achieved   *)
(* by deleting the iterator, finishing it (next() does return false), or   *)
(* calling close()".  The lock is held exactly by the calls that are below *)
(* it and by the iterators that have not ended, whichever of its early     *)
(* returns a call takes and whatever Java throws: a writer is alone, an    *)
(* idle thread whose iterator has ended holds nothing, and signals are     *)
(* sent without the lock, so a listener may read.                          *)
(***************************************************************************)
SesameLockExact ==
  /\ \A t \in SeThreads :
       seReaders[t] = (IF SeBody(t, SeReads) THEN 1 ELSE 0) + (IF seIterator[t] = "open" THEN 1 ELSE 0)
  /\ \A t \in SeThreads : seWriter = t <=> SeAt(t, "body") /\ seCall[t].op \notin SeReads
  /\ seWriter # "none" => \A t \in SeThreads : seReaders[t] = 0

=============================================================================
