-------------------------------- MODULE Odbc --------------------------------
(***************************************************************************)
(* The ODBC layer below the Virtuoso backend: one Connection per thread in *)
(* a ConnectionPool, the QueryResults a connection has open, the iterator  *)
(* backend around each result, the model's list of open iterators, and the *)
(* model's destructor, which closes them from whatever thread it runs in.  *)
(***************************************************************************)
EXTENDS Integers, Sequences, SequencesExt, FiniteSets

CONSTANTS
  OdThreads,     \* the threads that use one VirtuosoModel
  Destroyer,     \* the one of them that destroys it
  MaxResults     \* bound on the queries that are executed

ASSUME DestroyerAssumption == Destroyer \in OdThreads

VARIABLES
  odModel,       \* the VirtuosoModel: "alive", "destroying" or "destroyed"
  odConn,        \* m_openConnections: the threads that have a connection
  odFinished,    \* the threads that have finished
  odOpen,        \* each connection's m_openResults
  odIter,        \* the iterators, numbered like their results
  odDeleted,     \* how often each result has been deleted
  odLeft,        \* results still open when their thread finished (for the property)
  odList,        \* m_openIterators
  odMutex,       \* who holds m_openIteratorMutex, a recursive one, or "none"
  odAt           \* where each thread is

odVars == <<odModel, odConn, odFinished, odOpen, odIter, odDeleted, odLeft, odList, odMutex, odAt>>

Idle == [at |-> "idle", iter |-> 0, next |-> "idle"]

OdInit ==
  /\ odModel = "alive"
  /\ odConn = {} /\ odFinished = {}
  /\ odOpen = [t \in OdThreads |-> <<>>]
  /\ odIter = <<>> /\ odDeleted = <<>> /\ odLeft = {}
  /\ odList = <<>> /\ odMutex = "none"
  /\ odAt = [t \in OdThreads |-> Idle]
-----------------------------------------------------------------------------
\* QList::removeAll: an iterator or a result is in its list once, if at all.
removeAll(s, e) ==
  IF \E k \in DOMAIN s : s[k] = e THEN RemoveAt(s, CHOOSE k \in DOMAIN s : s[k] = e) ELSE s

Running(t) == t \notin odFinished /\ odAt[t] = Idle
Goto(t, place) == odAt' = [odAt EXCEPT ![t] = place]
FreeFor(t) == odMutex \in {"none", t}

\* The constructor lists the iterator and keeps the result.
NewIterator(t) ==
  /\ odIter' = Append(odIter, [thread |-> t, model |-> TRUE, result |-> TRUE, exists |-> TRUE])
  /\ odDeleted' = Append(odDeleted, 0)
  /\ odOpen' = [odOpen EXCEPT ![t] = Append(@, Len(odIter) + 1)]
  /\ odList' = Append(odList, Len(odIter) + 1)

\* connection() finds or makes the thread's connection.
connection(t) == odConn' = odConn \cup {t}

\* The connection can fail, and so can the query, which leaves the connection.
executeQuery(t) ==
  /\ Running(t) /\ odModel = "alive" /\ Len(odIter) < MaxResults /\ FreeFor(t)
  /\ connection(t)
  /\ \/ NewIterator(t)
     \/ UNCHANGED <<odIter, odDeleted, odOpen, odList>>
  /\ UNCHANGED <<odModel, odFinished, odLeft, odMutex, odAt>>

CloseResult_Kept(i) ==
  LET it == odIter[i]
  IN /\ odIter' = [odIter EXCEPT ![i].model = FALSE]
     /\ odDeleted' = [odDeleted EXCEPT ![i] = IF it.result THEN @ + 1 ELSE @]
     /\ odOpen' = [odOpen EXCEPT ![it.thread] = removeAll(@, i)]

\* Under m_closeMutex: forget the model, delete the result, which leaves its
\* connection's list.  Only who found the model set goes on to removeIterator.
CloseResult(i) ==
  LET it == odIter[i]
  IN /\ odIter' = [odIter EXCEPT ![i].model = FALSE, ![i].result = FALSE]
     /\ odDeleted' = [odDeleted EXCEPT ![i] = IF it.result THEN @ + 1 ELSE @]
     /\ odOpen' = [odOpen EXCEPT ![it.thread] =
                     IF it.result THEN removeAll(@, i) ELSE @]

closeIterator(t, i, next) ==
  /\ CloseResult(i)
  /\ Goto(t, IF odIter[i].model THEN [at |-> "remove", iter |-> i, next |-> next]
             ELSE [at |-> next, iter |-> i, next |-> next])
  /\ UNCHANGED <<odModel, odConn, odFinished, odLeft, odList, odMutex>>

\* close() and the destructor, by the iterator's own thread
closeOwn(t, i) ==
  /\ Running(t) /\ odIter[i].thread = t /\ odIter[i].exists
  /\ closeIterator(t, i, "closed")

destroyOwn(t, i) ==
  /\ Running(t) /\ odIter[i].thread = t /\ odIter[i].exists
  /\ closeIterator(t, i, "delete")

removeIterator(t) ==
  /\ odAt[t].at = "remove" /\ FreeFor(t)
  /\ odList' = removeAll(odList, odAt[t].iter)
  /\ Goto(t, [odAt[t] EXCEPT !.at = odAt[t].next])
  /\ UNCHANGED <<odModel, odConn, odFinished, odOpen, odIter, odDeleted, odLeft, odMutex>>

finishClose(t) ==
  /\ odAt[t].at \in {"closed", "delete"}
  /\ odIter' = IF odAt[t].at = "delete" THEN [odIter EXCEPT ![odAt[t].iter].exists = FALSE] ELSE odIter
  /\ Goto(t, Idle)
  /\ UNCHANGED <<odModel, odConn, odFinished, odOpen, odDeleted, odLeft, odList, odMutex>>
-----------------------------------------------------------------------------
\* qDeleteAll runs over the list's own cells while each ~QueryResult moves the
\* rest of it down: two results are deleted, of three the last one twice and
\* the second never.
DeletedBy(results, r) ==
  LET n == Len(results)
      At(k) == IF 2 * k - 1 <= n THEN results[2 * k - 1] ELSE results[n]
  IN Cardinality({k \in 1..n : At(k) = r})

\* ~Connection
DeleteConnections(ts) ==
  /\ odConn' = odConn \ ts
  /\ odOpen' = [t \in OdThreads |-> IF t \in ts THEN <<>> ELSE odOpen[t]]
  /\ odLeft' = odLeft \cup UNION {{odOpen[t][k] : k \in DOMAIN odOpen[t]} : t \in ts}
  /\ odDeleted' = [r \in DOMAIN odDeleted |->
                     odDeleted[r] + IF odIter[r].thread \in ts
                                    THEN DeletedBy(odOpen[odIter[r].thread], r) ELSE 0]

\* finished() or destroyed() of the thread runs cleanup
threadFinishes(t) ==
  /\ t # Destroyer /\ Running(t)
  /\ odFinished' = odFinished \cup {t}
  /\ DeleteConnections({t} \cap odConn)
  /\ UNCHANGED <<odModel, odIter, odList, odMutex, odAt>>

\* ~VirtuosoModel: closeAllIterators under the mutex, then the pool
destroyModel ==
  /\ Running(Destroyer) /\ odModel = "alive" /\ FreeFor(Destroyer)
  /\ odModel' = "destroying"
  /\ odMutex' = Destroyer
  /\ Goto(Destroyer, [at |-> "loop", iter |-> 0, next |-> "loop"])
  /\ UNCHANGED <<odConn, odFinished, odOpen, odIter, odDeleted, odLeft, odList>>

closeLast ==
  /\ odAt[Destroyer].at = "loop" /\ odList # <<>>
  /\ closeIterator(Destroyer, odList[Len(odList)], "loop")

allClosed ==
  /\ odAt[Destroyer].at = "loop" /\ odList = <<>>
  /\ odModel' = "destroyed"
  /\ odMutex' = "none"
  /\ DeleteConnections(odConn)
  /\ Goto(Destroyer, Idle)
  /\ UNCHANGED <<odFinished, odIter, odList>>

OdNext ==
  \/ \E t \in OdThreads :
       \/ executeQuery(t) \/ removeIterator(t) \/ finishClose(t) \/ threadFinishes(t)
       \/ \E i \in DOMAIN odIter : closeOwn(t, i) \/ destroyOwn(t, i)
  \/ destroyModel \/ closeLast \/ allClosed

\* A step a thread is in the middle of is taken.
OdFairness ==
  /\ \A t \in OdThreads : WF_odVars(removeIterator(t)) /\ WF_odVars(finishClose(t))
  /\ WF_odVars(closeLast) /\ WF_odVars(allClosed)

OdSpec == OdInit /\ [][OdNext]_odVars /\ OdFairness
-----------------------------------------------------------------------------
(***************************************************************************)
(* close() may run in the iterator's thread and in the model's destructor  *)
(* at once: a result is deleted once, whoever comes first, and every       *)
(* iterator that still needs the model is in the model's list, which names *)
(* none that is gone, but the one that is about to be removed from it.     *)
(* Only results that outlive their thread are deleted again.               *)
(***************************************************************************)
ResultsDeletedOnce ==
  /\ \A i \in DOMAIN odIter \ odLeft : odDeleted[i] = IF odIter[i].result THEN 0 ELSE 1
  /\ \A i \in DOMAIN odIter : odIter[i].model => odIter[i].exists /\ i \in {odList[k] : k \in DOMAIN odList}
  /\ \A k \in DOMAIN odList :
       odIter[odList[k]].exists \/ \E t \in OdThreads : odAt[t].at = "remove" /\ odAt[t].iter = odList[k]
  /\ odModel = "destroyed" => \A i \in DOMAIN odIter : ~odIter[i].result

(***************************************************************************)
(* virtuosoqueryresultiteratorbackend.cpp: "the VirtuosoModel destructor   *)
(* will close all open iterators which may happen in a different thread    *)
(* indeed": the destructor ends.                                           *)
(***************************************************************************)
DestructorEnds == odModel = "destroying" ~> odModel = "destroyed"
=============================================================================
