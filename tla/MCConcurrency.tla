--------------------------- MODULE MCConcurrency ---------------------------
(***************************************************************************)
(* One instance of each module about threads and event loops that stands   *)
(* by itself: the initial state picks the part a behaviour is about, and   *)
(* the fairness is that of the module for the part that moves.             *)
(***************************************************************************)
EXTENDS ExtReadWriteLock, AsyncIterator, AsyncQuery, AsyncModel

CONSTANTS t1, t2, t3, t4, c1, c2, c3, l1
MCThreads == {t1, t2, t3, t4}
MCCommands == {c1, c2, c3}
MCSyncLists == {l1}

VARIABLE part

MCInit ==
  /\ part \in {"lock", "iterator", "query", "model"}
  /\ LockInit /\ AiInit /\ AqInit /\ AmInit

MCNext ==
  /\ UNCHANGED part
  /\ IF part = "lock" THEN LockNext ELSE UNCHANGED lockVars
  /\ IF part = "iterator" THEN AiNext ELSE UNCHANGED aiVars
  /\ IF part = "query" THEN AqNext ELSE UNCHANGED aqVars
  /\ IF part = "model" THEN AmNext ELSE UNCHANGED amVars

\* LockFairness, AiFairness, AqFairness and AmFairness, each of the part that moves.
MCFairness ==
  /\ \A t \in Threads : /\ WF_lockVars(part = "lock" /\ resumeLockForWrite(t))
                         /\ WF_lockVars(part = "lock" /\ resumeLockForRead(t))
  /\ WF_aiVars(part = "iterator" /\ iterate)
  /\ WF_aiVars(part = "iterator" /\ getNextWoken)
  /\ WF_aiVars(part = "iterator" /\ consumer = "end" /\ stopIterating)
  /\ WF_aqVars(part = "query" /\ run)
  /\ WF_aqVars(part = "query" /\ _s_emitNextReady)
  /\ WF_aqVars(part = "query" /\ next)
  /\ WF_aqVars(part = "query" /\ _s_finished)
  /\ WF_aqVars(part = "query" /\ owner = "deleteLater" /\ deleteQuery)
  /\ WF_aqVars(part = "query" /\ joined)
  /\ WF_amVars(part = "model" /\ _s_executeNextCommand)
  /\ WF_amVars(part = "model" /\ slotResultReady)
  /\ \A k \in Commands \cup SyncLists : WF_amVars(part = "model" /\ closeIterator(k))

MCSpec == MCInit /\ [][MCNext]_<<part, lockVars, aiVars, aqVars, amVars>> /\ MCFairness
=============================================================================
