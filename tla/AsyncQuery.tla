----------------------------- MODULE AsyncQuery -----------------------------
(***************************************************************************)
(* soprano/util/asyncquery.cpp: a query that runs in a QThread of its own  *)
(* and hands each result to the owner's event loop with a queued           *)
(* nextReady; the thread then sleeps until the owner calls next() or       *)
(* close().                                                                *)
(*                                                                         *)
(* thread is the QThread's run(), owner the thread of the event loop, and  *)
(* events its queue.  A stretch under m_mutex is one step.  run() reads    *)
(* m_closed without m_mutex.  The results 1, 2, ... come from the external *)
(* QueryResultIterator.                                                    *)
(***************************************************************************)
EXTENDS Integers, Sequences

CONSTANT AqMaxResults   \* bound: results of the query
ASSUME AqMaxResultsAssumption == AqMaxResults \in Nat

VARIABLES
  thread,       \* where run() is
  owner,        \* what the owner's thread does
  events,       \* queued calls to the owner's thread
  m_closed,
  m_type,
  current,      \* m_currentStatement or m_currentBindings: a result's number
  fetched,      \* results taken from the iterator
  read,         \* history: the results read in slots connected to nextReady
  finishedCount \* history: emissions of finished()

aqVars == <<thread, owner, events, m_closed, m_type, current, fetched, read, finishedCount>>

AqInit ==
  /\ thread = "query"
  /\ owner = "eventLoop"
  /\ events = <<>>
  /\ m_closed = FALSE
  /\ m_type = "UnknownResult"
  /\ current = 0
  /\ fetched = 0
  /\ read = <<>>
  /\ finishedCount = 0
-----------------------------------------------------------------------------
(***************************************************************************)
(* The query thread: run().                                                *)
(***************************************************************************)
Thread(from, to) == thread = from /\ thread' = to

runQuery ==
  /\ \/ \* executeQuery gave no valid iterator
        Thread("query", "finish") /\ UNCHANGED m_type
     \/ m_type' = "BooleanResult" /\ Thread("query", "finish")
     \/ m_type' \in {"GraphResult", "BindingResult"} /\ Thread("query", "loop")
  /\ UNCHANGED <<owner, events, m_closed, current, fetched, read, finishedCount>>

testClosed ==
  /\ Thread("loop", IF m_closed THEN "finish" ELSE "fetch")
  /\ UNCHANGED <<owner, events, m_closed, m_type, current, fetched, read, finishedCount>>

fetchNext ==
  /\ \/ /\ fetched < AqMaxResults
        /\ fetched' = fetched + 1
        /\ Thread("fetch", IF m_closed THEN "finish" ELSE "cache")
     \/ Thread("fetch", "finish") /\ UNCHANGED fetched
  /\ UNCHANGED <<owner, events, m_closed, m_type, current, read, finishedCount>>

cacheResult_KeepRunning ==
  /\ Thread("cache", "loop")
  /\ current' = fetched
  /\ events' = Append(events, "nextReady")
  /\ UNCHANGED <<owner, m_closed, m_type, fetched, read, finishedCount>>

\* From m_mutex.lock() to the wait that gives it up.
cacheResult ==
  /\ Thread("cache", "wait")
  /\ current' = fetched
  /\ events' = Append(events, "nextReady")
  /\ UNCHANGED <<owner, m_closed, m_type, fetched, read, finishedCount>>

runWoken ==
  /\ Thread("woken", "loop")
  /\ UNCHANGED <<owner, events, m_closed, m_type, current, fetched, read, finishedCount>>

\* The end of run(); QThread then emits finished(), which _s_finished gets queued.
runEnd ==
  /\ Thread("finish", "ended")
  /\ events' = Append(events, "finished")
  /\ UNCHANGED <<owner, m_closed, m_type, current, fetched, read, finishedCount>>

run ==
  runQuery \/ testClosed \/ fetchNext \/ cacheResult \/ runWoken \/ runEnd
-----------------------------------------------------------------------------
(***************************************************************************)
(* The owner.  wakeNext is m_nextWaiter.wakeAll(): it reaches the thread   *)
(* only when it waits.                                                     *)
(***************************************************************************)
wakeNext == thread' = IF thread = "wait" THEN "woken" ELSE thread

Deliver(e) ==
  /\ owner = "eventLoop"
  /\ events # <<>> /\ Head(events) = e
  /\ events' = Tail(events)

\* _s_emitNextReady: the slot reads the result with binding() and the like.
_s_emitNextReady ==
  /\ Deliver("nextReady")
  /\ owner' = "inSlot"
  /\ read' = Append(read, current)
  /\ UNCHANGED <<thread, m_closed, m_type, current, fetched, finishedCount>>

\* The last call of the slot; next() does nothing when the thread has ended.
next ==
  /\ owner = "inSlot"
  /\ owner' = "eventLoop"
  /\ IF thread = "ended" THEN UNCHANGED thread ELSE wakeNext
  /\ UNCHANGED <<events, m_closed, m_type, current, fetched, read, finishedCount>>

close_NoWake ==
  /\ owner \in {"eventLoop", "inSlot"}
  /\ m_closed' = TRUE
  /\ owner' = "eventLoop"
  /\ UNCHANGED <<thread, events, m_type, current, fetched, read, finishedCount>>

close ==
  /\ owner \in {"eventLoop", "inSlot"}
  /\ m_closed' = TRUE
  /\ wakeNext
  /\ owner' = "eventLoop"
  /\ UNCHANGED <<events, m_type, current, fetched, read, finishedCount>>

_s_finished ==
  /\ Deliver("finished")
  /\ finishedCount' = finishedCount + 1
  /\ owner' = "deleteLater"
  /\ UNCHANGED <<thread, m_closed, m_type, current, fetched, read>>

\* ~AsyncQuery: close(), d->wait(), delete d; by the user or by deleteLater.
deleteQuery ==
  /\ owner \in {"eventLoop", "inSlot", "deleteLater"}
  /\ m_closed' = TRUE
  /\ wakeNext
  /\ owner' = "joining"
  /\ UNCHANGED <<events, m_type, current, fetched, read, finishedCount>>

joined ==
  /\ owner = "joining" /\ thread = "ended"
  /\ owner' = "gone"
  /\ events' = <<>>
  /\ UNCHANGED <<thread, m_closed, m_type, current, fetched, read, finishedCount>>
-----------------------------------------------------------------------------
AqNext ==
  \/ run
  \/ _s_emitNextReady \/ next \/ close \/ _s_finished \/ deleteQuery \/ joined

(***************************************************************************)
(* The thread runs; the owner runs its event loop, ends a slot with next() *)
(* as asyncquery.h asks, and lets deleteLater and the destructor go on.    *)
(* Nobody is obliged to call close() or to delete the query.               *)
(***************************************************************************)
AqFairness ==
  /\ WF_aqVars(run)
  /\ WF_aqVars(_s_emitNextReady) /\ WF_aqVars(next) /\ WF_aqVars(_s_finished)
  /\ WF_aqVars(owner = "deleteLater" /\ deleteQuery)
  /\ WF_aqVars(joined)

AqSpec == AqInit /\ [][AqNext]_aqVars /\ AqFairness
-----------------------------------------------------------------------------
AqTypeOK ==
  /\ thread \in {"query", "loop", "fetch", "cache", "wait", "woken", "finish", "ended"}
  /\ owner \in {"eventLoop", "inSlot", "deleteLater", "joining", "gone"}
  /\ events \in Seq({"nextReady", "finished"})
  /\ m_closed \in BOOLEAN
  /\ m_type \in {"UnknownResult", "GraphResult", "BindingResult", "BooleanResult"}
  /\ current \in 0..AqMaxResults /\ fetched \in 0..AqMaxResults
  /\ read \in Seq(1..AqMaxResults)
  /\ finishedCount \in Nat

(***************************************************************************)
(* The k-th nextReady shows the k-th result: the thread never overwrites a *)
(* result whose nextReady is queued, so none is skipped and none is shown  *)
(* twice, and at most one nextReady is queued at a time.  finished() comes *)
(* once, after the last nextReady, and only when the iterator's end was    *)
(* reached or the query was closed.                                        *)
(***************************************************************************)
SignalsExact ==
  /\ AqTypeOK
  /\ read = [i \in 1..Len(read) |-> i]
  /\ \A i, j \in DOMAIN events : events[i] = "nextReady" /\ events[j] = "nextReady" => i = j
  /\ finishedCount <= 1
  /\ finishedCount = 1 => events = <<>>
  /\ finishedCount = 1 /\ ~m_closed => Len(read) = fetched

(***************************************************************************)
(* asyncquery.h: "finished() will always be emitted in case the query was  *)
(* not finished yet."  Once the thread has executed the query, and unless  *)
(* the owner deletes it, finished() is emitted, also when close() comes    *)
(* while the thread is between its look at m_closed and its wait, because  *)
(* the nextReady it queued is answered.                                    *)
(***************************************************************************)
FinishedEmitted == thread # "query" ~> (finishedCount = 1 \/ owner \in {"joining", "gone"})

(***************************************************************************)
(* asyncquery.h: "Delete the query. This will cancel an unfinished query." *)
(* So the destructor returns.                                              *)
(***************************************************************************)
DeleteReturns == owner = "joining" ~> owner = "gone"
=============================================================================
