---------------------------- MODULE AsyncIterator ---------------------------
(***************************************************************************)
(* soprano/util/asynciteratorbackend.h in AsyncModel's MultiThreaded mode. *)
(* The worker is a pool thread that runs iterate() at the end of a         *)
(* ListStatementsCommand, ListContextsCommand or ExecuteQueryCommand; it   *)
(* moves the results of the parent's iterator into a bounded cache.  The   *)
(* consumer calls next() and close() on the AsyncIteratorBackend.          *)
(*                                                                         *)
(* The two share m_mutex and the conditions m_iterateWc (cache space) and  *)
(* m_nextWc (data).  A stretch under m_mutex is one step; m_atEnd is also  *)
(* written and read without it.  The parent's iterator is external: it     *)
(* delivers results 1, 2, ... and ends, with or without an error, when it  *)
(* likes.                                                                  *)
(***************************************************************************)
EXTENDS Integers, Sequences

CONSTANTS
  CacheSize,    \* s_cacheSize
  AiMaxResults    \* bound: results the parent's iterator delivers

ASSUME CacheAssumption == CacheSize \in Nat \ {0}
ASSUME AiMaxResultsAssumption == AiMaxResults \in Nat

VARIABLES
  worker,       \* where the pool thread is
  consumer,     \* where the thread that uses the iterator is
  m_atEnd,
  m_cache,      \* results 1, 2, ... as numbers
  m_error,
  haveNext,     \* iterate()'s local variable
  aiFetched,      \* results the parent's iterator has delivered
  iteratorOpen,   \* m_iterator is not closed
  got,          \* history: the results next() returned to the consumer
  early         \* history: close() was called before iterate() came to the end

sharedVars == <<m_atEnd, m_cache, m_error>>
aiVars == <<worker, consumer, sharedVars, haveNext, aiFetched, iteratorOpen, got, early>>

AiInit ==
  /\ worker = "start"
  /\ consumer = "idle"
  /\ m_atEnd = FALSE
  /\ m_cache = <<>>
  /\ m_error = FALSE
  /\ haveNext = FALSE
  /\ aiFetched = 0
  /\ iteratorOpen = TRUE
  /\ got = <<>>
  /\ early = FALSE
-----------------------------------------------------------------------------
(***************************************************************************)
(* The worker: iterate().                                                  *)
(***************************************************************************)
Worker(from, to) == worker = from /\ worker' = to

iterateStart ==
  /\ Worker("start", "loop")
  /\ m_atEnd' = FALSE
  /\ UNCHANGED <<consumer, m_cache, m_error, haveNext, aiFetched, iteratorOpen, got, early>>

iterateLoop_Forever ==
  /\ Worker("loop", "space")
  /\ UNCHANGED <<consumer, sharedVars, haveNext, aiFetched, iteratorOpen, got, early>>

iterateLoop ==
  /\ Worker("loop", IF m_atEnd THEN "close" ELSE "space")
  /\ UNCHANGED <<consumer, sharedVars, haveNext, aiFetched, iteratorOpen, got, early>>

cacheFull == Len(m_cache) >= CacheSize

\* Waits at most once: after the wake-up the cache is not looked at again.

waitForSpace ==
  \/ /\ Worker("space", IF cacheFull THEN "spaceWait" ELSE "fetch")
     /\ haveNext' = FALSE
     /\ UNCHANGED <<consumer, sharedVars, aiFetched, iteratorOpen, got, early>>
  \/ /\ Worker("spaceWoken", "fetch")
     /\ haveNext' = FALSE
     /\ UNCHANGED <<consumer, sharedVars, aiFetched, iteratorOpen, got, early>>

\* m_iterator.next(), outside of the mutex.
fetch ==
  /\ \/ aiFetched < AiMaxResults /\ Worker("fetch", "enqueue") /\ aiFetched' = aiFetched + 1
     \/ Worker("fetch", "endOfRound") /\ UNCHANGED aiFetched
  /\ UNCHANGED <<consumer, sharedVars, haveNext, iteratorOpen, got, early>>

enqueueCurrent ==
  /\ worker = "enqueue"
  /\ m_cache' = Append(m_cache, aiFetched)
  /\ \/ \* m_iterator.lastError() is set
        m_error' = TRUE /\ worker' = "endOfRound" /\ UNCHANGED haveNext
     \/ /\ Len(m_cache') >= CacheSize
        /\ haveNext' = TRUE
        /\ worker' = "endOfRound"
        /\ UNCHANGED m_error
     \/ Len(m_cache') < CacheSize /\ worker' = "fetch" /\ UNCHANGED <<haveNext, m_error>>
  /\ UNCHANGED <<consumer, m_atEnd, aiFetched, iteratorOpen, got, early>>

endOfRound_NoWakeup ==
  /\ Worker("endOfRound", "loop")
  /\ m_atEnd' = ~haveNext
  /\ UNCHANGED <<consumer, m_cache, m_error, haveNext, aiFetched, iteratorOpen, got, early>>

endOfRound ==
  /\ Worker("endOfRound", "loop")
  /\ m_atEnd' = ~haveNext
  /\ consumer' = IF consumer = "nextWait" THEN "nextWoken" ELSE consumer
  /\ UNCHANGED <<m_cache, m_error, haveNext, aiFetched, iteratorOpen, got, early>>

closeParent ==
  /\ Worker("close", "done")
  /\ iteratorOpen' = FALSE
  /\ UNCHANGED <<consumer, sharedVars, haveNext, aiFetched, got, early>>

iterate ==
  \/ iterateStart \/ iterateLoop \/ waitForSpace \/ fetch \/ enqueueCurrent
  \/ endOfRound \/ closeParent
-----------------------------------------------------------------------------
(***************************************************************************)
(* The consumer: getNext() and, through Iterator::next and Iterator::close,*)
(* closeIterator().                                                        *)
(***************************************************************************)
wakeIterate == worker' = IF worker = "spaceWait" THEN "spaceWoken" ELSE worker

\* What getNext() returns once it does not, or no longer, wait for data.
takeNext_Head ==
  \/ m_error /\ consumer' = "end" /\ UNCHANGED <<m_cache, got>>
  \/ /\ ~m_error /\ m_cache # <<>>
     /\ got' = Append(got, Head(m_cache))
     /\ consumer' = "idle"
     /\ UNCHANGED m_cache
  \/ ~m_error /\ m_cache = <<>> /\ consumer' = "end" /\ UNCHANGED <<m_cache, got>>

takeNext ==
  \/ m_error /\ consumer' = "end" /\ UNCHANGED <<m_cache, got>>
  \/ /\ ~m_error /\ m_cache # <<>>
     /\ got' = Append(got, Head(m_cache))
     /\ m_cache' = Tail(m_cache)
     /\ consumer' = "idle"
  \/ ~m_error /\ m_cache = <<>> /\ consumer' = "end" /\ UNCHANGED <<m_cache, got>>

getNext ==
  /\ consumer = "idle"
  /\ \/ /\ m_cache = <<>> /\ ~m_atEnd
        /\ wakeIterate
        /\ consumer' = "nextWait"
        /\ UNCHANGED <<m_cache, got>>
     \/ /\ m_cache # <<>> \/ m_atEnd
        /\ takeNext
        /\ UNCHANGED worker
  /\ UNCHANGED <<m_atEnd, m_error, haveNext, aiFetched, iteratorOpen, early>>

getNextWoken ==
  /\ consumer = "nextWoken"
  /\ takeNext
  /\ UNCHANGED <<worker, m_atEnd, m_error, haveNext, aiFetched, iteratorOpen, early>>

\* Called by the user, or by Iterator::next when getNext() returned false.
stopIterating ==
  /\ consumer \in {"idle", "end"}
  /\ consumer' = "closed"
  /\ early' = ~m_atEnd
  /\ m_atEnd' = TRUE
  /\ wakeIterate
  /\ UNCHANGED <<m_cache, m_error, haveNext, aiFetched, iteratorOpen, got>>
-----------------------------------------------------------------------------
AiNext == iterate \/ getNext \/ getNextWoken \/ stopIterating

(***************************************************************************)
(* The pool thread is scheduled, a woken consumer returns from getNext(),  *)
(* and Iterator::next closes at once when there is no next result.  The    *)
(* user is not obliged to call next() or close().                          *)
(***************************************************************************)
AiFairness ==
  /\ WF_aiVars(iterate)
  /\ WF_aiVars(getNextWoken)
  /\ WF_aiVars(consumer = "end" /\ stopIterating)

AiSpec == AiInit /\ [][AiNext]_aiVars /\ AiFairness
-----------------------------------------------------------------------------
AiTypeOK ==
  /\ worker \in {"start", "loop", "space", "spaceWait", "spaceWoken", "fetch", "enqueue",
                 "endOfRound", "close", "done"}
  /\ consumer \in {"idle", "nextWait", "nextWoken", "end", "closed"}
  /\ m_atEnd \in BOOLEAN /\ m_error \in BOOLEAN /\ haveNext \in BOOLEAN
  /\ iteratorOpen \in BOOLEAN /\ early \in BOOLEAN
  /\ aiFetched \in 0..AiMaxResults
  /\ m_cache \in Seq(1..AiMaxResults)
  /\ got \in Seq(1..AiMaxResults)

\* what the consumer got, and then the cache, is what was fetched
InOrder ==
  LET enqueued == IF worker = "enqueue" THEN aiFetched - 1 ELSE aiFetched
  IN  got \o m_cache = [i \in 1..enqueued |-> i]

(***************************************************************************)
(* The consumer gets the parent's results, in order, none lost, none       *)
(* twice: what it got and what is cached is what was fetched.  And the     *)
(* cache stays within s_cacheSize for as long as the iterator is open,     *)
(* although iterate() does not test again after its wait.                  *)
(***************************************************************************)
CacheExact ==
  /\ AiTypeOK
  /\ InOrder
  /\ consumer # "closed" => Len(m_cache) <= CacheSize

(***************************************************************************)
(* iterator.h says of next(): "true if another element can be read from    *)
(* the iterator, false if the end has been reached."                       *)
(***************************************************************************)
EndIsTheEnd ==
  consumer = "end" /\ ~m_error => m_atEnd /\ m_cache = <<>> /\ Len(got) = aiFetched

(***************************************************************************)
(* A next() that waits for data returns: the two threads never wait for    *)
(* each other.                                                             *)
(***************************************************************************)
NextReturns == consumer = "nextWait" ~> consumer # "nextWait"

(***************************************************************************)
(* Once iterate() has seen the end, closing the iterator is enough to let  *)
(* go of the parent's iterator: the worker is not left waiting for space.  *)
(***************************************************************************)
EndReleasesParent == (consumer = "closed" /\ ~early) ~> ~iteratorOpen

(***************************************************************************)
(* iterator.h says of close(): "Close the iterator and release any locks on*)
(* the underlying Model."                                                  *)
(***************************************************************************)
CloseReleasesParent == consumer = "closed" ~> ~iteratorOpen
=============================================================================
