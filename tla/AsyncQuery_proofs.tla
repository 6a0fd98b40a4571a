-------------------------- MODULE AsyncQuery_proofs --------------------------
(***************************************************************************)
(* Proofs about AsyncQuery for any number of results: the k-th nextReady   *)
(* shows the k-th result, and finished() comes once and last.              *)
(***************************************************************************)
EXTENDS AsyncQuery, SequenceTheorems, TLAPS

(***************************************************************************)
(* The owner's queue holds at most one nextReady, in front of finished().  *)
(***************************************************************************)
Empty == <<>>
Result == <<"nextReady">>
Both == <<"nextReady", "finished">>
Finish == <<"finished">>

ResultQueued == events \in {Result, Both}
FinishQueued == events \in {Both, Finish}

(***************************************************************************)
(* The result on show is the last one read, or the one whose nextReady is  *)
(* queued; the thread is at most one result ahead of it, and only until it *)
(* has put it in its place, unless the query was closed in between.        *)
(***************************************************************************)
InStep ==
  /\ owner # "gone" => current = IF ResultQueued THEN Len(read) + 1 ELSE Len(read)
  /\ thread \in {"query", "loop", "fetch", "wait", "woken"} => fetched = current
  /\ thread = "cache" => fetched = current + 1
  /\ thread \in {"finish", "ended"} =>
       fetched \in {current, current + 1} /\ (~m_closed => fetched = current)

(***************************************************************************)
(* While a nextReady is queued or answered the thread waits; it is woken   *)
(* early by close() only, and then fetches nothing more.                   *)
(***************************************************************************)
ThreadWaits ==
  /\ ResultQueued \/ owner = "inSlot" =>
       thread = "wait" \/ (m_closed /\ thread \notin {"query", "fetch", "cache"})
  /\ owner = "inSlot" => ~ResultQueued

EndsOnce ==
  /\ FinishQueued => thread = "ended"
  /\ finishedCount \in {0, 1}
  /\ finishedCount = 1 =>
       events = Empty /\ thread = "ended" /\ owner \in {"deleteLater", "joining", "gone"}
  /\ owner = "deleteLater" => finishedCount = 1
  /\ owner \in {"joining", "gone"} => m_closed
  /\ owner = "gone" => thread = "ended" /\ events = Empty

Inv ==
  /\ AqTypeOK
  /\ events \in {Empty, Result, Both, Finish}
  /\ read = [i \in 1..Len(read) |-> i]
  /\ InStep /\ ThreadWaits /\ EndsOnce
-----------------------------------------------------------------------------
Signals == {"nextReady", "finished"}

LEMMA QueuesTyped ==
  ASSUME NEW q \in {Empty, Result, Both, Finish}
  PROVE  q \in Seq(Signals)
<1>1. Empty \in Seq(Signals)
  BY DEF Empty
<1>2. Result \in Seq(Signals)
  BY DEF Result, Signals
<1>3. Both \in Seq(Signals)
  BY DEF Both, Signals
<1>4. Finish \in Seq(Signals)
  BY DEF Finish, Signals
<1> QED
  BY <1>1, <1>2, <1>3, <1>4

LEMMA Queues ==
  /\ Append(Empty, "nextReady") = Result /\ Append(Empty, "finished") = Finish
  /\ Append(Result, "finished") = Both
  /\ Head(Result) = "nextReady" /\ Tail(Result) = Empty
  /\ Head(Both) = "nextReady" /\ Tail(Both) = Finish
  /\ Head(Finish) = "finished" /\ Tail(Finish) = Empty
<1>1. /\ Append(Empty, "nextReady") = Result /\ Append(Empty, "finished") = Finish
      /\ Append(Result, "finished") = Both
  <2>1. Append(Empty, "nextReady") = Result
    BY DEF Empty, Result
  <2>2. Append(Empty, "finished") = Finish
    BY DEF Empty, Finish
  <2>3. Append(Result, "finished") = Both
    <3>1. Result \in Seq(Signals) /\ Both \in Seq(Signals) /\ "finished" \in Signals
      BY QueuesTyped DEF Signals
    <3>2. Append(Result, "finished") \in Seq(Signals)
      BY <3>1
    <3>3. Len(Append(Result, "finished")) = 2 /\ Len(Both) = 2
      BY DEF Result, Both
    <3>4. \A i \in 1..2 : Append(Result, "finished")[i] = Both[i]
      BY DEF Result, Both
    <3> QED
      BY <3>1, <3>2, <3>3, <3>4, SeqEqual
  <2> QED
    BY <2>1, <2>2, <2>3
<1>2. Head(Result) = "nextReady" /\ Tail(Result) = Empty
  BY DEF Empty, Result
<1>3. Head(Both) = "nextReady" /\ Tail(Both) = Finish
  BY DEF Both, Finish
<1>4. Head(Finish) = "finished" /\ Tail(Finish) = Empty
  BY DEF Empty, Finish
<1> QED
  BY <1>1, <1>2, <1>3, <1>4

LEMMA QueuesDiffer ==
  /\ Empty # Result /\ Empty # Both /\ Empty # Finish
  /\ Result # Both /\ Result # Finish /\ Both # Finish
<1>1. Len(Empty) = 0 /\ Len(Result) = 1 /\ Len(Both) = 2 /\ Len(Finish) = 1
  BY DEF Empty, Result, Both, Finish
<1> QED
  BY <1>1, Queues

\* One more result read in its turn.
LEMMA NextRead ==
  ASSUME NEW s \in Seq(1..AqMaxResults), s = [i \in 1..Len(s) |-> i], Len(s) + 1 \in 1..AqMaxResults
  PROVE  LET t == Append(s, Len(s) + 1) IN
           t \in Seq(1..AqMaxResults) /\ Len(t) = Len(s) + 1 /\ t = [i \in 1..Len(t) |-> i]
<1> DEFINE t == Append(s, Len(s) + 1)
<1>1. Len(s) \in Nat
  OBVIOUS
<1>2. t \in Seq(1..AqMaxResults) /\ Len(t) = Len(s) + 1
  OBVIOUS
<1>3. ASSUME NEW i \in 1..(Len(s) + 1) PROVE t[i] = i
  <2>1. CASE i <= Len(s)
    <3>1. i \in 1..Len(s)
      BY <1>1, <2>1
    <3>2. t[i] = s[i]
      BY <3>1
    <3>3. s[i] = i
      BY <3>1
    <3> QED
      BY <3>2, <3>3
  <2>2. CASE i = Len(s) + 1
    BY <2>2
  <2> QED
    BY <1>1, <2>1, <2>2
<1>4. t = [i \in 1..Len(t) |-> t[i]]
  BY <1>2
<1> HIDE DEF t
<1>5. t = [i \in 1..Len(t) |-> i]
  BY <1>2, <1>3, <1>4
<1> QED
  BY <1>2, <1>5 DEF t
-----------------------------------------------------------------------------
LEMMA InitInv == AqInit => Inv
<1> SUFFICES ASSUME AqInit PROVE Inv
  OBVIOUS
<1>1. read = <<>> /\ Len(read) = 0 /\ events = Empty
  BY DEF AqInit, Empty
<1>2. <<>> \in Seq(1..AqMaxResults) /\ <<>> = [i \in 1..0 |-> i]
  OBVIOUS
<1>3. AqTypeOK
  <2>1. events \in Seq(Signals)
    BY <1>1, QueuesTyped
  <2>2. 0 \in 0..AqMaxResults
    BY AqMaxResultsAssumption
  <2> QED
    BY <1>1, <1>2, <2>1, <2>2 DEF AqInit, AqTypeOK, Signals
<1>4. ~ResultQueued /\ ~FinishQueued
  BY <1>1, QueuesDiffer DEF ResultQueued, FinishQueued
<1> QED
  BY <1>1, <1>2, <1>3, <1>4 DEF AqInit, Inv, InStep, ThreadWaits, EndsOnce

\* The steps of run() that leave the owner's queue alone.
LEMMA ThreadStep ==
  ASSUME Inv, runQuery \/ testClosed \/ fetchNext \/ runWoken
  PROVE  Inv'
<1>1. /\ AqTypeOK /\ events \in {Empty, Result, Both, Finish} /\ read = [i \in 1..Len(read) |-> i]
      /\ InStep /\ ThreadWaits /\ EndsOnce
  BY DEF Inv
<1>2. UNCHANGED <<owner, events, m_closed, current, read, finishedCount>>
  BY DEF runQuery, testClosed, fetchNext, runWoken
<1>3. AqTypeOK'
  <2>1. fetched' \in 0..AqMaxResults
    BY <1>1, AqMaxResultsAssumption DEF AqTypeOK, runQuery, testClosed, fetchNext, runWoken
  <2>2. /\ thread' \in {"loop", "fetch", "cache", "finish"}
        /\ m_type' \in {"UnknownResult", "GraphResult", "BindingResult", "BooleanResult"}
    BY <1>1 DEF AqTypeOK, runQuery, testClosed, fetchNext, runWoken, Thread
  <2> QED
    BY <1>1, <1>2, <2>1, <2>2 DEF AqTypeOK
<1>4. (ResultQueued' <=> ResultQueued) /\ (FinishQueued' <=> FinishQueued)
  BY <1>2 DEF ResultQueued, FinishQueued
<1>5. thread # "ended" /\ thread' # "ended"
  BY DEF runQuery, testClosed, fetchNext, runWoken, Thread
<1>6. EndsOnce'
  BY <1>1, <1>2, <1>4, <1>5 DEF EndsOnce
<1>7. current \in Nat /\ fetched \in Nat
  BY <1>1, AqMaxResultsAssumption DEF AqTypeOK
<1>8. InStep'
  BY <1>1, <1>2, <1>4, <1>7 DEF InStep, runQuery, testClosed, fetchNext, runWoken, Thread
<1>9. ThreadWaits'
  BY <1>1, <1>2, <1>4 DEF ThreadWaits, runQuery, testClosed, fetchNext, runWoken, Thread
<1> QED
  BY <1>1, <1>2, <1>3, <1>6, <1>8, <1>9 DEF Inv

LEMMA CacheInv ==
  ASSUME Inv, cacheResult
  PROVE  Inv'
<1>1. /\ AqTypeOK /\ events \in {Empty, Result, Both, Finish} /\ read = [i \in 1..Len(read) |-> i]
      /\ InStep /\ ThreadWaits /\ EndsOnce
  BY DEF Inv
<1>2. /\ thread = "cache" /\ thread' = "wait" /\ current' = fetched
      /\ events' = Append(events, "nextReady")
      /\ UNCHANGED <<owner, m_closed, m_type, fetched, read, finishedCount>>
  BY DEF cacheResult, Thread
<1>3. ~ResultQueued /\ ~FinishQueued /\ owner # "inSlot" /\ owner # "gone"
  BY <1>1, <1>2 DEF ThreadWaits, EndsOnce
<1>4. events = Empty
  BY <1>1, <1>3 DEF ResultQueued, FinishQueued
<1>5. events' = Result
  BY <1>2, <1>4, Queues
<1>6. ResultQueued' /\ ~FinishQueued'
  BY <1>5, QueuesDiffer DEF ResultQueued, FinishQueued
<1>7. fetched = Len(read) + 1
  BY <1>1, <1>2, <1>3 DEF InStep
<1>8. AqTypeOK'
  BY <1>1, <1>2, <1>5, QueuesTyped DEF AqTypeOK, Signals
<1>9. InStep' /\ ThreadWaits' /\ EndsOnce'
  BY <1>1, <1>2, <1>3, <1>6, <1>7 DEF InStep, ThreadWaits, EndsOnce
<1> QED
  BY <1>1, <1>2, <1>5, <1>8, <1>9 DEF Inv

LEMMA RunEndInv ==
  ASSUME Inv, runEnd
  PROVE  Inv'
<1>1. /\ AqTypeOK /\ events \in {Empty, Result, Both, Finish} /\ read = [i \in 1..Len(read) |-> i]
      /\ InStep /\ ThreadWaits /\ EndsOnce
  BY DEF Inv
<1>2. /\ thread = "finish" /\ thread' = "ended" /\ events' = Append(events, "finished")
      /\ UNCHANGED <<owner, m_closed, m_type, current, fetched, read, finishedCount>>
  BY DEF runEnd, Thread
<1>3. ~FinishQueued /\ finishedCount = 0 /\ owner \notin {"deleteLater", "gone"}
  BY <1>1, <1>2 DEF EndsOnce
<1>4. (events = Empty /\ events' = Finish) \/ (events = Result /\ events' = Both)
  BY <1>1, <1>2, <1>3, Queues DEF FinishQueued
<1>5. ResultQueued' <=> ResultQueued
  BY <1>4, QueuesDiffer DEF ResultQueued
<1>6. AqTypeOK'
  BY <1>1, <1>2, <1>4, QueuesTyped DEF AqTypeOK, Signals
<1>7. InStep' /\ ThreadWaits' /\ EndsOnce'
  BY <1>1, <1>2, <1>3, <1>5 DEF InStep, ThreadWaits, EndsOnce
<1> QED
  BY <1>1, <1>2, <1>4, <1>6, <1>7 DEF Inv

\* The slot reads the result on show, which is the next one in turn.
LEMMA NextReadyInv ==
  ASSUME Inv, _s_emitNextReady
  PROVE  Inv'
<1>1. /\ AqTypeOK /\ events \in {Empty, Result, Both, Finish} /\ read = [i \in 1..Len(read) |-> i]
      /\ InStep /\ ThreadWaits /\ EndsOnce
  BY DEF Inv
<1>2. /\ owner = "eventLoop" /\ owner' = "inSlot" /\ read' = Append(read, current)
      /\ events # <<>> /\ Head(events) = "nextReady" /\ events' = Tail(events)
      /\ UNCHANGED <<thread, m_closed, m_type, current, fetched, finishedCount>>
  BY DEF _s_emitNextReady, Deliver
<1>3. (events = Result /\ events' = Empty) \/ (events = Both /\ events' = Finish)
  BY <1>1, <1>2, Queues DEF Empty
<1>4. /\ ResultQueued /\ ~ResultQueued' /\ (FinishQueued' <=> FinishQueued)
  BY <1>3, QueuesDiffer DEF ResultQueued, FinishQueued
<1>5. current = Len(read) + 1 /\ read \in Seq(1..AqMaxResults) /\ Len(read) \in Nat /\ current \in 0..AqMaxResults
  BY <1>1, <1>2, <1>4 DEF InStep, AqTypeOK
<1>6. current \in 1..AqMaxResults
  BY <1>5, AqMaxResultsAssumption
<1>7. read' \in Seq(1..AqMaxResults) /\ Len(read') = current /\ read' = [i \in 1..Len(read') |-> i]
  BY <1>1, <1>2, <1>5, <1>6, NextRead
<1>8. AqTypeOK'
  BY <1>1, <1>2, <1>3, <1>7, QueuesTyped DEF AqTypeOK, Signals
<1>9. finishedCount = 0
  BY <1>1, <1>2 DEF EndsOnce
<1>10. InStep' /\ ThreadWaits' /\ EndsOnce'
  BY <1>1, <1>2, <1>4, <1>7, <1>9 DEF InStep, ThreadWaits, EndsOnce
<1> QED
  BY <1>1, <1>3, <1>7, <1>8, <1>10 DEF Inv

LEMMA FinishedInv ==
  ASSUME Inv, _s_finished
  PROVE  Inv'
<1>1. /\ AqTypeOK /\ events \in {Empty, Result, Both, Finish} /\ read = [i \in 1..Len(read) |-> i]
      /\ InStep /\ ThreadWaits /\ EndsOnce
  BY DEF Inv
<1>2. /\ owner = "eventLoop" /\ owner' = "deleteLater" /\ finishedCount' = finishedCount + 1
      /\ events # <<>> /\ Head(events) = "finished" /\ events' = Tail(events)
      /\ UNCHANGED <<thread, m_closed, m_type, current, fetched, read>>
  BY DEF _s_finished, Deliver
<1>3. events = Finish /\ events' = Empty
  BY <1>1, <1>2, Queues DEF Empty
<1>4. ~ResultQueued /\ ~ResultQueued' /\ ~FinishQueued' /\ FinishQueued
  BY <1>3, QueuesDiffer DEF ResultQueued, FinishQueued
<1>5. thread = "ended" /\ finishedCount = 0 /\ finishedCount' = 1
  BY <1>1, <1>2, <1>4 DEF EndsOnce
<1>6. AqTypeOK'
  BY <1>1, <1>2, <1>3, <1>5, QueuesTyped DEF AqTypeOK, Signals
<1>7. InStep' /\ ThreadWaits' /\ EndsOnce'
  BY <1>1, <1>2, <1>3, <1>4, <1>5 DEF InStep, ThreadWaits, EndsOnce
<1> QED
  BY <1>1, <1>2, <1>3, <1>6, <1>7 DEF Inv

\* next(), close() and the destructor wake the thread if it waits.
LEMMA OwnerInv ==
  ASSUME Inv, next \/ close \/ deleteQuery
  PROVE  Inv'
<1>1. /\ AqTypeOK /\ events \in {Empty, Result, Both, Finish} /\ read = [i \in 1..Len(read) |-> i]
      /\ InStep /\ ThreadWaits /\ EndsOnce
  BY DEF Inv
<1>2. /\ UNCHANGED <<events, m_type, current, fetched, read, finishedCount>>
      /\ thread' = IF thread = "wait" THEN "woken" ELSE thread
      /\ \/ owner = "inSlot" /\ owner' = "eventLoop" /\ m_closed' = m_closed
         \/ owner \in {"eventLoop", "inSlot", "deleteLater"} /\ owner' \in {"eventLoop", "joining"} /\ m_closed' = TRUE
      /\ owner = "deleteLater" => owner' = "joining"
  BY DEF next, close, deleteQuery, wakeNext
<1>3. (ResultQueued' <=> ResultQueued) /\ (FinishQueued' <=> FinishQueued)
  BY <1>2 DEF ResultQueued, FinishQueued
<1>4. AqTypeOK'
  BY <1>1, <1>2 DEF AqTypeOK
<1>5. InStep'
  BY <1>1, <1>2, <1>3 DEF InStep
<1>6. ThreadWaits'
  BY <1>1, <1>2, <1>3 DEF ThreadWaits
<1>7. EndsOnce'
  BY <1>1, <1>2, <1>3 DEF EndsOnce
<1> QED
  BY <1>1, <1>2, <1>4, <1>5, <1>6, <1>7 DEF Inv

LEMMA JoinedInv ==
  ASSUME Inv, joined
  PROVE  Inv'
<1>1. /\ AqTypeOK /\ read = [i \in 1..Len(read) |-> i] /\ InStep /\ ThreadWaits /\ EndsOnce
  BY DEF Inv
<1>2. /\ owner = "joining" /\ owner' = "gone" /\ thread = "ended" /\ events' = Empty
      /\ UNCHANGED <<thread, m_closed, m_type, current, fetched, read, finishedCount>>
  BY DEF joined, Empty
<1>3. ~ResultQueued' /\ ~FinishQueued'
  BY <1>2, QueuesDiffer DEF ResultQueued, FinishQueued
<1>4. AqTypeOK'
  BY <1>1, <1>2, QueuesTyped DEF AqTypeOK, Signals
<1>5. InStep' /\ ThreadWaits' /\ EndsOnce'
  BY <1>1, <1>2, <1>3 DEF InStep, ThreadWaits, EndsOnce
<1> QED
  BY <1>1, <1>2, <1>4, <1>5 DEF Inv

LEMMA UnchangedInv ==
  ASSUME Inv, UNCHANGED aqVars
  PROVE  Inv'
<1>1. (ResultQueued' <=> ResultQueued) /\ (FinishQueued' <=> FinishQueued)
  BY DEF aqVars, ResultQueued, FinishQueued
<1>2. AqTypeOK'
  BY DEF aqVars, Inv, AqTypeOK
<1>3. read' = [i \in 1..Len(read') |-> i]
  BY DEF aqVars, Inv
<1>4. InStep'
  BY <1>1 DEF aqVars, Inv, InStep
<1>5. ThreadWaits'
  BY <1>1 DEF aqVars, Inv, ThreadWaits
<1>6. EndsOnce'
  BY <1>1 DEF aqVars, Inv, EndsOnce
<1> QED
  BY <1>2, <1>3, <1>4, <1>5, <1>6 DEF aqVars, Inv

LEMMA NextInv == Inv /\ [AqNext]_aqVars => Inv'
  BY ThreadStep, CacheInv, RunEndInv, NextReadyInv, FinishedInv, OwnerInv, JoinedInv, UnchangedInv
     DEF AqNext, run

LEMMA InvHolds == AqSpec => []Inv
  BY InitInv, NextInv, PTL DEF AqSpec
-----------------------------------------------------------------------------
(***************************************************************************)
(* The slots connected to nextReady read the results 1, 2, 3, ... in turn, *)
(* none lost and none twice, and finished() comes once, when no nextReady  *)
(* is left and, unless the query was closed, every result was shown.       *)
(***************************************************************************)
THEOREM ResultsInTurn == AqSpec => []SignalsExact
<1>1. Inv => SignalsExact
  <2> SUFFICES ASSUME Inv PROVE SignalsExact
    OBVIOUS
  <2>1. AqTypeOK /\ read = [i \in 1..Len(read) |-> i] /\ InStep /\ EndsOnce
    BY DEF Inv
  <2>2. \A i, j \in DOMAIN events : events[i] = "nextReady" /\ events[j] = "nextReady" => i = j
    BY DEF Inv, Empty, Result, Both, Finish
  <2>3. finishedCount <= 1
    BY <2>1 DEF EndsOnce
  <2>4. finishedCount = 1 => events = <<>>
    BY <2>1 DEF EndsOnce, Empty
  <2>5. ASSUME finishedCount = 1, ~m_closed PROVE Len(read) = fetched
    <3>1. ~ResultQueued /\ owner # "gone" /\ thread = "ended"
      BY <2>1, <2>5, QueuesDiffer DEF EndsOnce, ResultQueued
    <3> QED
      BY <2>1, <2>5, <3>1 DEF InStep
  <2> QED
    BY <2>1, <2>2, <2>3, <2>4, <2>5 DEF SignalsExact
<1> QED
  BY <1>1, InvHolds, PTL
=============================================================================
