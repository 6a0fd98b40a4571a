------------------------- MODULE AsyncIterator_proofs -----------------------
(***************************************************************************)
(* Proofs about AsyncIterator for a cache of any size and any number of    *)
(* results: the consumer gets what the parent's iterator delivered, and    *)
(* the cache keeps its size.                                               *)
(***************************************************************************)
EXTENDS AsyncIterator, SequenceTheorems, TLAPS

(***************************************************************************)
(* Strengthening: wherever the worker is about to fetch without another    *)
(* look at the cache there is room, and something was fetched before it is *)
(* enqueued.                                                               *)
(***************************************************************************)
RoomToFetch ==
  consumer # "closed" =>
    /\ Len(m_cache) <= CacheSize
    /\ worker \in {"spaceWoken", "fetch", "enqueue"} => Len(m_cache) < CacheSize

FetchedBefore == worker = "enqueue" => aiFetched > 0

Inv == AiTypeOK /\ InOrder /\ RoomToFetch /\ FetchedBefore
-----------------------------------------------------------------------------
(***************************************************************************)
(* A result that moves from the head of the cache to the end of what the   *)
(* consumer has leaves the two together as they were.                      *)
(***************************************************************************)
LEMMA TakeHead ==
  ASSUME NEW S, NEW s \in Seq(S), NEW t \in Seq(S), t # <<>>
  PROVE  /\ Append(s, Head(t)) \in Seq(S)
         /\ Tail(t) \in Seq(S)
         /\ Len(Tail(t)) < Len(t)
         /\ Append(s, Head(t)) \o Tail(t) = s \o t
<1>1. /\ Head(t) \in S /\ Tail(t) \in Seq(S) /\ Len(Tail(t)) = Len(t) - 1
      /\ \A i \in 1..Len(Tail(t)) : Tail(t)[i] = t[i + 1]
      /\ Head(t) = t[1] /\ Len(t) \in Nat \ {0}
  BY HeadTailProperties, EmptySeq
<1> DEFINE h == Head(t)
           r == Tail(t)
           a == Append(s, h)
<1>2. /\ a \in Seq(S) /\ Len(a) = Len(s) + 1 /\ a[Len(s) + 1] = h
      /\ \A i \in 1..Len(s) : a[i] = s[i]
  BY <1>1, AppendProperties
<1>3. Len(s) \in Nat /\ Len(r) \in Nat
  BY <1>1, LenProperties
<1> HIDE DEF h, r, a
<1>4. /\ a \o r \in Seq(S) /\ Len(a \o r) = Len(a) + Len(r)
      /\ \A i \in 1..(Len(a) + Len(r)) : (a \o r)[i] = IF i <= Len(a) THEN a[i] ELSE r[i - Len(a)]
  <2>1. a \in Seq(S) /\ r \in Seq(S)
    BY <1>1, <1>2 DEF r
  <2> QED
    BY <2>1, ConcatProperties, Zenon
<1>5. /\ s \o t \in Seq(S) /\ Len(s \o t) = Len(s) + Len(t)
      /\ \A i \in 1..(Len(s) + Len(t)) : (s \o t)[i] = IF i <= Len(s) THEN s[i] ELSE t[i - Len(s)]
  BY ConcatProperties, Zenon
<1>6. /\ Len(r) = Len(t) - 1 /\ \A i \in 1..Len(r) : r[i] = t[i + 1]
      /\ h = t[1] /\ Len(t) \in Nat \ {0}
  BY <1>1 DEF r, h
<1> DEFINE u == a \o r
           v == s \o t
<1>7. ASSUME NEW i \in 1..(Len(s) + Len(t)) PROVE u[i] = v[i]
  <2>1. /\ i \in 1..(Len(a) + Len(r)) => u[i] = IF i <= Len(a) THEN a[i] ELSE r[i - Len(a)]
        /\ v[i] = IF i <= Len(s) THEN s[i] ELSE t[i - Len(s)]
    BY <1>4, <1>5, Zenon
  <2> HIDE DEF u, v
  <2>2. i \in Nat /\ i \in 1..(Len(a) + Len(r))
    BY <1>2, <1>3, <1>6
  <2>3. CASE i <= Len(s)
    BY <1>2, <1>3, <2>1, <2>2, <2>3
  <2>4. CASE i = Len(s) + 1
    <3>1. u[i] = h
      BY <1>2, <1>3, <2>1, <2>2, <2>4
    <3>2. v[i] = t[1]
      BY <1>3, <2>1, <2>2, <2>4
    <3> QED
      BY <3>1, <3>2, <1>6
  <2>5. CASE i > Len(s) + 1
    <3> DEFINE j == i - Len(s) - 1
    <3>1. j \in 1..Len(r) /\ j + 1 = i - Len(s) /\ i - Len(a) = j
      BY <1>2, <1>3, <1>6, <2>2, <2>5
    <3>2. ~(i <= Len(a)) /\ ~(i <= Len(s))
      BY <1>2, <1>3, <2>2, <2>5
    <3> HIDE DEF j
    <3>3. u[i] = r[j]
      BY <2>1, <2>2, <3>1, <3>2
    <3>4. v[i] = t[j + 1]
      BY <2>1, <3>1, <3>2
    <3> QED
      BY <3>1, <3>3, <3>4, <1>6
  <2> QED
    BY <1>3, <2>2, <2>3, <2>4, <2>5
<1>8. u \in Seq(S) /\ v \in Seq(S) /\ Len(u) = Len(v) /\ Len(u) = Len(s) + Len(t)
  <2>1. u \in Seq(S) /\ v \in Seq(S) /\ Len(u) = Len(a) + Len(r) /\ Len(v) = Len(s) + Len(t)
    BY <1>4, <1>5, Zenon
  <2> HIDE DEF u, v
  <2> QED
    BY <2>1, <1>2, <1>3, <1>6
<1>9. u = v
  <2> HIDE DEF u, v
  <2> QED
    BY <1>7, <1>8, SeqEqual
<1> QED
  BY <1>1, <1>2, <1>9 DEF a, h, r

(***************************************************************************)
(* A result appended to the cache is appended to the whole.                *)
(***************************************************************************)
FirstResults(n) == [i \in 1..n |-> i]

LEMMA AppendBehind ==
  ASSUME NEW s \in Seq(Int), NEW t \in Seq(Int), NEW n \in Nat, s \o t = FirstResults(n)
  PROVE  s \o Append(t, n + 1) = FirstResults(n + 1)
<1> DEFINE w == s \o t
           b == Append(t, n + 1)
           u == s \o b
<1>1. Len(s) \in Nat /\ Len(t) \in Nat
  BY LenProperties
<1>2. /\ w \in Seq(Int) /\ Len(w) = Len(s) + Len(t)
      /\ \A i \in 1..(Len(s) + Len(t)) : w[i] = IF i <= Len(s) THEN s[i] ELSE t[i - Len(s)]
  BY ConcatProperties, Zenon
<1>3. w = FirstResults(n)
  OBVIOUS
<1> HIDE DEF w
<1>4. Len(w) = n /\ \A i \in 1..n : w[i] = i
  <2>1. DOMAIN w = 1..n /\ \A i \in 1..n : w[i] = i
    BY <1>3 DEF FirstResults
  <2>2. DOMAIN w = 1..Len(w) /\ Len(w) \in Nat
    BY <1>2, LenProperties, Zenon
  <2> QED
    BY <2>1, <2>2
<1>5. /\ b \in Seq(Int) /\ Len(b) = Len(t) + 1 /\ b[Len(t) + 1] = n + 1
      /\ \A i \in 1..Len(t) : b[i] = t[i]
  <2> DEFINE k == n + 1
  <2>1. k \in Int
    OBVIOUS
  <2> HIDE DEF k
  <2> DEFINE c == Append(t, k)
  <2>2. /\ c \in Seq(Int) /\ Len(c) = Len(t) + 1 /\ c[Len(t) + 1] = k
        /\ \A i \in 1..Len(t) : c[i] = t[i]
    BY <2>1, AppendProperties
  <2> QED
    BY <2>2, Zenon DEF k
<1> HIDE DEF b
<1>6. /\ u \in Seq(Int) /\ Len(u) = Len(s) + Len(b)
      /\ \A i \in 1..(Len(s) + Len(b)) : u[i] = IF i <= Len(s) THEN s[i] ELSE b[i - Len(s)]
  <2>1. b \in Seq(Int)
    BY <1>5, Zenon
  <2> QED
    BY <2>1, ConcatProperties, SMT
<1> HIDE DEF u
<1>7. Len(s) + Len(t) = n /\ Len(u) = n + 1 /\ Len(s) + Len(b) = n + 1
  BY <1>1, <1>2, <1>4, <1>5, <1>6
<1>8. ASSUME NEW i \in 1..(n + 1) PROVE u[i] = i
  <2>1. u[i] = IF i <= Len(s) THEN s[i] ELSE b[i - Len(s)]
    BY <1>6, <1>7
  <2>2. CASE i = n + 1
    BY <1>1, <1>5, <1>7, <2>1, <2>2
  <2>3. CASE i <= n
    <3>1. w[i] = i /\ w[i] = IF i <= Len(s) THEN s[i] ELSE t[i - Len(s)]
      <4>1. i \in 1..n /\ i \in 1..(Len(s) + Len(t))
        BY <1>7, <2>3
      <4> QED
        BY <1>2, <1>4, <4>1
    <3>2. CASE i <= Len(s)
      BY <2>1, <3>1, <3>2
    <3>3. CASE ~(i <= Len(s))
      <4>1. i - Len(s) \in 1..Len(t)
        BY <1>1, <1>7, <2>3, <3>3
      <4> QED
        BY <1>5, <2>1, <3>1, <3>3, <4>1
    <3> QED
      BY <3>2, <3>3
  <2> QED
    BY <2>2, <2>3
<1> DEFINE f == FirstResults(n + 1)
<1>9. f \in Seq(Int) /\ Len(f) = n + 1 /\ \A i \in 1..(n + 1) : f[i] = i
  BY IsASeq, LenProperties DEF FirstResults
<1> HIDE DEF f
<1>10. u = f
  BY <1>6, <1>7, <1>8, <1>9, SeqEqual
<1> QED
  BY <1>10 DEF u, b, f
-----------------------------------------------------------------------------
LEMMA InitInv == AiInit => Inv
<1> SUFFICES ASSUME AiInit PROVE Inv
  OBVIOUS
<1>1. AiTypeOK
  <2>1. <<>> \in Seq(1..AiMaxResults)
    OBVIOUS
  <2>2. 0 \in 0..AiMaxResults
    BY AiMaxResultsAssumption
  <2> QED
    BY <2>1, <2>2, Zenon DEF AiInit, AiTypeOK
<1>2. InOrder
  BY DEF AiInit, InOrder
<1>3. RoomToFetch /\ FetchedBefore
  BY CacheAssumption DEF AiInit, RoomToFetch, FetchedBefore
<1> QED
  BY <1>1, <1>2, <1>3 DEF Inv

(***************************************************************************)
(* The steps of iterate().  Only fetch and enqueueCurrent change what is   *)
(* on its way from the parent's iterator into the cache.                   *)
(***************************************************************************)
LEMMA WorkerWaitsInv ==
  ASSUME Inv, iterateStart \/ iterateLoop \/ waitForSpace \/ endOfRound \/ closeParent
  PROVE  Inv'
<1>1. AiTypeOK /\ InOrder /\ RoomToFetch /\ FetchedBefore
  BY DEF Inv
<1>2. UNCHANGED <<m_cache, got, aiFetched>> /\ worker # "enqueue" /\ worker' # "enqueue"
  BY DEF iterateStart, iterateLoop, waitForSpace, endOfRound, closeParent, Worker, sharedVars
<1>3. AiTypeOK'
  BY <1>1, Zenon DEF AiTypeOK, iterateStart, iterateLoop, waitForSpace, endOfRound, closeParent, Worker, sharedVars
<1>4. InOrder'
  BY <1>1, <1>2 DEF InOrder
<1>5. RoomToFetch'
  <2> SUFFICES ASSUME consumer' # "closed" PROVE RoomToFetch'
    BY DEF RoomToFetch
  <2>1. consumer # "closed"
    BY DEF iterateStart, iterateLoop, waitForSpace, endOfRound, closeParent
  <2>2. worker' = "fetch" => worker = "spaceWoken" \/ ~cacheFull
    BY DEF iterateStart, iterateLoop, waitForSpace, endOfRound, closeParent, Worker
  <2>3. worker' # "spaceWoken"
    BY DEF iterateStart, iterateLoop, waitForSpace, endOfRound, closeParent, Worker
  <2>4. Len(m_cache) \in Nat /\ CacheSize \in Nat
    BY <1>1, CacheAssumption, LenProperties DEF AiTypeOK
  <2> QED
    BY <1>1, <1>2, <2>1, <2>2, <2>3, <2>4 DEF RoomToFetch, cacheFull
<1>6. FetchedBefore'
  BY <1>2 DEF FetchedBefore
<1> QED
  BY <1>3, <1>4, <1>5, <1>6 DEF Inv

LEMMA FetchInv ==
  ASSUME Inv, fetch
  PROVE  Inv'
<1>1. AiTypeOK /\ InOrder /\ RoomToFetch /\ FetchedBefore
  BY DEF Inv
<1>2. worker = "fetch" /\ UNCHANGED <<consumer, m_cache, got>>
  BY DEF fetch, Worker, sharedVars
<1>3. aiFetched \in Nat
  BY <1>1, AiMaxResultsAssumption DEF AiTypeOK
<1>4. AiTypeOK'
  BY <1>1, AiMaxResultsAssumption DEF AiTypeOK, fetch, Worker, sharedVars
<1>5. InOrder'
  <2>1. CASE worker' = "enqueue" /\ aiFetched' = aiFetched + 1
    BY <1>1, <1>2, <1>3, <2>1 DEF InOrder
  <2>2. CASE worker' = "endOfRound" /\ UNCHANGED aiFetched
    BY <1>1, <1>2, <2>2 DEF InOrder
  <2> QED
    BY <2>1, <2>2 DEF fetch, Worker
<1>6. RoomToFetch'
  BY <1>1, <1>2 DEF RoomToFetch, fetch, Worker
<1>7. FetchedBefore'
  BY <1>3 DEF FetchedBefore, fetch, Worker
<1> QED
  BY <1>4, <1>5, <1>6, <1>7 DEF Inv

LEMMA EnqueueInv ==
  ASSUME Inv, enqueueCurrent
  PROVE  Inv'
<1>1. AiTypeOK /\ InOrder /\ RoomToFetch /\ FetchedBefore
  BY DEF Inv
<1>2. /\ worker = "enqueue" /\ m_cache' = Append(m_cache, aiFetched)
      /\ UNCHANGED <<consumer, m_atEnd, aiFetched, iteratorOpen, got, early>>
      /\ worker' \in {"endOfRound", "fetch"}
      /\ worker' = "fetch" => Len(m_cache') < CacheSize
  BY DEF enqueueCurrent
<1>3. aiFetched \in 1..AiMaxResults
  BY <1>1, <1>2, AiMaxResultsAssumption DEF AiTypeOK, FetchedBefore
<1>4. /\ m_cache' \in Seq(1..AiMaxResults) /\ Len(m_cache') = Len(m_cache) + 1
      /\ Len(m_cache) \in Nat
  BY <1>1, <1>2, <1>3, AppendProperties, LenProperties DEF AiTypeOK
<1>5. AiTypeOK'
  <2>1. m_error' \in BOOLEAN /\ haveNext' \in BOOLEAN
    BY <1>1 DEF AiTypeOK, enqueueCurrent
  <2> QED
    BY <1>1, <1>2, <1>4, <2>1 DEF AiTypeOK
<1>6. InOrder'
  <2>1. got \in Seq(Int) /\ m_cache \in Seq(Int)
    BY <1>1, SeqMonotonic, AiMaxResultsAssumption DEF AiTypeOK
  <2>2. got \o m_cache = FirstResults(aiFetched - 1)
    BY <1>1, <1>2 DEF InOrder, FirstResults
  <2>3. aiFetched - 1 \in Nat /\ aiFetched - 1 + 1 = aiFetched
    BY <1>3, AiMaxResultsAssumption
  <2>4. got \o Append(m_cache, aiFetched - 1 + 1) = FirstResults(aiFetched - 1 + 1)
    BY <2>1, <2>2, <2>3, AppendBehind
  <2>5. got \o Append(m_cache, aiFetched) = FirstResults(aiFetched)
    BY <2>3, <2>4
  <2> QED
    BY <1>2, <2>5 DEF InOrder, FirstResults
<1>7. RoomToFetch'
  BY <1>1, <1>2, <1>4, CacheAssumption DEF RoomToFetch
<1>8. FetchedBefore'
  BY <1>2 DEF FetchedBefore
<1> QED
  BY <1>5, <1>6, <1>7, <1>8 DEF Inv
-----------------------------------------------------------------------------
(***************************************************************************)
(* The consumer takes the head of the cache, waits, or sees the end.       *)
(***************************************************************************)
LEMMA TakeInv ==
  ASSUME Inv, takeNext, consumer # "closed",
         UNCHANGED <<worker, m_atEnd, m_error, haveNext, aiFetched, iteratorOpen, early>>
  PROVE  Inv'
<1>1. AiTypeOK /\ InOrder /\ RoomToFetch /\ FetchedBefore
  BY DEF Inv
<1>2. Len(m_cache) \in Nat
  BY <1>1, LenProperties DEF AiTypeOK
<1>3. CASE m_cache # <<>> /\ got' = Append(got, Head(m_cache)) /\ m_cache' = Tail(m_cache) /\ consumer' = "idle"
  <2>1. /\ got' \in Seq(1..AiMaxResults) /\ m_cache' \in Seq(1..AiMaxResults)
        /\ Len(m_cache') < Len(m_cache) /\ got' \o m_cache' = got \o m_cache
    <3>1. got \in Seq(1..AiMaxResults) /\ m_cache \in Seq(1..AiMaxResults) /\ m_cache # <<>>
      BY <1>1, <1>3 DEF AiTypeOK
    <3>2. /\ Append(got, Head(m_cache)) \in Seq(1..AiMaxResults) /\ Tail(m_cache) \in Seq(1..AiMaxResults)
          /\ Len(Tail(m_cache)) < Len(m_cache)
          /\ Append(got, Head(m_cache)) \o Tail(m_cache) = got \o m_cache
      BY <3>1, TakeHead, Zenon
    <3> QED
      BY <1>3, <3>2, Zenon
  <2>2. Len(m_cache') \in Nat
    BY <2>1, LenProperties
  <2>3. AiTypeOK'
    BY <1>1, <1>3, <2>1 DEF AiTypeOK
  <2>4. InOrder'
    BY <1>1, <2>1 DEF InOrder
  <2>5. RoomToFetch'
    BY <1>1, <1>2, <2>1, <2>2, CacheAssumption DEF RoomToFetch
  <2>6. FetchedBefore'
    BY <1>1 DEF FetchedBefore
  <2> QED
    BY <2>3, <2>4, <2>5, <2>6 DEF Inv
<1>4. CASE consumer' = "end" /\ UNCHANGED <<m_cache, got>>
  <2>1. AiTypeOK' /\ InOrder' /\ FetchedBefore'
    BY <1>1, <1>4 DEF AiTypeOK, InOrder, FetchedBefore
  <2>2. RoomToFetch'
    BY <1>1, <1>4 DEF RoomToFetch
  <2> QED
    BY <2>1, <2>2 DEF Inv
<1> QED
  BY <1>3, <1>4 DEF takeNext

(***************************************************************************)
(* A next() that waits wakes a worker that waits for space: the cache is   *)
(* empty then, which is why the worker need not look at it again.          *)
(***************************************************************************)
LEMMA GetNextInv ==
  ASSUME Inv, getNext
  PROVE  Inv'
<1>1. AiTypeOK /\ InOrder /\ RoomToFetch /\ FetchedBefore
  BY DEF Inv
<1>2. CASE /\ m_cache = <<>> /\ ~m_atEnd /\ wakeIterate /\ consumer' = "nextWait"
           /\ UNCHANGED <<m_cache, got, m_atEnd, m_error, haveNext, aiFetched, iteratorOpen, early>>
  <2>1. worker' # "enqueue" <=> worker # "enqueue"
    BY <1>2 DEF wakeIterate
  <2>2. AiTypeOK'
    BY <1>1, <1>2 DEF AiTypeOK, wakeIterate
  <2>3. InOrder' /\ FetchedBefore'
    BY <1>1, <1>2, <2>1 DEF InOrder, FetchedBefore
  <2>4. Len(m_cache') = 0
    BY <1>2
  <2>5. RoomToFetch'
    BY <2>4, CacheAssumption DEF RoomToFetch
  <2> QED
    BY <2>2, <2>3, <2>5 DEF Inv
<1>3. CASE takeNext /\ UNCHANGED <<worker, m_atEnd, m_error, haveNext, aiFetched, iteratorOpen, early>>
  BY <1>3, TakeInv DEF getNext
<1> QED
  BY <1>2, <1>3 DEF getNext

LEMMA StopInv ==
  ASSUME Inv, stopIterating
  PROVE  Inv'
<1>1. AiTypeOK /\ InOrder /\ RoomToFetch /\ FetchedBefore
  BY DEF Inv
<1>2. UNCHANGED <<m_cache, got, aiFetched>> /\ consumer' = "closed" /\ (worker' = "enqueue" <=> worker = "enqueue")
  BY DEF stopIterating, wakeIterate
<1>3. AiTypeOK'
  BY <1>1 DEF AiTypeOK, stopIterating, wakeIterate
<1>4. InOrder' /\ FetchedBefore'
  BY <1>1, <1>2 DEF InOrder, FetchedBefore
<1>5. RoomToFetch'
  BY <1>2 DEF RoomToFetch
<1> QED
  BY <1>3, <1>4, <1>5 DEF Inv
-----------------------------------------------------------------------------
LEMMA StepInv == Inv /\ [AiNext]_aiVars => Inv'
<1> SUFFICES ASSUME Inv, [AiNext]_aiVars PROVE Inv'
  OBVIOUS
<1>1. CASE iterateStart \/ iterateLoop \/ waitForSpace \/ endOfRound \/ closeParent
  BY <1>1, WorkerWaitsInv
<1>2. CASE fetch
  BY <1>2, FetchInv
<1>3. CASE enqueueCurrent
  BY <1>3, EnqueueInv
<1>4. CASE getNext
  BY <1>4, GetNextInv
<1>5. CASE getNextWoken
  BY <1>5, TakeInv DEF getNextWoken
<1>6. CASE stopIterating
  BY <1>6, StopInv
<1>7. CASE UNCHANGED aiVars
  BY <1>7 DEF aiVars, sharedVars, Inv, AiTypeOK, InOrder, RoomToFetch, FetchedBefore
<1> QED
  BY <1>1, <1>2, <1>3, <1>4, <1>5, <1>6, <1>7 DEF AiNext, iterate

(***************************************************************************)
(* For a cache of any size and any number of results, what the consumer    *)
(* got and what is cached is what the parent's iterator delivered, in      *)
(* order, and until close() the cache never grows beyond s_cacheSize       *)
(* (AsyncIteratorBackend::iterate, getNext and closeIterator).             *)
(***************************************************************************)
THEOREM ResultsInOrder == AiSpec => []CacheExact
<1>1. Inv => CacheExact
  BY DEF Inv, CacheExact, RoomToFetch
<1> QED
  BY <1>1, InitInv, StepInv, PTL DEF AiSpec
=============================================================================
