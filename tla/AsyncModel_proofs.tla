-------------------------- MODULE AsyncModel_proofs --------------------------
(***************************************************************************)
(* Proofs about AsyncModel for any sets of commands and of direct list     *)
(* calls: type correctness, a timer for every runnable command, no write   *)
(* below an open iterator, and the order of the writes.                    *)
(***************************************************************************)
EXTENDS AsyncModel, FiniteSetTheorems, SequenceTheorems, TLAPS

(***************************************************************************)
(* Strengthening: an open iterator of the parent is counted through its    *)
(* Sync handle, and the timers die with the model.                         *)
(***************************************************************************)
HandlesCover ==
  /\ destroyed => timers = 0
  /\ ~destroyed => \A k \in parentOpen : <<k, "Sync">> \in openIterators

Inv == AmTypeOK /\ NoLostTimer /\ HandlesCover
-----------------------------------------------------------------------------
(***************************************************************************)
(* Taking a command out of the queue leaves a queue.                       *)
(***************************************************************************)
LEMMA RemoveAtType ==
  ASSUME NEW S, NEW s \in Seq(S), NEW i \in DOMAIN s
  PROVE  RemoveAt(s, i) \in Seq(S)
<1>1. i \in 1..Len(s) /\ Len(s) \in Nat
  OBVIOUS
<1>2. SubSeq(s, 1, i - 1) \in Seq(S)
  BY <1>1
<1>3. SubSeq(s, i + 1, Len(s)) \in Seq(S)
  BY <1>1
<1> QED
  BY <1>2, <1>3 DEF RemoveAt

(***************************************************************************)
(* removeIterator starts one timer for each handle it takes out.           *)
(***************************************************************************)
LEMMA HandlesCounted ==
  ASSUME AmTypeOK, NEW k
  PROVE  /\ Cardinality(HandlesOf(k)) \in Nat
         /\ Cardinality(HandlesOf(k)) = 0 => HandlesOf(k) = {}
<1>1. HandlesOf(k) \in SUBSET ({<<k, "Sync">>} \cup {<<k, "Async">>})
  BY DEF HandlesOf, AmTypeOK
<1>2. IsFiniteSet({<<k, "Sync">>} \cup {<<k, "Async">>})
  <2>1. IsFiniteSet({<<k, "Sync">>}) /\ IsFiniteSet({<<k, "Async">>})
    BY FS_Singleton
  <2> DEFINE A == {<<k, "Sync">>}
             B == {<<k, "Async">>}
  <2> HIDE DEF A, B
  <2>2. IsFiniteSet(A \cup B)
    BY <2>1, FS_Union DEF A, B
  <2> QED
    BY <2>2 DEF A, B
<1>3. IsFiniteSet(HandlesOf(k))
  BY <1>1, <1>2, FS_Subset
<1> QED
  BY <1>3, FS_EmptySet, FS_CardinalityType
-----------------------------------------------------------------------------
LEMMA InitInv == AmInit => Inv
<1> SUFFICES ASSUME AmInit PROVE Inv
  OBVIOUS
<1>1. AmTypeOK
  <2>1. <<>> \in Seq(CommandRecords)
    OBVIOUS
  <2> QED
    BY <2>1, Zenon DEF AmInit, AmTypeOK
<1>2. NoLostTimer
  BY DEF AmInit, NoLostTimer, Runnable
<1>3. HandlesCover
  BY DEF AmInit, HandlesCover
<1> QED
  BY <1>1, <1>2, <1>3 DEF Inv

(***************************************************************************)
(* enqueueCommand starts a timer of its own.                               *)
(***************************************************************************)
LEMMA EnqueueInv ==
  ASSUME Inv, NEW c \in Commands, NEW kind \in Kinds, enqueueCommand(c, kind)
  PROVE  Inv'
<1>1. AmTypeOK /\ NoLostTimer /\ HandlesCover
  BY DEF Inv
<1>2. [id |-> c, kind |-> kind] \in CommandRecords
  BY DEF CommandRecords
<1>3. AmTypeOK'
  BY <1>1, <1>2 DEF AmTypeOK, enqueueCommand
<1>4. NoLostTimer'
  BY <1>1 DEF NoLostTimer, enqueueCommand, AmTypeOK
<1>5. HandlesCover'
  BY <1>1 DEF HandlesCover, enqueueCommand
<1> QED
  BY <1>3, <1>4, <1>5 DEF Inv

(***************************************************************************)
(* execute keeps the types, and counts the iterator it opens.              *)
(***************************************************************************)
LEMMA ExecuteInv ==
  ASSUME AmTypeOK, HandlesCover, NEW c \in CommandRecords, execute(c), UNCHANGED destroyed
  PROVE  /\ openIterators' \subseteq (Commands \cup SyncLists) \X {"Sync", "Async"}
         /\ parentOpen' \subseteq Commands \cup SyncLists
         /\ held' \subseteq Commands \cup SyncLists
         /\ ready' \in Seq(CommandRecords) /\ executed' \in Seq(CommandRecords)
         /\ ~destroyed' => \A k \in parentOpen' : <<k, "Sync">> \in openIterators'
<1>1. c.id \in Commands
  BY DEF CommandRecords
<1>2. ready' \in Seq(CommandRecords) /\ executed' \in Seq(CommandRecords)
  BY DEF execute, AmTypeOK
<1>3. CASE c.kind = "list"
  BY <1>1, <1>2, <1>3 DEF execute, AmTypeOK, HandlesCover
<1>4. CASE c.kind # "list"
  BY <1>1, <1>2, <1>4 DEF execute, AmTypeOK, HandlesCover
<1> QED
  BY <1>3, <1>4

(***************************************************************************)
(* _s_executeNextCommand gives its timer up only when nothing may run, or  *)
(* when the queue is empty.                                                *)
(***************************************************************************)
LEMMA ExecuteNextInv ==
  ASSUME Inv, _s_executeNextCommand
  PROVE  Inv'
<1>1. AmTypeOK /\ NoLostTimer /\ HandlesCover
  BY DEF Inv
<1>2. /\ timers > 0 /\ timers \in Nat /\ ~destroyed /\ ~destroyed'
      /\ UNCHANGED <<asked, delivered, destroyed>>
  BY <1>1 DEF _s_executeNextCommand, HandlesCover, AmTypeOK
<1>3. CASE /\ Runnable = {} /\ timers' = timers - 1
           /\ UNCHANGED <<commandQueue, openIterators, parentOpen, held, ready, executed>>
  <2>1. AmTypeOK'
    BY <1>1, <1>2, <1>3 DEF AmTypeOK
  <2>2. Runnable' = {}
    BY <1>3 DEF Runnable, MayRun
  <2>3. NoLostTimer' /\ HandlesCover'
    BY <1>1, <1>2, <1>3, <2>2 DEF NoLostTimer, HandlesCover
  <2> QED
    BY <2>1, <2>3 DEF Inv
<1>4. ASSUME NEW i \in Runnable, execute(commandQueue[i]),
             commandQueue' = RemoveAt(commandQueue, i),
             timers' = IF commandQueue' # <<>> THEN timers ELSE timers - 1
      PROVE  Inv'
  <2>1. i \in DOMAIN commandQueue /\ commandQueue \in Seq(CommandRecords)
    BY <1>1 DEF Runnable, AmTypeOK
  <2>2. commandQueue' \in Seq(CommandRecords) /\ commandQueue[i] \in CommandRecords
    BY <1>4, <2>1, RemoveAtType
  <2>3. /\ openIterators' \subseteq (Commands \cup SyncLists) \X {"Sync", "Async"}
        /\ parentOpen' \subseteq Commands \cup SyncLists
        /\ held' \subseteq Commands \cup SyncLists
        /\ ready' \in Seq(CommandRecords) /\ executed' \in Seq(CommandRecords)
        /\ \A k \in parentOpen' : <<k, "Sync">> \in openIterators'
    BY <1>1, <1>2, <1>4, <2>2, ExecuteInv
  <2>4. timers' \in Nat
    BY <1>2, <1>4
  <2>5. AmTypeOK'
    BY <1>1, <1>2, <2>2, <2>3, <2>4 DEF AmTypeOK
  <2>6. NoLostTimer'
    <3>1. CASE commandQueue' = <<>>
      BY <3>1 DEF NoLostTimer, Runnable
    <3>2. CASE commandQueue' # <<>>
      BY <1>2, <1>4, <3>2 DEF NoLostTimer
    <3> QED
      BY <3>1, <3>2
  <2>7. HandlesCover'
    BY <1>2, <2>3 DEF HandlesCover
  <2> QED
    BY <2>5, <2>6, <2>7 DEF Inv
<1> QED
  BY <1>3, <1>4 DEF _s_executeNextCommand

LEMMA SlotResultReadyInv ==
  ASSUME Inv, slotResultReady
  PROVE  Inv'
<1>1. AmTypeOK /\ NoLostTimer /\ HandlesCover
  BY DEF Inv
<1>2. Head(ready).id \in Commands /\ Tail(ready) \in Seq(CommandRecords)
  <2>1. Head(ready) \in CommandRecords /\ Tail(ready) \in Seq(CommandRecords)
    BY <1>1 DEF AmTypeOK, slotResultReady
  <2> QED
    BY <2>1 DEF CommandRecords
<1>3. AmTypeOK'
  BY <1>1, <1>2 DEF AmTypeOK, slotResultReady
<1>4. NoLostTimer' /\ HandlesCover'
  BY <1>1 DEF NoLostTimer, HandlesCover, Runnable, MayRun, slotResultReady
<1> QED
  BY <1>3, <1>4 DEF Inv

(***************************************************************************)
(* Opening an iterator makes no command runnable.                          *)
(***************************************************************************)
LEMMA ListStatementsInv ==
  ASSUME Inv, NEW k \in SyncLists, listStatements(k)
  PROVE  Inv'
<1>1. AmTypeOK /\ NoLostTimer /\ HandlesCover
  BY DEF Inv
<1>2. AmTypeOK'
  BY <1>1 DEF AmTypeOK, listStatements
<1>3. Runnable' \subseteq Runnable
  BY DEF Runnable, MayRun, listStatements
<1>4. NoLostTimer'
  BY <1>1, <1>3 DEF NoLostTimer, listStatements
<1>5. HandlesCover'
  BY <1>1 DEF HandlesCover, listStatements
<1> QED
  BY <1>2, <1>4, <1>5 DEF Inv

(***************************************************************************)
(* Closing the last iterator makes the writes runnable, and starts timers. *)
(***************************************************************************)
LEMMA CloseIteratorInv ==
  ASSUME Inv, NEW k \in Commands \cup SyncLists, closeIterator(k)
  PROVE  Inv'
<1>1. AmTypeOK /\ NoLostTimer /\ HandlesCover
  BY DEF Inv
<1>2. UNCHANGED <<commandQueue, ready, asked, executed, delivered, destroyed>>
  BY DEF closeIterator
<1>3. held' = held \ {k} /\ parentOpen' = parentOpen \ {k}
  BY DEF closeIterator
<1>4. CASE /\ ~destroyed /\ openIterators' = openIterators \ HandlesOf(k)
           /\ timers' = timers + Cardinality(HandlesOf(k))
  <2>1. timers' \in Nat /\ timers' >= timers
    BY <1>1, <1>4, HandlesCounted DEF AmTypeOK
  <2>2. AmTypeOK'
    BY <1>1, <1>2, <1>3, <1>4, <2>1 DEF AmTypeOK
  <2>3. NoLostTimer'
    <3>1. CASE Cardinality(HandlesOf(k)) = 0
      <4>1. openIterators' = openIterators /\ timers' = timers
        BY <1>1, <1>4, <3>1, HandlesCounted DEF AmTypeOK
      <4> QED
        BY <1>1, <1>2, <4>1 DEF NoLostTimer, Runnable, MayRun
    <3>2. CASE Cardinality(HandlesOf(k)) # 0
      BY <1>1, <1>4, <3>2, HandlesCounted DEF NoLostTimer, AmTypeOK
    <3> QED
      BY <3>1, <3>2
  <2>4. HandlesCover'
    BY <1>1, <1>2, <1>3, <1>4 DEF HandlesCover, HandlesOf
  <2> QED
    BY <2>2, <2>3, <2>4 DEF Inv
<1>5. CASE destroyed /\ UNCHANGED <<openIterators, timers>>
  BY <1>1, <1>2, <1>3, <1>5 DEF Inv, AmTypeOK, NoLostTimer, HandlesCover
<1> QED
  BY <1>4, <1>5 DEF closeIterator

LEMMA DestroyInv ==
  ASSUME Inv, destroy
  PROVE  Inv'
BY DEF Inv, destroy, AmTypeOK, NoLostTimer, HandlesCover

LEMMA NextInv == Inv /\ [AmNext]_amVars => Inv'
<1> SUFFICES ASSUME Inv, [AmNext]_amVars PROVE Inv'
  OBVIOUS
<1>1. CASE AmNext
  BY <1>1, EnqueueInv, ExecuteNextInv, SlotResultReadyInv, ListStatementsInv, CloseIteratorInv,
     DestroyInv DEF AmNext
<1>2. CASE UNCHANGED amVars
  BY <1>2 DEF amVars, Inv, AmTypeOK, NoLostTimer, HandlesCover, Runnable, MayRun
<1> QED
  BY <1>1, <1>2
-----------------------------------------------------------------------------
(***************************************************************************)
(* The state of AsyncModel keeps its types.                                *)
(***************************************************************************)
THEOREM TypesAreKept == AmSafeSpec => []AmTypeOK
<1>1. Inv => AmTypeOK
  BY DEF Inv
<1> QED
  BY <1>1, InitInv, NextInv, PTL DEF AmSafeSpec

(***************************************************************************)
(* Whatever the event loop's order, a command that may run has a timer     *)
(* pending that will run _s_executeNextCommand.                            *)
(***************************************************************************)
THEOREM NoTimerIsLost == AmSafeSpec => []NoLostTimer
<1>1. Inv => NoLostTimer
  BY DEF Inv
<1> QED
  BY <1>1, InitInv, NextInv, PTL DEF AmSafeSpec

(***************************************************************************)
(* No write command is executed while an iterator of the parent is open.   *)
(***************************************************************************)
THEOREM NoWriteBelowIterators == AmSafeSpec => NoWriteUnderIterator
<1> DEFINE Step == \A n \in DOMAIN executed' \ DOMAIN executed :
                     executed'[n].kind = "write" => parentOpen = {}
<1>1. Inv /\ [AmNext]_amVars => [Step]_amVars
  <2> SUFFICES ASSUME Inv, AmNext, NEW n \in DOMAIN executed' \ DOMAIN executed,
                      executed'[n].kind = "write"
               PROVE  parentOpen = {}
    OBVIOUS
  <2>1. AmTypeOK /\ HandlesCover
    BY DEF Inv
  <2>2. executed' # executed
    OBVIOUS
  <2>3. _s_executeNextCommand
    BY <2>2 DEF AmNext, enqueueCommand, slotResultReady, listStatements, closeIterator, destroy
  <2>4. PICK i \in Runnable : execute(commandQueue[i])
    BY <2>2, <2>3 DEF _s_executeNextCommand
  <2>5. ~destroyed
    BY <2>1, <2>3 DEF _s_executeNextCommand, HandlesCover, AmTypeOK
  <2>6. executed' = Append(executed, commandQueue[i])
    BY <2>4 DEF execute
  <2>7. commandQueue[i] \in CommandRecords /\ executed \in Seq(CommandRecords)
    BY <2>1, <2>4 DEF AmTypeOK, Runnable
  <2>8. n = Len(executed) + 1 /\ executed'[n] = commandQueue[i]
    BY <2>6, <2>7
  <2>9. openIterators = {}
    BY <2>4, <2>8 DEF Runnable, MayRun, ReadKinds
  <2> QED
    BY <2>1, <2>5, <2>9 DEF HandlesCover
<1>2. AmSafeSpec => [][Step]_amVars
  BY <1>1, InitInv, NextInv, PTL DEF AmSafeSpec
<1> QED
  BY <1>2 DEF NoWriteUnderIterator
-----------------------------------------------------------------------------
(***************************************************************************)
(* The order of the commands.  Every command asked for is either still in  *)
(* the queue or executed, the queue keeps the order they were asked for,   *)
(* and so a write, executed only from the head of the queue, finds every   *)
(* write before it executed.                                               *)
(***************************************************************************)
AskedOnce == \A p, q \in DOMAIN asked : asked[p].id = asked[q].id => p = q

QueueInOrder ==
  /\ \A i \in DOMAIN commandQueue : \E p \in DOMAIN asked : asked[p] = commandQueue[i]
  /\ \A i, j \in DOMAIN commandQueue : \A p, q \in DOMAIN asked :
       i < j /\ asked[p] = commandQueue[i] /\ asked[q] = commandQueue[j] => p < q

QueuedOrExecuted ==
  /\ \A p \in DOMAIN asked :
       \/ \E i \in DOMAIN commandQueue : commandQueue[i] = asked[p]
       \/ \E n \in DOMAIN executed : executed[n] = asked[p]
  /\ \A n \in DOMAIN executed :
       /\ \E p \in DOMAIN asked : asked[p] = executed[n]
       /\ \A i \in DOMAIN commandQueue : executed[n] # commandQueue[i]

InOrder == AskedOnce /\ QueueInOrder /\ QueuedOrExecuted /\ WritesInOrder

LEMMA Appended ==
  ASSUME NEW S, NEW s \in Seq(S), NEW e \in S
  PROVE  /\ DOMAIN Append(s, e) = DOMAIN s \cup {Len(s) + 1} /\ Len(s) + 1 \notin DOMAIN s
         /\ \A i \in DOMAIN s : Append(s, e)[i] = s[i] /\ i <= Len(s) /\ i \in Nat
         /\ Append(s, e)[Len(s) + 1] = e /\ Len(s) \in Nat
<1>1. Len(s) \in Nat /\ DOMAIN s = 1..Len(s)
  BY LenProperties
<1>2. /\ Append(s, e) \in Seq(S) /\ Len(Append(s, e)) = Len(s) + 1
      /\ \A i \in 1..Len(s) : Append(s, e)[i] = s[i]
      /\ Append(s, e)[Len(s) + 1] = e
  BY AppendProperties
<1>3. DOMAIN Append(s, e) = 1..(Len(s) + 1)
  BY <1>2, LenProperties
<1>4. 1..(Len(s) + 1) = 1..Len(s) \cup {Len(s) + 1} /\ Len(s) + 1 \notin 1..Len(s)
  BY <1>1
<1> QED
  BY <1>1, <1>2, <1>3, <1>4

LEMMA Removed ==
  ASSUME NEW S, NEW s \in Seq(S), NEW i \in DOMAIN s
  PROVE  /\ DOMAIN RemoveAt(s, i) = 1..(Len(s) - 1)
         /\ \A j \in 1..(Len(s) - 1) : RemoveAt(s, i)[j] = s[IF j < i THEN j ELSE j + 1]
<1>1. Len(s) \in Nat /\ i \in 1..Len(s) /\ DOMAIN s = 1..Len(s)
  BY LenProperties
<1> DEFINE a == SubSeq(s, 1, i - 1)
           b == SubSeq(s, i + 1, Len(s))
<1>2. a \in Seq(S) /\ Len(a) = i - 1 /\ \A j \in 1..(i - 1) : a[j] = s[j]
  BY <1>1
<1>3. b \in Seq(S) /\ Len(b) = Len(s) - i /\ \A j \in 1..(Len(s) - i) : b[j] = s[i + j]
  BY <1>1
<1>4. RemoveAt(s, i) = a \o b
  BY DEF RemoveAt
<1> HIDE DEF a, b
<1>5. /\ a \o b \in Seq(S) /\ Len(a \o b) = Len(s) - 1
      /\ \A j \in 1..(Len(s) - 1) : (a \o b)[j] = IF j <= i - 1 THEN a[j] ELSE b[j - (i - 1)]
  <2>1. a \o b \in Seq(S) /\ Len(a \o b) = Len(a) + Len(b)
    BY <1>2, <1>3, ConcatProperties
  <2>2. \A j \in 1..(Len(a) + Len(b)) : (a \o b)[j] = IF j <= Len(a) THEN a[j] ELSE b[j - Len(a)]
    BY <1>2, <1>3, ConcatProperties
  <2>3. Len(a) + Len(b) = Len(s) - 1
    BY <1>1, <1>2, <1>3
  <2> QED
    BY <1>2, <2>1, <2>2, <2>3
<1>6. ASSUME NEW j \in 1..(Len(s) - 1)
      PROVE  (a \o b)[j] = s[IF j < i THEN j ELSE j + 1]
  <2>1. CASE j < i
    BY <1>1, <1>2, <1>5, <1>6, <2>1
  <2>2. CASE ~(j < i)
    <3>1. j - (i - 1) \in 1..(Len(s) - i) /\ i + (j - (i - 1)) = j + 1
      BY <1>1, <1>6, <2>2
    <3>2. (a \o b)[j] = b[j - (i - 1)]
      BY <1>1, <1>5, <1>6, <2>2
    <3>3. b[j - (i - 1)] = s[j + 1]
      BY <1>3, <3>1
    <3> QED
      BY <2>2, <3>2, <3>3
  <2> QED
    BY <2>1, <2>2
<1>7. DOMAIN (a \o b) = 1..(Len(s) - 1)
  BY <1>5, LenProperties
<1> QED
  BY <1>4, <1>6, <1>7

\* Which commands are left, where each of them was, and in which order.
LEMMA RemovedOrder ==
  ASSUME NEW S, NEW s \in Seq(S), NEW i \in DOMAIN s
  PROVE  /\ \A j \in DOMAIN RemoveAt(s, i) : \E m \in DOMAIN s : m # i /\ RemoveAt(s, i)[j] = s[m]
         /\ \A j, k \in DOMAIN RemoveAt(s, i) : j < k =>
              \E m, n \in DOMAIN s : m < n /\ RemoveAt(s, i)[j] = s[m] /\ RemoveAt(s, i)[k] = s[n]
         /\ \A m \in DOMAIN s : m # i => \E j \in DOMAIN RemoveAt(s, i) : RemoveAt(s, i)[j] = s[m]
<1> DEFINE r == RemoveAt(s, i)
           at(j) == IF j < i THEN j ELSE j + 1
<1>1. Len(s) \in Nat /\ i \in 1..Len(s) /\ DOMAIN s = 1..Len(s)
  BY LenProperties
<1>2. DOMAIN r = 1..(Len(s) - 1) /\ \A j \in 1..(Len(s) - 1) : r[j] = s[at(j)]
  BY Removed
<1> HIDE DEF r
<1>3. \A j \in 1..(Len(s) - 1) : at(j) \in 1..Len(s) /\ at(j) # i
  BY <1>1
<1>4. \A j, k \in 1..(Len(s) - 1) : j < k => at(j) < at(k)
  BY <1>1
<1>5. ASSUME NEW m \in 1..Len(s), m # i
      PROVE  \E j \in 1..(Len(s) - 1) : at(j) = m
  <2>1. CASE m < i
    BY <1>1, <1>5, <2>1
  <2>2. CASE m > i
    <3>1. m - 1 \in 1..(Len(s) - 1) /\ at(m - 1) = m
      BY <1>1, <1>5, <2>2
    <3> QED
      BY <3>1
  <2> QED
    BY <1>1, <1>5, <2>1, <2>2
<1> HIDE DEF at
<1>6. \A j \in DOMAIN r : \E m \in DOMAIN s : m # i /\ r[j] = s[m]
  BY <1>1, <1>2, <1>3
<1>7. ASSUME NEW j \in DOMAIN r, NEW k \in DOMAIN r, j < k
      PROVE  \E m, n \in DOMAIN s : m < n /\ r[j] = s[m] /\ r[k] = s[n]
  <2>1. at(j) \in DOMAIN s /\ at(k) \in DOMAIN s /\ at(j) < at(k) /\ r[j] = s[at(j)] /\ r[k] = s[at(k)]
    BY <1>1, <1>2, <1>3, <1>4, <1>7
  <2> QED
    BY <2>1
<1>8. ASSUME NEW m \in DOMAIN s, m # i
      PROVE  \E j \in DOMAIN r : r[j] = s[m]
  BY <1>1, <1>2, <1>5, <1>8
<1> QED
  BY <1>6, <1>7, <1>8 DEF r

LEMMA InitOrder == AmInit => InOrder
  BY DEF AmInit, InOrder, AskedOnce, QueueInOrder, QueuedOrExecuted, WritesInOrder

LEMMA UnchangedOrder ==
  ASSUME InOrder, UNCHANGED <<commandQueue, asked, executed>>
  PROVE  InOrder'
<1>1. AskedOnce' /\ QueueInOrder'
  BY DEF InOrder, AskedOnce, QueueInOrder
<1>2. QueuedOrExecuted' /\ WritesInOrder'
  BY DEF InOrder, QueuedOrExecuted, WritesInOrder
<1> QED
  BY <1>1, <1>2 DEF InOrder

(***************************************************************************)
(* A new command is the last of asked and the last of the queue.           *)
(***************************************************************************)
LEMMA EnqueueOrder ==
  ASSUME AmTypeOK, InOrder, NEW c \in Commands, NEW kind \in Kinds, enqueueCommand(c, kind)
  PROVE  InOrder'
<1> DEFINE r == [id |-> c, kind |-> kind]
           P == Len(asked) + 1
           I == Len(commandQueue) + 1
<1>1. AskedOnce /\ QueueInOrder /\ QueuedOrExecuted /\ WritesInOrder
  BY DEF InOrder
<1>2. /\ asked' = Append(asked, r) /\ commandQueue' = Append(commandQueue, r)
      /\ executed' = executed /\ c \notin Ids(asked)
  BY DEF enqueueCommand
<1>3. r \in CommandRecords /\ r.id = c
  BY DEF CommandRecords
<1>4. asked \in Seq(CommandRecords) /\ commandQueue \in Seq(CommandRecords)
  BY DEF AmTypeOK
<1> HIDE DEF r
<1>5. /\ DOMAIN asked' = DOMAIN asked \cup {P} /\ P \notin DOMAIN asked /\ asked'[P] = r
      /\ \A p \in DOMAIN asked : asked'[p] = asked[p] /\ p <= Len(asked) /\ p \in Nat
      /\ Len(asked) \in Nat
  BY <1>2, <1>3, <1>4, Appended
<1>6. /\ DOMAIN commandQueue' = DOMAIN commandQueue \cup {I} /\ I \notin DOMAIN commandQueue
      /\ commandQueue'[I] = r /\ Len(commandQueue) \in Nat
      /\ \A i \in DOMAIN commandQueue :
           commandQueue'[i] = commandQueue[i] /\ i <= Len(commandQueue) /\ i \in Nat
  BY <1>2, <1>3, <1>4, Appended
<1>7. \A p \in DOMAIN asked : asked[p].id # c /\ asked[p] # r
  BY <1>2, <1>3 DEF Ids
<1>8. /\ \A p \in DOMAIN asked : p < P
      /\ \A i \in DOMAIN commandQueue : i < I /\ ~(I < i)
      /\ ~(I < I)
  BY <1>5, <1>6
<1> HIDE DEF P, I
<1>9. AskedOnce'
  BY <1>1, <1>3, <1>5, <1>7 DEF AskedOnce
<1>10. \A i \in DOMAIN commandQueue : commandQueue[i] # r
  BY <1>1, <1>7 DEF QueueInOrder
<1>11. QueueInOrder'
  <2>1. \A i \in DOMAIN commandQueue' : \E p \in DOMAIN asked' : asked'[p] = commandQueue'[i]
    BY <1>1, <1>5, <1>6 DEF QueueInOrder
  <2>2. ASSUME NEW i \in DOMAIN commandQueue', NEW j \in DOMAIN commandQueue',
               NEW p \in DOMAIN asked', NEW q \in DOMAIN asked',
               i < j, asked'[p] = commandQueue'[i], asked'[q] = commandQueue'[j]
        PROVE  p < q
    <3>1. i \in DOMAIN commandQueue /\ commandQueue'[i] = commandQueue[i]
      BY <1>6, <1>8, <2>2
    <3>2. p \in DOMAIN asked /\ asked[p] = commandQueue[i]
      BY <1>5, <1>10, <2>2, <3>1
    <3>3. CASE j = I
      <4>1. q = P
        BY <1>5, <1>6, <1>7, <2>2, <3>3
      <4> QED
        BY <1>8, <3>2, <4>1
    <3>4. CASE j # I
      <4>1. j \in DOMAIN commandQueue /\ commandQueue'[j] = commandQueue[j]
        BY <1>6, <2>2, <3>4
      <4>2. q \in DOMAIN asked /\ asked[q] = commandQueue[j]
        BY <1>5, <1>10, <2>2, <4>1
      <4> QED
        BY <1>1, <2>2, <3>1, <3>2, <4>1, <4>2 DEF QueueInOrder
    <3> QED
      BY <3>3, <3>4
  <2> QED
    BY <2>1, <2>2 DEF QueueInOrder
<1>12. QueuedOrExecuted'
  <2>1. ASSUME NEW p \in DOMAIN asked'
        PROVE  \/ \E i \in DOMAIN commandQueue' : commandQueue'[i] = asked'[p]
               \/ \E n \in DOMAIN executed' : executed'[n] = asked'[p]
    BY <1>1, <1>2, <1>5, <1>6 DEF QueuedOrExecuted
  <2>2. ASSUME NEW n \in DOMAIN executed'
        PROVE  /\ \E p \in DOMAIN asked' : asked'[p] = executed'[n]
               /\ \A i \in DOMAIN commandQueue' : executed'[n] # commandQueue'[i]
    <3>1. PICK p \in DOMAIN asked : asked[p] = executed[n]
      BY <1>1, <1>2 DEF QueuedOrExecuted
    <3>2. executed[n] # r
      BY <1>7, <3>1
    <3> QED
      BY <1>1, <1>2, <1>5, <1>6, <3>1, <3>2 DEF QueuedOrExecuted
  <2> QED
    BY <2>1, <2>2 DEF QueuedOrExecuted
<1>13. WritesInOrder'
  <2>1. \A m, n \in DOMAIN executed' : executed'[m].id = executed'[n].id => m = n
    BY <1>1, <1>2 DEF WritesInOrder
  <2>2. ASSUME NEW n \in DOMAIN executed', executed'[n].kind = "write"
        PROVE  \E q \in DOMAIN asked' :
                 /\ asked'[q] = executed'[n]
                 /\ \A p \in 1..(q - 1) :
                      asked'[p].kind = "write" => \E m \in 1..(n - 1) : executed'[m] = asked'[p]
    <3>1. PICK q \in DOMAIN asked :
                 /\ asked[q] = executed[n]
                 /\ \A p \in 1..(q - 1) :
                      asked[p].kind = "write" => \E m \in 1..(n - 1) : executed[m] = asked[p]
      BY <1>1, <1>2, <2>2 DEF WritesInOrder
    <3>2. DOMAIN asked = 1..Len(asked)
      BY <1>4, LenProperties
    <3>3. \A p \in 1..(q - 1) : p \in DOMAIN asked
      BY <1>5, <3>2
    <3>4. q \in DOMAIN asked' /\ asked'[q] = executed[n]
      BY <1>5, <3>1
    <3>5. \A p \in 1..(q - 1) : asked'[p] = asked[p]
      BY <1>5, <3>3
    <3> QED
      BY <1>2, <3>1, <3>4, <3>5
  <2> QED
    BY <2>1, <2>2 DEF WritesInOrder
<1> QED
  BY <1>9, <1>11, <1>12, <1>13 DEF InOrder

(***************************************************************************)
(* _s_executeNextCommand: a write runs only with no iterator open, when    *)
(* the first command of the queue is runnable too, so it is the first.     *)
(***************************************************************************)
LEMMA ExecuteOrder ==
  ASSUME AmTypeOK, InOrder, NEW i \in Runnable, \A j \in Runnable : i <= j,
         execute(commandQueue[i]), commandQueue' = RemoveAt(commandQueue, i), asked' = asked
  PROVE  InOrder'
<1> DEFINE x == commandQueue[i]
           N == Len(executed) + 1
<1>1. AskedOnce /\ QueueInOrder /\ QueuedOrExecuted /\ WritesInOrder
  BY DEF InOrder
<1>2. /\ i \in DOMAIN commandQueue /\ commandQueue \in Seq(CommandRecords) /\ x \in CommandRecords
      /\ executed \in Seq(CommandRecords) /\ asked \in Seq(CommandRecords)
  BY DEF AmTypeOK, Runnable
<1>3. executed' = Append(executed, x)
  BY DEF execute
<1>4. /\ \A j \in DOMAIN commandQueue' : \E m \in DOMAIN commandQueue : m # i /\ commandQueue'[j] = commandQueue[m]
      /\ \A j, k \in DOMAIN commandQueue' : j < k =>
           \E m, n \in DOMAIN commandQueue :
             m < n /\ commandQueue'[j] = commandQueue[m] /\ commandQueue'[k] = commandQueue[n]
      /\ \A m \in DOMAIN commandQueue : m # i =>
           \E j \in DOMAIN commandQueue' : commandQueue'[j] = commandQueue[m]
  BY <1>2, RemovedOrder
<1>5. /\ DOMAIN commandQueue = 1..Len(commandQueue) /\ Len(commandQueue) \in Nat
      /\ DOMAIN executed = 1..Len(executed)
      /\ DOMAIN asked = 1..Len(asked) /\ Len(asked) \in Nat
  BY <1>2, LenProperties
<1>6. x.kind = "write" => i = 1
  <2> SUFFICES ASSUME x.kind = "write" PROVE i = 1
    OBVIOUS
  <2>1. openIterators = {}
    BY DEF Runnable, MayRun, ReadKinds
  <2>2. 1 \in Runnable
    BY <1>2, <1>5, <2>1 DEF Runnable, MayRun
  <2> QED
    BY <1>2, <1>5, <2>2
<1>7. PICK o \in DOMAIN asked : asked[o] = x
  BY <1>1, <1>2 DEF QueueInOrder
<1> HIDE DEF x
<1>8. /\ DOMAIN executed' = DOMAIN executed \cup {N} /\ N \notin DOMAIN executed /\ executed'[N] = x
      /\ \A n \in DOMAIN executed : executed'[n] = executed[n] /\ n <= Len(executed) /\ n \in Nat
      /\ Len(executed) \in Nat
  BY <1>2, <1>3, Appended
<1>9. \A n \in DOMAIN executed : executed[n].id # x.id
  <2> SUFFICES ASSUME NEW n \in DOMAIN executed, executed[n].id = x.id PROVE FALSE
    OBVIOUS
  <2>1. PICK p \in DOMAIN asked : asked[p] = executed[n]
    BY <1>1 DEF QueuedOrExecuted
  <2>2. p = o
    BY <1>1, <1>7, <2>1 DEF AskedOnce
  <2>3. executed[n] = commandQueue[i]
    BY <1>7, <2>1, <2>2 DEF x
  <2> QED
    BY <1>1, <1>2, <2>3 DEF QueuedOrExecuted
\* The command is in the queue once.
<1>10. \A m \in DOMAIN commandQueue : m # i => commandQueue[m] # x
  <2> SUFFICES ASSUME NEW m \in DOMAIN commandQueue, m # i, commandQueue[m] = x PROVE FALSE
    OBVIOUS
  <2>1. m < i \/ i < m
    BY <1>2, <1>5
  <2>2. o < o
    BY <1>1, <1>2, <1>7, <2>1 DEF QueueInOrder, x
  <2> QED
    BY <1>5, <2>2
<1>11. AskedOnce'
  BY <1>1 DEF AskedOnce
<1>12. QueueInOrder'
  <2>1. \A j \in DOMAIN commandQueue' : \E p \in DOMAIN asked' : asked'[p] = commandQueue'[j]
    BY <1>1, <1>4 DEF QueueInOrder
  <2>2. ASSUME NEW j \in DOMAIN commandQueue', NEW k \in DOMAIN commandQueue',
               NEW p \in DOMAIN asked, NEW q \in DOMAIN asked,
               j < k, asked[p] = commandQueue'[j], asked[q] = commandQueue'[k]
        PROVE  p < q
    <3>1. PICK m, n \in DOMAIN commandQueue :
             m < n /\ commandQueue'[j] = commandQueue[m] /\ commandQueue'[k] = commandQueue[n]
      BY <1>4, <2>2
    <3> QED
      BY <1>1, <2>2, <3>1 DEF QueueInOrder
  <2> QED
    BY <2>1, <2>2 DEF QueueInOrder
<1>13. QueuedOrExecuted'
  <2>1. ASSUME NEW p \in DOMAIN asked
        PROVE  \/ \E j \in DOMAIN commandQueue' : commandQueue'[j] = asked[p]
               \/ \E n \in DOMAIN executed' : executed'[n] = asked[p]
    <3>1. CASE asked[p] = x
      BY <1>8, <3>1
    <3>2. CASE asked[p] # x /\ \E j \in DOMAIN commandQueue : commandQueue[j] = asked[p]
      <4>1. PICK j \in DOMAIN commandQueue : commandQueue[j] = asked[p] /\ j # i
        BY <3>2 DEF x
      <4> QED
        BY <1>4, <4>1
    <3>3. CASE \E n \in DOMAIN executed : executed[n] = asked[p]
      BY <1>8, <3>3
    <3> QED
      BY <1>1, <3>1, <3>2, <3>3 DEF QueuedOrExecuted
  <2>2. ASSUME NEW n \in DOMAIN executed'
        PROVE  /\ \E p \in DOMAIN asked : asked[p] = executed'[n]
               /\ \A j \in DOMAIN commandQueue' : executed'[n] # commandQueue'[j]
    <3>1. CASE n = N
      BY <1>4, <1>7, <1>8, <1>10, <3>1
    <3>2. CASE n \in DOMAIN executed
      <4>1. executed'[n] = executed[n]
        BY <1>8, <3>2
      <4> QED
        BY <1>1, <1>4, <3>2, <4>1 DEF QueuedOrExecuted
    <3> QED
      BY <1>8, <2>2, <3>1, <3>2
  <2> QED
    BY <2>1, <2>2 DEF QueuedOrExecuted
<1>14. WritesInOrder'
  <2>1. \A m, n \in DOMAIN executed' : executed'[m].id = executed'[n].id => m = n
    BY <1>1, <1>8, <1>9 DEF WritesInOrder
  <2>2. ASSUME NEW n \in DOMAIN executed', executed'[n].kind = "write"
        PROVE  \E q \in DOMAIN asked :
                 /\ asked[q] = executed'[n]
                 /\ \A p \in 1..(q - 1) :
                      asked[p].kind = "write" => \E m \in 1..(n - 1) : executed'[m] = asked[p]
    <3>1. CASE n \in DOMAIN executed
      <4>1. PICK q \in DOMAIN asked :
                 /\ asked[q] = executed[n]
                 /\ \A p \in 1..(q - 1) :
                      asked[p].kind = "write" => \E m \in 1..(n - 1) : executed[m] = asked[p]
        BY <1>1, <1>8, <2>2, <3>1 DEF WritesInOrder
      <4>2. \A m \in 1..(n - 1) : m \in DOMAIN executed
        BY <1>5, <1>8, <3>1
      <4>3. \A m \in 1..(n - 1) : executed'[m] = executed[m]
        BY <1>8, <4>2
      <4> QED
        BY <1>8, <3>1, <4>1, <4>3
    <3>2. CASE n = N
      <4>1. i = 1 /\ executed'[n] = x
        BY <1>6, <1>8, <2>2, <3>2
      <4>2. ASSUME NEW p \in 1..(o - 1), asked[p].kind = "write"
            PROVE  \E m \in 1..(n - 1) : executed'[m] = asked[p]
        <5>1. p \in DOMAIN asked /\ p < o
          BY <1>5, <1>7
        <5>2. asked[p] # x
          BY <1>1, <1>5, <1>7, <5>1 DEF AskedOnce
        <5>3. ASSUME NEW j \in DOMAIN commandQueue, commandQueue[j] = asked[p] PROVE FALSE
          <6>1. i < j
            BY <1>5, <4>1, <5>2, <5>3 DEF x
          <6>2. o < p
            BY <1>1, <1>2, <1>7, <5>1, <5>3, <6>1 DEF QueueInOrder, x
          <6> QED
            BY <1>5, <5>1, <6>2
        <5>4. PICK m \in DOMAIN executed : executed[m] = asked[p]
          BY <1>1, <5>1, <5>3 DEF QueuedOrExecuted
        <5>5. m \in 1..(n - 1) /\ executed'[m] = asked[p]
          BY <1>5, <1>8, <3>2, <5>4
        <5> QED
          BY <5>5
      <4> QED
        BY <1>7, <4>1, <4>2
    <3> QED
      BY <1>8, <2>2, <3>1, <3>2
  <2> QED
    BY <2>1, <2>2 DEF WritesInOrder
<1> QED
  BY <1>11, <1>12, <1>13, <1>14 DEF InOrder

LEMMA NextOrder == Inv /\ InOrder /\ [AmNext]_amVars => InOrder'
<1> SUFFICES ASSUME Inv, InOrder, [AmNext]_amVars PROVE InOrder'
  OBVIOUS
<1>1. AmTypeOK
  BY DEF Inv
<1>2. CASE _s_executeNextCommand
  <2>1. asked' = asked
    BY <1>2 DEF _s_executeNextCommand
  <2>2. CASE UNCHANGED <<commandQueue, executed>>
    BY <2>1, <2>2, UnchangedOrder
  <2>3. CASE \E i \in Runnable : /\ \A j \in Runnable : i <= j
                                 /\ execute(commandQueue[i])
                                 /\ commandQueue' = RemoveAt(commandQueue, i)
    BY <1>1, <2>1, <2>3, ExecuteOrder
  <2> QED
    BY <1>2, <2>2, <2>3 DEF _s_executeNextCommand
<1>3. ASSUME NEW c \in Commands, NEW kind \in Kinds, enqueueCommand(c, kind) PROVE InOrder'
  BY <1>1, <1>3, EnqueueOrder
<1>4. CASE UNCHANGED <<commandQueue, asked, executed>>
  BY <1>4, UnchangedOrder
<1> QED
  BY <1>2, <1>3, <1>4 DEF AmNext, amVars, slotResultReady, listStatements, closeIterator, destroy

(***************************************************************************)
(* Commands are executed once each, and the writes among them in the order *)
(* in which they were asked for, however many reads overtake them.         *)
(***************************************************************************)
THEOREM WritesKeepOrder == AmSafeSpec => []WritesInOrder
<1>1. InOrder => WritesInOrder
  BY DEF InOrder
<1> QED
  BY <1>1, InitInv, NextInv, InitOrder, NextOrder, PTL DEF AmSafeSpec
=============================================================================
