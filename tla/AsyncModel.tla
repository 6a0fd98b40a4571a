----------------------------- MODULE AsyncModel -----------------------------
(***************************************************************************)
(* soprano/util/asyncmodel.cpp in SingleThreaded mode: commands wait in a  *)
(* queue and run from the event loop, a write only when no iterator is     *)
(* open, reads ahead of the writes that wait.  Everything happens in one   *)
(* thread, but in the order in which the event loop takes zero timers,     *)
(* queued results and the user's calls.                                    *)
(*                                                                         *)
(* A command is executed on the AsyncModel itself, so a list command opens *)
(* two handles: the SyncIteratorBackend that AsyncModel::listStatements    *)
(* returns, and the AsyncIteratorBackend around it.  The parent model is   *)
(* external; all that is kept of it is the set of its open iterators.      *)
(* MultiThreaded mode is AsyncIterator's subject.                          *)
(***************************************************************************)
EXTENDS Integers, Sequences, FiniteSets

CONSTANTS
  Commands,     \* the commands the user may ask for (AddStatementCommand, ...)
  SyncLists,    \* the direct calls of listStatements the user may make
  MaxTimers     \* bound: zero timers pending at a time

ASSUME DisjointAssumption == Commands \cap SyncLists = {}
ASSUME MaxTimersAssumption == MaxTimers \in Nat

VARIABLES
  commandQueue,   \* d->commandQueue, a sequence of [id, kind]
  timers,         \* pending singleShot timers for _s_executeNextCommand
  openIterators,  \* d->openIterators: handles <<id, class>>
  parentOpen,     \* ids whose iterator of the parent model is open
  held,           \* ids of the iterators the user, or an undelivered result, holds
  ready,          \* results with slotResultReady queued, in order
  asked,          \* history: the commands in the order they were asked for
  executed,       \* history: the commands in the order they were executed
  delivered,      \* history: results whose resultReady was emitted
  destroyed       \* ~AsyncModel has run

amVars == <<commandQueue, timers, openIterators, parentOpen, held, ready,
          asked, executed, delivered, destroyed>>

\* "write": add, remove, removeAll, createBlankNode; "ask": contains, isEmpty,
\* count; "list": listStatements, listContexts, executeQuery.
Kinds == {"write", "ask", "list"}
ReadKinds == {"ask", "list"}

Ids(s) == {s[i].id : i \in DOMAIN s}

AmInit ==
  /\ commandQueue = <<>>
  /\ timers = 0
  /\ openIterators = {}
  /\ parentOpen = {}
  /\ held = {}
  /\ ready = <<>>
  /\ asked = <<>>
  /\ executed = <<>>
  /\ delivered = {}
  /\ destroyed = FALSE
-----------------------------------------------------------------------------
(***************************************************************************)
(* addStatementAsync, listStatementsAsync and the others: a new result, a  *)
(* new command, enqueueCommand and its singleShot timer.                   *)
(***************************************************************************)
enqueueCommand_NoTimer(c, kind) ==
  /\ ~destroyed
  /\ c \notin Ids(asked)
  /\ timers < MaxTimers
  /\ commandQueue' = Append(commandQueue, [id |-> c, kind |-> kind])
  /\ timers' = IF commandQueue = <<>> THEN timers + 1 ELSE timers
  /\ asked' = Append(asked, [id |-> c, kind |-> kind])
  /\ UNCHANGED <<openIterators, parentOpen, held, ready, executed, delivered, destroyed>>

enqueueCommand_Prepend(c, kind) ==
  /\ ~destroyed
  /\ c \notin Ids(asked)
  /\ timers < MaxTimers
  /\ commandQueue' = <<[id |-> c, kind |-> kind]>> \o commandQueue
  /\ timers' = timers + 1
  /\ asked' = Append(asked, [id |-> c, kind |-> kind])
  /\ UNCHANGED <<openIterators, parentOpen, held, ready, executed, delivered, destroyed>>

enqueueCommand(c, kind) ==
  /\ ~destroyed
  /\ c \notin Ids(asked)
  /\ timers < MaxTimers
  /\ commandQueue' = Append(commandQueue, [id |-> c, kind |-> kind])
  /\ timers' = timers + 1
  /\ asked' = Append(asked, [id |-> c, kind |-> kind])
  /\ UNCHANGED <<openIterators, parentOpen, held, ready, executed, delivered, destroyed>>

(***************************************************************************)
(* _s_executeNextCommand: the first command that may run, if there is one. *)
(***************************************************************************)
MayRun(i) == openIterators = {} \/ commandQueue[i].kind \in ReadKinds

Runnable == {i \in DOMAIN commandQueue : MayRun(i)}

RemoveAt(s, i) == SubSeq(s, 1, i - 1) \o SubSeq(s, i + 1, Len(s))

\* Command::execute.  The SyncIteratorBackend is a valid iterator also when
\* the parent's one is not, so a list command always wraps and counts it.
execute(c) ==
  /\ IF c.kind = "list"
     THEN /\ openIterators' = openIterators \cup {<<c.id, "Sync">>, <<c.id, "Async">>}
          /\ parentOpen' \in {parentOpen, parentOpen \cup {c.id}}
          /\ held' = held \cup {c.id}
     ELSE UNCHANGED <<openIterators, parentOpen, held>>
  /\ ready' = Append(ready, c)
  /\ executed' = Append(executed, c)

_s_executeNextCommand ==
  /\ timers > 0
  /\ \/ /\ Runnable = {}
        /\ timers' = timers - 1
        /\ UNCHANGED <<commandQueue, openIterators, parentOpen, held, ready, executed>>
     \/ \E i \in Runnable :
          /\ \A j \in Runnable : i <= j
          /\ execute(commandQueue[i])
          /\ commandQueue' = RemoveAt(commandQueue, i)
          /\ timers' = IF commandQueue' # <<>> THEN timers ELSE timers - 1
  /\ UNCHANGED <<asked, delivered, destroyed>>

(***************************************************************************)
(* AsyncResult::slotResultReady: emits resultReady and deletes the result; *)
(* a user who keeps no copy of its iterator closes it that way.            *)
(***************************************************************************)
slotResultReady ==
  /\ ready # <<>>
  /\ delivered' = delivered \cup {Head(ready).id}
  /\ ready' = Tail(ready)
  /\ UNCHANGED <<commandQueue, timers, openIterators, parentOpen, held, asked, executed,
                 destroyed>>
-----------------------------------------------------------------------------
(***************************************************************************)
(* Iterators: AsyncModel::listStatements called directly, and the end of   *)
(* an iterator by close() or by its deletion.  Each handle of it takes     *)
(* itself out with removeIterator, which starts a timer.                   *)
(***************************************************************************)
listStatements_NotCounted(k) ==
  /\ ~destroyed
  /\ k \notin held
  /\ parentOpen' \in {parentOpen, parentOpen \cup {k}}
  /\ held' = held \cup {k}
  /\ UNCHANGED <<commandQueue, timers, openIterators, ready, asked, executed, delivered,
                 destroyed>>

listStatements(k) ==
  /\ ~destroyed
  /\ k \notin held
  /\ openIterators' = openIterators \cup {<<k, "Sync">>}
  /\ parentOpen' \in {parentOpen, parentOpen \cup {k}}
  /\ held' = held \cup {k}
  /\ UNCHANGED <<commandQueue, timers, ready, asked, executed, delivered, destroyed>>

HandlesOf(k) == {h \in openIterators : h[1] = k}

closeIterator_OuterOnly(k) ==
  /\ k \in held /\ k \notin Ids(ready)
  /\ held' = held \ {k}
  /\ parentOpen' = parentOpen \ {k}
  /\ \/ /\ ~destroyed
        /\ timers + 2 <= MaxTimers
        /\ openIterators' = openIterators \ {<<k, "Async">>}
        /\ timers' = timers + 1
     \/ destroyed /\ UNCHANGED <<openIterators, timers>>
  /\ UNCHANGED <<commandQueue, ready, asked, executed, delivered, destroyed>>

closeIterator(k) ==
  /\ k \in held /\ k \notin Ids(ready)
  /\ held' = held \ {k}
  /\ parentOpen' = parentOpen \ {k}
  /\ \/ /\ ~destroyed
        /\ timers + Cardinality(HandlesOf(k)) <= MaxTimers
        /\ openIterators' = openIterators \ HandlesOf(k)
        /\ timers' = timers + Cardinality(HandlesOf(k))
     \/ \* setModelGone: nothing to remove, nobody to wake; the iterator is deleted
        destroyed /\ UNCHANGED <<openIterators, timers>>
  /\ UNCHANGED <<commandQueue, ready, asked, executed, delivered, destroyed>>

\* ~AsyncModel leaves the queued commands as they are ("FIXME: finish all
\* pending commands with a failure"); its timers die with it.
destroy ==
  /\ ~destroyed
  /\ destroyed' = TRUE
  /\ timers' = 0
  /\ openIterators' = {}
  /\ UNCHANGED <<commandQueue, parentOpen, held, ready, asked, executed, delivered>>
-----------------------------------------------------------------------------
AmNext ==
  \/ \E c \in Commands, kind \in Kinds : enqueueCommand(c, kind)
  \/ _s_executeNextCommand
  \/ slotResultReady
  \/ \E k \in SyncLists : listStatements(k)
  \/ \E k \in Commands \cup SyncLists : closeIterator(k)
  \/ destroy

(***************************************************************************)
(* The event loop serves its timers and queued calls, and the user closes  *)
(* the iterators it holds (iterator.h: "Iterators have to be closed").     *)
(***************************************************************************)
AmFairness ==
  /\ WF_amVars(_s_executeNextCommand)
  /\ WF_amVars(slotResultReady)
  /\ \A k \in Commands \cup SyncLists : WF_amVars(closeIterator(k))

AmSafeSpec == AmInit /\ [][AmNext]_amVars

AmSpec == AmSafeSpec /\ AmFairness
-----------------------------------------------------------------------------
CommandRecords == [id : Commands, kind : Kinds]

AmTypeOK ==
  /\ commandQueue \in Seq(CommandRecords)
  /\ timers \in Nat
  /\ openIterators \subseteq (Commands \cup SyncLists) \X {"Sync", "Async"}
  /\ parentOpen \subseteq Commands \cup SyncLists
  /\ held \subseteq Commands \cup SyncLists
  /\ ready \in Seq(CommandRecords)
  /\ asked \in Seq(CommandRecords)
  /\ executed \in Seq(CommandRecords)
  /\ delivered \subseteq Commands
  /\ destroyed \in BOOLEAN

(***************************************************************************)
(* A command that may run has a timer that will run it: none of the early  *)
(* returns of _s_executeNextCommand, and no close of an iterator, leaves a *)
(* runnable command without a wake-up.                                     *)
(***************************************************************************)
NoLostTimer == ~destroyed /\ Runnable # {} => timers > 0

(***************************************************************************)
(* asyncmodel.h: the mode is there "to protect a Model against deadlocks   *)
(* in a single threaded situation".  No write command reaches the parent   *)
(* while one of its iterators is open, whoever opened it and through       *)
(* whichever of its handles it is still held.                              *)
(***************************************************************************)
NoWriteUnderIterator ==
  [][\A n \in DOMAIN executed' \ DOMAIN executed :
        executed'[n].kind = "write" => parentOpen = {}]_amVars

(***************************************************************************)
(* Reads overtake writes, but the writes are executed in the order in      *)
(* which they were asked for: what comes before a write in asked and is a  *)
(* write itself comes before it in executed, and nothing is executed twice.*)
(***************************************************************************)
WritesInOrder ==
  /\ \A m, n \in DOMAIN executed : executed[m].id = executed[n].id => m = n
  /\ \A n \in DOMAIN executed :
       executed[n].kind = "write" =>
         \E q \in DOMAIN asked :
           /\ asked[q] = executed[n]
           /\ \A p \in 1..(q - 1) :
                asked[p].kind = "write" => \E m \in 1..(n - 1) : executed[m] = asked[p]

(***************************************************************************)
(* Every command is answered as long as the model lives: a write is not    *)
(* left behind by the read commands that overtake it.  (Direct calls of    *)
(* listStatements can starve a write: one that comes before each timer     *)
(* keeps an iterator open for ever, so they have to stop at some time.)    *)
(***************************************************************************)
EveryCommandAnswered ==
  <>[](held \cap SyncLists = {}) =>
    \A c \in Commands : c \in Ids(asked) ~> c \in delivered \/ destroyed
=============================================================================
