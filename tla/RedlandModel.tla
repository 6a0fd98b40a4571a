---------------------------- MODULE RedlandModel ----------------------------
(***************************************************************************)
(* The Redland backend: MultiMutex, which lets one thread read (as often   *)
(* as it likes) or one thread write, RedlandModel, and its three kinds of  *)
(* iterators, each of which keeps the read lock until it closes.           *)
(*                                                                         *)
(* External: librdf keeps a statement without a context once and one with  *)
(* a context as often as it is added, may fail every call, and removing    *)
(* what is not there may fail or not.  As iterator.h asks, a thread has    *)
(* closed its iterators before it modifies the model.                      *)
(***************************************************************************)
EXTENDS Rdf, Integers, FiniteSets, SequencesExt

CONSTANTS
  RdThreads, RdStatements,
  RdTemplates,    \* what is removed with removeAllStatements
  MaxOpen,        \* bound on the iterators a thread has open
  MaxCopies       \* bound on how often a statement is stored

\* "none" stands for no thread that has a mutex.
ASSUME RdThreadsAssumption == "none" \notin RdThreads
ASSUME RdStatementsAssumption == IsFiniteSet(RdStatements) /\ MaxCopies \in Nat

VARIABLES
  mainMutex,      \* QReadWriteLock: [write: a thread or "none", read: BOOLEAN]
  readMutex,      \* who is the reader, or "none"
  lockingThread, lockCnt, lockedForWrite,
  rdContent,      \* how often librdf has each statement
  rdIterators,    \* iterators, nodeIterators and results: the owners of the open ones
  rdCall,         \* what each thread is doing
  rdDestroyed     \* the model: "no", "closed" or, when its loop has lost an iterator, "broken"

lockVars == <<mainMutex, readMutex, lockingThread, lockCnt, lockedForWrite>>
rdVars == <<lockVars, rdContent, rdIterators, rdCall, rdDestroyed>>

NoRdCall == [op |-> "none", arg |-> EmptyStatement, at |-> "idle", todo |-> <<>>, done |-> 0,
             rc |-> "ErrorNone", unlisted |-> FALSE, since |-> {}, signals |-> {}]

RdInit ==
  /\ mainMutex = [write |-> "none", read |-> FALSE]
  /\ readMutex = "none" /\ lockingThread = "none" /\ lockCnt = 0 /\ lockedForWrite = FALSE
  /\ rdContent = [st \in RdStatements |-> 0]
  /\ rdIterators = <<>>
  /\ rdCall = [t \in RdThreads |-> NoRdCall]
  /\ rdDestroyed = "no"
-----------------------------------------------------------------------------
\* MultiMutex.  lockForRead: the reading thread only counts; another one takes
\* readMutex and then mainMutex, for which a waiting writer is not overtaken.
CountRead(t) ==
  /\ lockingThread = t
  /\ lockCnt' = lockCnt + 1
  /\ UNCHANGED <<mainMutex, readMutex, lockingThread, lockedForWrite>>

TakeReadMutex(t) ==
  /\ readMutex = "none" /\ readMutex' = t
  /\ UNCHANGED <<mainMutex, lockingThread, lockCnt, lockedForWrite>>

TakeMainForRead(t) ==
  /\ mainMutex.write = "none"
  /\ mainMutex' = [mainMutex EXCEPT !.read = TRUE]
  /\ lockingThread' = t /\ lockCnt' = lockCnt + 1
  /\ UNCHANGED <<readMutex, lockedForWrite>>

lockForWrite(t) ==
  /\ mainMutex = [write |-> "none", read |-> FALSE]
  /\ mainMutex' = [write |-> t, read |-> FALSE]
  /\ lockedForWrite' = TRUE
  /\ UNCHANGED <<readMutex, lockingThread, lockCnt>>

unlock_First(t) ==
  IF lockedForWrite
  THEN /\ lockedForWrite' = FALSE
       /\ mainMutex' = [mainMutex EXCEPT !.write = "none"]
       /\ UNCHANGED <<readMutex, lockingThread, lockCnt>>
  ELSE /\ UNCHANGED lockedForWrite
       /\ lockingThread = t
       /\ lockCnt' = lockCnt - 1 /\ lockingThread' = "none" /\ readMutex' = "none"
       /\ mainMutex' = [mainMutex EXCEPT !.read = FALSE]

\* A call of any thread ends a write; of a thread that is not the reader it
\* does nothing else.
unlock(t) ==
  IF lockedForWrite
  THEN /\ lockedForWrite' = FALSE
       /\ mainMutex' = [mainMutex EXCEPT !.write = "none"]
       /\ UNCHANGED <<readMutex, lockingThread, lockCnt>>
  ELSE /\ UNCHANGED lockedForWrite
       /\ \/ /\ lockingThread = t /\ lockCnt = 1
             /\ lockCnt' = 0 /\ lockingThread' = "none" /\ readMutex' = "none"
             /\ mainMutex' = [mainMutex EXCEPT !.read = FALSE]
          \/ /\ lockingThread = t /\ lockCnt > 1
             /\ lockCnt' = lockCnt - 1 /\ UNCHANGED <<mainMutex, readMutex, lockingThread>>
          \/ lockingThread # t /\ UNCHANGED <<mainMutex, readMutex, lockingThread, lockCnt>>

-----------------------------------------------------------------------------
At(t, place) == rdCall[t].at = place
Set(t, call) == rdCall' = [rdCall EXCEPT ![t] = call]
Move(t, place) == Set(t, [rdCall[t] EXCEPT !.at = place])
Return_(t, rc, signals) == [rdCall[t] EXCEPT !.at = "idle", !.todo = <<>>, !.rc = rc, !.signals = @ \cup signals]
OpenOf(t) == Cardinality({k \in DOMAIN rdIterators : rdIterators[k] = t})

\* Writes begin with the arguments; removeAllStatements with its list.
\* isContextOnlyStatement is removed in one call; what is whole is one statement.
ContextOnly(t) == IsEmpty(t.s) /\ IsEmpty(t.p) /\ IsEmpty(t.o) /\ ~IsEmpty(t.c)
Partial(st) == ~StatementValid(st) \/ IsEmpty(st.c)

begin(t, op, arg) ==
  /\ At(t, "idle") /\ rdDestroyed = "no"
  /\ op \notin {"list", "count", "blank"} => OpenOf(t) = 0
  /\ op = "list" => OpenOf(t) < MaxOpen
  /\ Set(t, [NoRdCall EXCEPT !.op = op, !.arg = arg,
               !.at = CASE op = "add" /\ ~StatementValid(arg) -> "refused"
                        [] op = "blank" -> "unlocked"
                        [] op \in {"list", "count"} \/ (op = "removeAll" /\ ~ContextOnly(arg) /\ Partial(arg)) -> "read"
                        [] OTHER -> "write"])
  /\ UNCHANGED <<lockVars, rdContent, rdIterators, rdDestroyed>>

refused(t) ==
  /\ At(t, "refused")
  /\ Set(t, Return_(t, "ErrorInvalidArgument", {}))
  /\ UNCHANGED <<lockVars, rdContent, rdIterators, rdDestroyed>>

\* It calls librdf below no lock at all.
createBlankNode(t) ==
  /\ At(t, "unlocked")
  /\ \E rc \in {"ErrorNone", "ErrorUnknown"} : Set(t, Return_(t, rc, {}))
  /\ UNCHANGED <<lockVars, rdContent, rdIterators, rdDestroyed>>

lockForRead(t) ==
  /\ \/ At(t, "read") /\ CountRead(t) /\ Move(t, "reading")
     \/ At(t, "read") /\ lockingThread # t /\ TakeReadMutex(t) /\ Move(t, "readMain")
     \/ At(t, "readMain") /\ TakeMainForRead(t) /\ Move(t, "reading")
  /\ UNCHANGED <<rdContent, rdIterators, rdDestroyed>>

Copies(t) == UNION {{st} \X (1..rdContent[st]) : st \in {x \in RdStatements : StatementMatches(x, t)}}
Listed(t) == LET copies == SetToSeq(Copies(t)) IN [i \in DOMAIN copies |-> copies[i][1]]

\* listStatements, listContexts, executeQuery: the iterator keeps the lock, when
\* librdf returns one.  allStatements closes it at the end.
openIterator(t) ==
  /\ At(t, "reading") /\ rdCall[t].op = "list"
  /\ \/ rdIterators' = Append(rdIterators, t) /\ UNCHANGED lockVars
     \/ UNCHANGED rdIterators /\ unlock(t)
  /\ Set(t, Return_(t, "ErrorNone", {}))
  /\ UNCHANGED <<rdContent, rdDestroyed>>

\* containsStatement, containsAnyStatement, statementCount
readOnce(t) ==
  /\ At(t, "reading") /\ rdCall[t].op = "count"
  /\ unlock(t)
  /\ Set(t, Return_(t, "ErrorNone", {}))
  /\ UNCHANGED <<rdContent, rdIterators, rdDestroyed>>

\* allStatements of the invalid iterator of a failed listing is empty; nobody asks
\* for its error.
listForRemoval(t) ==
  /\ At(t, "reading") /\ rdCall[t].op = "removeAll"
  /\ unlock(t)
  /\ \E unlisted \in BOOLEAN :
       Set(t, [rdCall[t] EXCEPT !.at = "write", !.unlisted = unlisted, !.since = {},
                                !.todo = IF unlisted THEN <<>> ELSE Listed(rdCall[t].arg)])
  /\ UNCHANGED <<rdContent, rdIterators, rdDestroyed>>

closeIterator_(t) ==
  /\ At(t, "idle") /\ OpenOf(t) > 0 /\ rdDestroyed = "no"
  /\ LET k == CHOOSE j \in DOMAIN rdIterators : rdIterators[j] = t
     IN rdIterators' = RemoveAt(rdIterators, k)
  /\ unlock(t)
  /\ UNCHANGED <<rdContent, rdCall, rdDestroyed>>
-----------------------------------------------------------------------------
enterWrite(t) ==
  /\ At(t, "write") /\ lockForWrite(t)
  /\ Move(t, "writing")
  /\ UNCHANGED <<rdContent, rdIterators, rdDestroyed>>

\* the other threads note what is added meanwhile (for the property)
Added(t, st, call) ==
  rdCall' = [u \in RdThreads |-> IF u = t THEN call ELSE [rdCall[u] EXCEPT !.since = @ \cup {st}]]

AddedCount(st) == IF IsEmpty(st.c) THEN 1 ELSE rdContent[st] + 1

addStatement(t) ==
  /\ At(t, "writing") /\ rdCall[t].op = "add"
  /\ LET st == rdCall[t].arg
     IN \/ /\ AddedCount(st) <= MaxCopies
           /\ rdContent' = [rdContent EXCEPT ![st] = AddedCount(st)]
           /\ Added(t, st, Return_(t, "ErrorNone", {"statementAdded", "statementsAdded"}))
        \/ UNCHANGED rdContent /\ Set(t, Return_(t, "ErrorUnknown", {}))
  /\ unlock(t)
  /\ UNCHANGED <<rdIterators, rdDestroyed>>

\* removeOneStatement: one copy goes; it announces below the lock.
RemoveOne(st, next, failed) ==
  \/ rdContent[st] > 0 /\ rdContent' = [rdContent EXCEPT ![st] = @ - 1] /\ next
  \/ rdContent[st] = 0 /\ UNCHANGED rdContent /\ next
  \/ UNCHANGED rdContent /\ failed

removeStatement(t) ==
  LET st == rdCall[t].arg
  IN /\ At(t, "writing") /\ (rdCall[t].op = "remove" \/ (rdCall[t].op = "removeAll" /\ ~Partial(st)))
     /\ \/ /\ StatementValid(st)
           /\ RemoveOne(st, Set(t, Return_(t, "ErrorNone", {"statementRemoved", "statementsRemoved"})),
                        Set(t, Return_(t, "ErrorUnknown", {})))
        \/ ~StatementValid(st) /\ UNCHANGED rdContent /\ Set(t, Return_(t, "ErrorInvalidArgument", {}))
     /\ unlock(t)
     /\ UNCHANGED <<rdIterators, rdDestroyed>>

removeContext(t) ==
  LET c == rdCall[t].arg
  IN /\ At(t, "writing") /\ rdCall[t].op = "removeAll" /\ ContextOnly(c)
     /\ \/ /\ rdContent' = [st \in RdStatements |-> IF StatementMatches(st, c) THEN 0 ELSE rdContent[st]]
           /\ Set(t, Return_(t, "ErrorNone", {"statementRemoved", "statementsRemoved"}))
        \/ UNCHANGED rdContent /\ Set(t, Return_(t, "ErrorUnknown", {}))
     /\ unlock(t)
     /\ UNCHANGED <<rdIterators, rdDestroyed>>

\* What was listed is removed one by one; the first failure ends it.
RemovingListed(t) ==
  At(t, "writing") /\ rdCall[t].op = "removeAll" /\ ~ContextOnly(rdCall[t].arg) /\ Partial(rdCall[t].arg)

removeListed(t) ==
  /\ RemovingListed(t) /\ rdCall[t].todo # <<>>
  /\ \/ /\ RemoveOne(rdCall[t].todo[1],
                     Set(t, [rdCall[t] EXCEPT !.todo = Tail(@), !.done = 1, !.signals = {"statementRemoved"}]),
                     FALSE)
        /\ UNCHANGED lockVars
     \/ /\ RemoveOne(rdCall[t].todo[1], FALSE, Set(t, Return_(t, "ErrorUnknown", {})))
        /\ unlock(t)
  /\ UNCHANGED <<rdIterators, rdDestroyed>>

listedRemoved(t) ==
  /\ RemovingListed(t) /\ rdCall[t].todo = <<>>
  /\ unlock(t)
  /\ Set(t, Return_(t, "ErrorNone", IF rdCall[t].done > 0 THEN {"statementsRemoved"} ELSE {}))
  /\ UNCHANGED <<rdContent, rdIterators, rdDestroyed>>

\* ~RedlandModel: close() takes the iterator out of the list the loop runs over,
\* so every second one stays open, and of an odd number the loop passes the end.
destroyModel_(t) ==
  /\ rdDestroyed = "no" /\ \A u \in RdThreads : At(u, "idle")
  /\ rdDestroyed' = IF rdIterators = <<>> THEN "closed" ELSE "broken"
  /\ rdIterators' = IF Len(rdIterators) % 2 = 0
                    THEN [k \in 1..(Len(rdIterators) \div 2) |-> rdIterators[2 * k]] ELSE rdIterators
  /\ UNCHANGED <<lockVars, rdContent, rdCall>>

RdNext ==
  \E t \in RdThreads :
    \/ \E st \in RdStatements : begin(t, "add", st) \/ begin(t, "remove", st)
    \/ \E tm \in RdTemplates : begin(t, "removeAll", tm)
    \/ \E op \in {"list", "count", "blank"} : begin(t, op, EmptyStatement)
    \/ refused(t) \/ createBlankNode(t) \/ lockForRead(t) \/ openIterator(t) \/ readOnce(t) \/ listForRemoval(t)
    \/ closeIterator_(t) \/ enterWrite(t) \/ addStatement(t) \/ removeStatement(t)
    \/ removeContext(t) \/ removeListed(t) \/ listedRemoved(t) \/ destroyModel_(t)
-----------------------------------------------------------------------------
(***************************************************************************)
(* While one thread writes no other has a read lock, and two never have    *)
(* one; the lock is free when nobody is in a call and no iterator is open, *)
(* so it cannot be lost.  Of librdf itself this says less: createBlankNode *)
(* calls it without the lock.                                              *)
(***************************************************************************)
Readers == {t \in RdThreads : At(t, "reading")} \cup {rdIterators[k] : k \in DOMAIN rdIterators}
Writers == {t \in RdThreads : At(t, "writing")}
LockExact ==
  rdDestroyed = "no" =>
    /\ Cardinality(Writers) <= 1 /\ Cardinality(Readers) <= 1
    /\ Writers = {} \/ Readers = {}
    /\ Readers = {} /\ Writers = {} => mainMutex = [write |-> "none", read |-> FALSE] /\ lockCnt = 0
    /\ lockCnt = Len(rdIterators) + Cardinality({t \in RdThreads : At(t, "reading")})

\* A thread that waits is let in when the others have closed their iterators.
SomebodyMoves ==
  (\E t \in RdThreads : rdCall[t].at \in {"read", "readMain", "write"}) =>
    \/ rdIterators # <<>> \/ Writers # {}
    \/ \E t \in RdThreads : \/ At(t, "read") /\ readMutex = "none"
                            \/ At(t, "readMain") /\ mainMutex.write = "none"
                            \/ At(t, "write") /\ mainMutex = [write |-> "none", read |-> FALSE]
                            \/ At(t, "reading")

(***************************************************************************)
(* removeAllStatements lists and removes under two locks: when it could    *)
(* list and reports success, nothing it was asked to remove is left but    *)
(* what another thread has added since it listed.  Of a statement given as *)
(* a whole, which may be there several times, it removes one copy only.    *)
(***************************************************************************)
ReportsRemoved(t) ==
  /\ rdCall[t].op = "removeAll" /\ Partial(rdCall[t].arg) /\ At(t, "writing")
  /\ rdCall'[t].at = "idle" /\ rdCall'[t].rc = "ErrorNone"
LeftOnlyAdded(t) ==
  \A st \in RdStatements :
    StatementMatches(st, rdCall[t].arg) => rdContent'[st] = 0 \/ st \in rdCall[t].since
RemovedAllGone ==
  [][\A t \in RdThreads : ReportsRemoved(t) /\ ~rdCall[t].unlisted => LeftOnlyAdded(t)]_rdVars

(***************************************************************************)
(* model.h of removeAllStatements: "Remove all statements that match the   *)
(* partial statement", whether they could be listed or not.                *)
(***************************************************************************)
SuccessIsRemoval == [][\A t \in RdThreads : ReportsRemoved(t) => LeftOnlyAdded(t)]_rdVars

(***************************************************************************)
(* The Redland model's locks keep writers from readers without anybody     *)
(* waiting for ever, and what it could list and says it has removed is gone.*)
(***************************************************************************)
RedlandSound == [](LockExact /\ SomebodyMoves) /\ RemovedAllGone
=============================================================================
