---------------------------- MODULE FilterModels ----------------------------
(***************************************************************************)
(* A stack of models: a ReadOnlyModel on a SignalCacheModel (a FilterModel)*)
(* on a storage model or a DummyModel, called by several threads.  Sources:*)
(* soprano/model.cpp, storagemodel.cpp, filtermodel.cpp, error.cpp and     *)
(* util/readonlymodel.cpp, dummymodel.cpp, signalcachemodel.cpp.           *)
(*                                                                         *)
(* A call on the filter is forwarded to the parent and then copies the     *)
(* parent's last error: two steps, between which other threads run.  Every *)
(* model keeps its last error per thread (ErrorCache).  The storage model  *)
(* is external: it refuses invalid statements, may fail, and emits its     *)
(* signals, which reach the filter directly.                               *)
(***************************************************************************)
EXTENDS Rdf, FiniteSets, SequencesExt

CONSTANTS
  Threads, FmStatements,
  FmMaxCalls     \* bound on the calls that all threads make

ErrorNone == "ErrorNone"
InvalidArgument == "ErrorInvalidArgument"
NotSupported == "ErrorNotSupported"
PermissionDenied == "ErrorPermissionDenied"
Unknown == "ErrorUnknown"

Parents == {"storage", "dummy"}
Objects == Parents \cup {"filter", "readonly"}

VARIABLES
  fmContent,            \* the storage model
  fmParent,             \* FilterModel::Private::parent
  fmError,              \* ErrorCache::Private::errorMap of each model
  fmCall,               \* per thread: the call in progress
  addTimer, removeTimer,  \* SignalCacheModel::Private, whether they are active
  unannounced,          \* signals of the parent that the filter has not emitted yet
  emitting,             \* the signal whose listeners are running, or "none"
  reentered,            \* a listener has written while it was notified
  fmCalls               \* calls made

fmVars == <<fmContent, fmParent, fmError, fmCall, addTimer, removeTimer, unannounced,
            emitting, reentered, fmCalls>>

NoCall == [op |-> "none", todo |-> <<>>, phase |-> "idle", rc |-> ErrorNone, parentRc |-> ErrorNone]

FmInit ==
  /\ fmContent = {}
  /\ fmParent = "storage"
  /\ fmError = [o \in Objects |-> [t \in Threads |-> ErrorNone]]
  /\ fmCall = [t \in Threads |-> NoCall]
  /\ addTimer = FALSE /\ removeTimer = FALSE
  /\ unannounced = {} /\ emitting = "none" /\ reentered = FALSE
  /\ fmCalls = 0
-----------------------------------------------------------------------------
(***************************************************************************)
(* ErrorCache: setError stores an error for the calling thread and clears  *)
(* it for "no error"; both are an update of the thread's entry.            *)
(***************************************************************************)
SetErrorShared(o, t, code) == fmError' = [fmError EXCEPT ![o] = [x \in Threads |-> code]]

SetError(o, t, code) == fmError' = [fmError EXCEPT ![o][t] = code]

\* convertErrorCode: what a backend reports outside 0..5 is an unknown error
ConvertErrorCode(code) ==
  IF code \in {ErrorNone, InvalidArgument, NotSupported, "ErrorParsingFailed",
               PermissionDenied, "ErrorTimeout"}
  THEN code ELSE Unknown
-----------------------------------------------------------------------------
(***************************************************************************)
(* The signals of the parent arrive at the filter: parentStatementsAdded   *)
(* and parentStatementsRemoved start a timer unless it is active already.  *)
(***************************************************************************)
ParentSignal(signal) ==
  /\ unannounced' = unannounced \cup {signal}
  /\ addTimer' = (addTimer \/ signal = "statementsAdded")
  /\ removeTimer' = (removeTimer \/ signal = "statementsRemoved")
  /\ reentered' = (reentered \/ emitting = signal)

NoSignal == UNCHANGED <<unannounced, addTimer, removeTimer, reentered>>

\* The parent returns to the filter.
Answer(t, code) == fmCall' = [fmCall EXCEPT ![t] = [fmCall[t] EXCEPT !.phase = "copy", !.parentRc = code]]

\* external: what a write of the storage model does
StorageWrite(t, st, content, signal) ==
  \/ /\ StatementValid(st)
     /\ fmContent' = content
     /\ IF content # fmContent THEN ParentSignal(signal) ELSE NoSignal
     /\ SetError("storage", t, ErrorNone)
     /\ Answer(t, ErrorNone)
  \/ \E code \in IF StatementValid(st) THEN {ConvertErrorCode("librdf")} ELSE {InvalidArgument} :
       /\ UNCHANGED fmContent /\ NoSignal
       /\ SetError("storage", t, code)
       /\ Answer(t, code)

\* StorageModel::removeAllStatements stops at the first statement that fails.
StorageRemoveAll(t, template) ==
  LET matching == ListStatements(fmContent, template)
  IN \E gone \in SUBSET matching :
       /\ fmContent' = fmContent \ gone
       /\ IF gone # {} THEN ParentSignal("statementsRemoved") ELSE NoSignal
       /\ LET code == IF gone = matching THEN ErrorNone ELSE Unknown
          IN /\ SetError("storage", t, code)
             /\ Answer(t, code)

\* DummyModel refuses everything.
DummyWrite(t) ==
  /\ SetError("dummy", t, NotSupported)
  /\ Answer(t, NotSupported)
  /\ UNCHANGED fmContent /\ NoSignal

DummyRead(t) ==
  /\ SetError("dummy", t, NotSupported)
  /\ Answer(t, ErrorNone)
  /\ UNCHANGED fmContent /\ NoSignal
-----------------------------------------------------------------------------
(***************************************************************************)
(* Calls of a thread.  A list is added or removed by one virtual call for  *)
(* each statement.                                                         *)
(***************************************************************************)
NewCall(t) == fmCall[t].phase = "idle" /\ fmCalls < FmMaxCalls /\ fmCalls' = fmCalls + 1
Begin(t, op, todo) ==
  /\ NewCall(t)
  /\ fmCall' = [fmCall EXCEPT ![t] = [NoCall EXCEPT !.op = op, !.todo = todo, !.phase = "call"]]
  /\ UNCHANGED <<fmContent, fmParent, fmError, addTimer, removeTimer, unannounced, emitting,
                 reentered>>

addStatements(t, list) == Begin(t, "add", list)
removeStatements(t, list) == Begin(t, "remove", list)
fmRemoveAllStatements(t, template) == Begin(t, "removeAll", <<template>>)
fmListStatements(t, template) == Begin(t, "list", <<template>>)

\* Model::removeContext refuses the empty context itself.
fmRemoveContext(t, c) ==
  IF IsEmpty(c)
  THEN /\ NewCall(t)
       /\ SetError("filter", t, InvalidArgument)
       /\ UNCHANGED <<fmContent, fmParent, fmCall, addTimer, removeTimer, unannounced,
                      emitting, reentered>>
  ELSE fmRemoveAllStatements(t, InContext(c))

\* FilterModel::addStatement and the others: the call on the parent ...
ForwardCall(t) ==
  LET call == fmCall[t]
      st == Head(call.todo)
  IN /\ call.phase = "call"
     /\ \/ fmParent = "dummy" /\ call.op # "list" /\ DummyWrite(t)
        \/ fmParent = "dummy" /\ call.op = "list" /\ DummyRead(t)
        \/ /\ fmParent = "storage" /\ call.op = "add"
           /\ StorageWrite(t, st, fmContent \cup {st}, "statementsAdded")
        \/ /\ fmParent = "storage" /\ call.op = "remove"
           /\ StorageWrite(t, st, fmContent \ {st}, "statementsRemoved")
        \/ fmParent = "storage" /\ call.op = "removeAll" /\ StorageRemoveAll(t, st)
        \/ /\ fmParent = "storage" /\ call.op = "list"
           /\ SetError("storage", t, ErrorNone) /\ Answer(t, ErrorNone)
           /\ UNCHANGED fmContent /\ NoSignal
     /\ UNCHANGED <<fmParent, emitting, fmCalls>>

\* ... and setError( d->parent->lastError() ); then the loop of addStatements
\* ends at an error, that of removeStatements goes on and keeps the last one.
Loop(call) ==
  LET rest == Tail(call.todo)
      rc == IF call.parentRc = ErrorNone THEN call.rc ELSE call.parentRc
      stop == rest = <<>> \/ (call.op = "add" /\ call.parentRc # ErrorNone)
  IN [call EXCEPT !.todo = rest, !.rc = rc, !.phase = IF stop THEN "return" ELSE "call"]

CopyError(t) ==
  /\ fmCall[t].phase = "copy"
  /\ SetError("filter", t, fmError[fmParent][t])
  /\ fmCall' = [fmCall EXCEPT ![t] = Loop(fmCall[t])]
  /\ UNCHANGED <<fmContent, fmParent, addTimer, removeTimer, unannounced, emitting,
                 reentered, fmCalls>>

fmReturn(t) ==
  /\ fmCall[t].phase = "return"
  /\ fmCall' = [fmCall EXCEPT ![t] = NoCall]
  /\ UNCHANGED <<fmContent, fmParent, fmError, addTimer, removeTimer, unannounced, emitting,
                 reentered, fmCalls>>

\* ReadOnlyModel: writes are refused, reads go to its parent, the filter.
readOnlyWrite(t) ==
  /\ NewCall(t)
  /\ SetError("readonly", t, PermissionDenied)
  /\ UNCHANGED <<fmContent, fmParent, fmCall, addTimer, removeTimer, unannounced, emitting,
                 reentered>>

readOnlyRead(t) ==
  /\ fmCall[t].phase = "return" /\ fmCall[t].op = "list"
  /\ SetError("readonly", t, fmError["filter"][t])
  /\ fmCall' = [fmCall EXCEPT ![t] = NoCall]
  /\ UNCHANGED <<fmContent, fmParent, addTimer, removeTimer, unannounced, emitting,
                 reentered, fmCalls>>

\* The four signals are disconnected from the old parent and connected to the new.
setParentModel(p) ==
  /\ \A t \in Threads : fmCall[t].phase = "idle"
  /\ fmParent' = p
  /\ UNCHANGED <<fmContent, fmError, fmCall, addTimer, removeTimer, unannounced, emitting,
                 reentered, fmCalls>>
-----------------------------------------------------------------------------
(***************************************************************************)
(* SignalCacheModel::timerEvent: the signal is emitted, which runs the     *)
(* listeners, and only then is the timer stopped.                          *)
(***************************************************************************)
TimerActive(signal) == IF signal = "statementsAdded" THEN addTimer ELSE removeTimer

timerEvent(signal) ==
  /\ emitting = "none" /\ TimerActive(signal)
  /\ emitting' = signal
  /\ unannounced' = unannounced \ {signal}
  /\ UNCHANGED <<fmContent, fmParent, fmError, fmCall, addTimer, removeTimer, reentered, fmCalls>>

stopTimer(signal) ==
  /\ emitting = signal
  /\ emitting' = "none"
  /\ addTimer' = (addTimer /\ signal # "statementsAdded")
  /\ removeTimer' = (removeTimer /\ signal # "statementsRemoved")
  /\ UNCHANGED <<fmContent, fmParent, fmError, fmCall, unannounced, reentered, fmCalls>>
-----------------------------------------------------------------------------
Lists == {<<st, x>> : st \in FmStatements, x \in FmStatements}
Templates == {EmptyStatement}
FmSignals == {"statementsAdded", "statementsRemoved"}

FmNext ==
  \/ \E t \in Threads :
       \/ \E list \in Lists : addStatements(t, list) \/ removeStatements(t, list)
       \/ \E x \in Templates : fmRemoveAllStatements(t, x) \/ fmListStatements(t, x)
       \/ \E st \in FmStatements : fmRemoveContext(t, st.c)
       \/ ForwardCall(t) \/ CopyError(t) \/ fmReturn(t)
       \/ readOnlyWrite(t) \/ readOnlyRead(t)
  \/ \E p \in Parents : setParentModel(p)
  \/ \E s \in FmSignals : timerEvent(s) \/ stopTimer(s)
-----------------------------------------------------------------------------
(***************************************************************************)
(* filtermodel.h: the filter "inherits" its parent's errors.  When a call  *)
(* returns, the last error the filter reports to the calling thread is the *)
(* one of that thread's own last call on the parent, whatever the other    *)
(* threads did between the call and the copy of the error.                 *)
(***************************************************************************)
ErrorInherited ==
  \A t \in Threads :
    fmCall[t].phase = "return" /\ ~(fmParent = "dummy" /\ fmCall[t].op = "list") =>
      fmError["filter"][t] = fmCall[t].parentRc

(***************************************************************************)
(* A change of the parent is announced: a signal that the SignalCacheModel *)
(* has swallowed is due as long as it has not been emitted since, except   *)
(* that timerEvent stops the timer after it has run the listeners and so   *)
(* drops the signal of a listener that writes to the model.                *)
(***************************************************************************)
NoSignalLost ==
  ~reentered => \A s \in unannounced : TimerActive(s)

(***************************************************************************)
(* What a filter hides of its parent it hands on: errors to the thread     *)
(* that caused them (FilterModel), changes to every listener, late         *)
(* (SignalCacheModel).                                                     *)
(***************************************************************************)
FiltersTransparent == ErrorInherited /\ NoSignalLost
=============================================================================
