--------------------------- MODULE VirtuosoModel ---------------------------
(***************************************************************************)
(* The Virtuoso backend as its user sees it: BackendPlugin::createModel,   *)
(* the DatabaseConfigurator, VirtuosoModel, the decoding of a result       *)
(* column and the kinds of results of QueryResultIteratorBackend.          *)
(*                                                                         *)
(* External: the server keeps statements in named graphs, one of which,    *)
(* the openlink virtual graph, is its own; it keeps a boolean as an SQL    *)
(* integer, and may fail every command and every query.                    *)
(***************************************************************************)
EXTENDS Rdf, Integers, FiniteSets

CONSTANTS
  VmStatements,      \* statements that are added and removed
  VmTemplates,       \* partial statements that are listed and removed
  VmWantedIndexes    \* values of the setting "indexes", sets of names

ASSUME VmStatementsAssumption == \A st \in VmStatements \cup VmTemplates : IsStatement(st)

VARIABLES
  vmOptions,   \* m_supportEmptyGraphs, m_fakeBooleans, m_noStatementSignals, version >= 6.1.5
  vmModel,     \* "none", "created" or "failed"
  vmController, \* the controller: "none", "child" of the model or "leaked"
  vmIndexes,   \* indexes of the server
  vmContent,   \* quads in the server
  vmCall,      \* the last call
  vmResult     \* the query result that is open

vmVars == <<vmOptions, vmModel, vmController, vmIndexes, vmContent, vmCall, vmResult>>

defaultGraph == Resource(<<"sopranofakes:/DEFAULTGRAPH">>)
openlinkVirtualGraph == Resource(<<"virtrdf#">>)

Typed(value, type) == Literal(<<value, type>>)
IsTyped(n, type) == IsLiteral(n) /\ Len(n.text) = 2 /\ n.text[2] = type

NoCallYet == [op |-> "none", arg |-> EmptyStatement, rc |-> "ErrorNone", failed |-> FALSE,
              signals |-> {}, before |-> {}]
NoResult == [type |-> "none", rows |-> 0, names |-> <<>>, valid |-> FALSE]

VmInit ==
  /\ vmOptions \in [emptyGraphs : BOOLEAN, fakeBooleans : BOOLEAN, noSignals : BOOLEAN, deleteWhere : BOOLEAN]
  /\ vmModel = "none" /\ vmController = "none"
  /\ vmIndexes = {"SPOG", "POGS"}
  /\ vmContent = {Statement(openlinkVirtualGraph, openlinkVirtualGraph, openlinkVirtualGraph, openlinkVirtualGraph)}
  /\ vmCall = NoCallYet
  /\ vmResult = NoResult
-----------------------------------------------------------------------------
\* verifyIndex
ValidIndexes == {"SPOG", "POGS", "OPSG", "GSPO", "GPOS", "POSG"}
defaultIndexes == {"SPOG", "POSG", "OPSG", "GSPO", "GPOS"}

\* updateIndexes: no command's failure is noticed.
updateIndexes(setting) ==
  LET wanted == IF setting = {} THEN defaultIndexes ELSE setting
  IN \E dropped \in SUBSET (vmIndexes \ wanted), made \in SUBSET ((wanted \ vmIndexes) \cap ValidIndexes) :
       vmIndexes' = (vmIndexes \ dropped) \cup made

configureServer == UNCHANGED vmIndexes \/ \E setting \in VmWantedIndexes : updateIndexes(setting)

\* createModel: a local server is started first, then the driver looked for and
\* a connection made; when these fail the controller is forgotten.
createModel(local) ==
  /\ vmModel = "none"
  /\ \/ /\ vmModel' = "created"
        /\ vmController' = IF local THEN "child" ELSE "none"
        /\ configureServer
     \/ /\ vmModel' = "failed"       \* no storage path, no binary, no version, no start
        /\ local
        /\ UNCHANGED <<vmController, vmIndexes>>
     \/ /\ vmModel' = "failed"       \* no driver, no connection
        /\ vmController' = IF local THEN "leaked" ELSE "none"
        /\ UNCHANGED vmIndexes
  /\ UNCHANGED <<vmOptions, vmContent, vmCall, vmResult>>
-----------------------------------------------------------------------------
\* external: what the server makes of a literal it is given
Stored(n) == IF IsTyped(n, "boolean") THEN Typed(IF n.text[1] = "true" THEN "1" ELSE "0", "integer") ELSE n
StoredStatement(st) == [st EXCEPT !.o = Stored(@)]

\* statementToConstructGraphPattern, not parameterized: a literal of a type the
\* server does not have gets a fake type.
FakeType(n) ==
  CASE vmOptions.fakeBooleans /\ IsTyped(n, "boolean") -> Typed(n.text[1], "fakeboolean")
    [] IsTyped(n, "base64Binary") -> Typed(n.text[1], "fakebase64Binary")
    [] OTHER -> n
Pattern(st) == [st EXCEPT !.o = Stored(FakeType(@))]

\* getData: the type of the column decides, a fake type becomes the real one.
getData(n) ==
  CASE IsTyped(n, "fakeboolean") -> Typed(n.text[1], "boolean")
    [] IsTyped(n, "fakebase64Binary") -> Typed(n.text[1], "base64Binary")
    [] OTHER -> n

\* A missing context is the default graph, or not allowed.
GraphKnown(st) == ~IsEmpty(st.c) \/ vmOptions.emptyGraphs
WithGraph_Any(st) == st

WithGraph(st) == IF IsEmpty(st.c) THEN SetContext(st, defaultGraph) ELSE st

\* A result is apart from the content: queries are made before the first write
\* (a bound of the model).
Usable == vmModel = "created" /\ vmResult = NoResult
QueriesFirst == vmModel = "created" /\ vmCall = NoCallYet
Record(op, arg, rc, failed, signals) ==
  vmCall' = [op |-> op, arg |-> arg, rc |-> rc, failed |-> failed, signals |-> signals, before |-> vmContent]
Signals(names) == IF vmOptions.noSignals THEN {} ELSE names
Refuse(op, arg) == Record(op, arg, "ErrorInvalidArgument", FALSE, {}) /\ UNCHANGED vmContent

\* The literal goes in as a parameter, with its own type.  executeCommand
\* returns ErrorNone whether the server has obeyed or not.
VmAddStatement(st) ==
  /\ Usable
  /\ \/ ~(StatementValid(st) /\ GraphKnown(st)) /\ Refuse("add", st)
     \/ /\ StatementValid(st) /\ GraphKnown(st)
        /\ \E failed \in BOOLEAN :
             /\ vmContent' = IF failed THEN vmContent ELSE vmContent \cup {StoredStatement(WithGraph(st))}
             /\ Record("add", st, "ErrorNone", failed, Signals({"statementAdded", "statementsAdded"}))
  /\ UNCHANGED <<vmOptions, vmModel, vmController, vmIndexes, vmResult>>

\* Here the signals are emitted all the same, but the error is returned.
Command(op, arg, content) ==
  \E failed \in BOOLEAN :
    /\ vmContent' = IF failed THEN vmContent ELSE content
    /\ Record(op, arg, IF failed THEN "ErrorUnknown" ELSE "ErrorNone", failed,
              Signals({"statementRemoved", "statementsRemoved"}))

Removable(st) == StatementValid(st) /\ GraphKnown(st) /\ st.c # openlinkVirtualGraph
VmRemoveStatement(st) ==
  /\ Usable
  /\ \/ ~Removable(st) /\ Refuse("remove", st)
     \/ Removable(st) /\ Command("remove", st, vmContent \ ListStatements(vmContent, Pattern(WithGraph(st))))
  /\ UNCHANGED <<vmOptions, vmModel, vmController, vmIndexes, vmResult>>

\* One graph; the default graph by name is refused after the deed when empty
\* graphs are not supported and signals are wanted.
RemoveInGraph(t) ==
  \/ t.c = openlinkVirtualGraph /\ Refuse("removeAll", t)
  \/ /\ t.c # openlinkVirtualGraph
     /\ \/ /\ t.c # defaultGraph \/ vmOptions.emptyGraphs \/ vmOptions.noSignals
           /\ Command("removeAll", t, vmContent \ ListStatements(vmContent, Pattern(t)))
        \/ /\ t.c = defaultGraph /\ ~vmOptions.emptyGraphs /\ ~vmOptions.noSignals
           /\ \E failed \in BOOLEAN :
                /\ vmContent' = IF failed THEN vmContent ELSE vmContent \ ListStatements(vmContent, Pattern(t))
                /\ Record("removeAll", t, "ErrorInvalidArgument", failed, Signals({"statementsRemoved"}))

\* Without a context: one command, which reaches the server's own graph too.
\* Before 6.1.5 a query lists the graphs that match, and there is one command for
\* each until one fails or the default graph is refused after the deed.  A query
\* that fails, at once or at a row, lists fewer graphs, and is not noticed.
RefusedLate(done) == defaultGraph \in done /\ ~vmOptions.emptyGraphs /\ ~vmOptions.noSignals
RemoveInGraphs(t) ==
  LET matching == ListStatements(vmContent, Pattern(t))
      graphs == {x.c : x \in matching} \ {openlinkVirtualGraph}
  IN \/ vmOptions.deleteWhere /\ Command("removeAll", t, vmContent \ matching)
     \/ /\ ~vmOptions.deleteWhere
        /\ \E listed \in SUBSET graphs : \E done \in SUBSET listed :
             /\ vmContent' = {x \in vmContent : ~(x \in matching /\ x.c \in done)}
             /\ Record("removeAll", t,
                       CASE RefusedLate(done) -> "ErrorInvalidArgument"
                         [] ~RefusedLate(done) /\ done # listed -> "ErrorUnknown"
                         [] OTHER -> "ErrorNone",
                       listed # graphs \/ (done # listed /\ ~RefusedLate(done)),
                       IF done = {} THEN {} ELSE Signals({"statementRemoved", "statementsRemoved"}))

VmRemoveAllStatements(t) ==
  /\ Usable
  /\ IF IsEmpty(t.c) THEN RemoveInGraphs(t) ELSE RemoveInGraph(t)
  /\ UNCHANGED <<vmOptions, vmModel, vmController, vmIndexes, vmResult>>
-----------------------------------------------------------------------------
\* The queries, as functions of the content.  The default graph is listed by
\* its own name: next() has put it in the cache before binding() converts it.
VmContainsAnyStatement(t) == ContainsAnyStatement(vmContent, Pattern(t))
\* What is returned for a context that is missing is an error code, as a boolean.
VmContainsStatement(st) == StatementValid(st) /\ (GraphKnown(st) => VmContainsAnyStatement(WithGraph(st)))

VmListStatements(t) ==
  {[x EXCEPT !.o = IF IsEmpty(t.o) THEN getData(@) ELSE t.o, !.c = getData(@)] :
     x \in {y \in ListStatements(vmContent, Pattern(t)) : IsEmpty(t.c) => y.c # openlinkVirtualGraph}}
VmListContexts == {x.c : x \in vmContent} \ {defaultGraph, openlinkVirtualGraph}
VmStatementCount == Cardinality({x \in vmContent : x.c # openlinkVirtualGraph})

\* Kinds of results, from the columns and, for a graph in one column, its type
ResultType(names, blob) ==
  CASE names = <<"__ASK_RETVAL">> -> "AskResult"
    [] names \in {<<"callret-0">>, <<"fmtaggret-">>} /\ blob -> "GraphResult"
    [] names \in {<<"callret-0">>, <<"fmtaggret-">>} /\ ~blob -> "MethodCallResult"
    [] OTHER -> "BindingResult"
isGraph(r) == r.type = "GraphResult" \/ (r.type = "BindingResult" /\ r.names = <<"S", "P", "O">>)
isBinding(r) == r.type \in {"BindingResult", "MethodCallResult"}
isBool(r) == r.type = "AskResult"

\* executeQuery: a language that is neither SPARQL nor "sql" is refused.  The
\* constructor has fetched the first row but for bindings.
ColumnLists == {<<"__ASK_RETVAL">>, <<"callret-0">>, <<"S", "P", "O">>, <<"a", "b">>}
VmExecuteQuery ==
  /\ QueriesFirst
  /\ \/ vmResult' = NoResult
     \/ \E names \in ColumnLists, blob \in BOOLEAN, rows \in 0..2 :
          /\ Len(names) = 1 \/ ~blob
          /\ vmResult' = [type |-> IF names = <<"callret-0">> /\ rows = 0 THEN "UnknownResult"
                                   ELSE ResultType(names, blob),
                          rows |-> IF names = <<"callret-0">> /\ ~blob /\ rows > 1 THEN 1 ELSE rows,
                          names |-> names, valid |-> FALSE]
  /\ UNCHANGED <<vmOptions, vmModel, vmController, vmIndexes, vmContent, vmCall>>

\* next(): a value that cannot be fetched ends the iteration
VmNext_ ==
  /\ vmResult.type # "none"
  /\ \/ /\ vmResult.type \in {"GraphResult", "MethodCallResult", "BindingResult"} /\ vmResult.rows > 0
        /\ vmResult' = [vmResult EXCEPT !.rows = @ - 1, !.valid = TRUE]
     \/ /\ vmResult.type \in {"AskResult", "UnknownResult"} \/ vmResult.rows = 0 \/ vmResult.type = "BindingResult"
        /\ vmResult' = [vmResult EXCEPT !.rows = 0, !.valid = FALSE]
  /\ UNCHANGED <<vmOptions, vmModel, vmController, vmIndexes, vmContent, vmCall>>

\* close(): no result, no rows; the names stay
VmClose ==
  /\ vmResult.type # "none"
  /\ vmResult' = [vmResult EXCEPT !.rows = IF vmResult.type = "MethodCallResult" THEN @ ELSE 0]
  /\ UNCHANGED <<vmOptions, vmModel, vmController, vmIndexes, vmContent, vmCall>>

VmNext ==
  \/ \E local \in BOOLEAN : createModel(local)
  \/ \E st \in VmStatements : VmAddStatement(st) \/ VmRemoveStatement(st)
  \/ \E t \in VmTemplates : VmRemoveAllStatements(t)
  \/ VmExecuteQuery \/ VmNext_ \/ VmClose

VmSpec == VmInit /\ [][VmNext]_vmVars
-----------------------------------------------------------------------------
(***************************************************************************)
(* A removal that reports success has removed exactly what the model would *)
(* have found, in no other context, and one that reports an error it did   *)
(* not get from the server has removed nothing; the server's own graph is  *)
(* left alone as long as it can be.  The known exceptions are named: the   *)
(* default graph is refused late, and when the query that lists the graphs *)
(* fails, success may be reported with graphs left as they were; nothing   *)
(* is said of them, but that no graph is left half done.                   *)
(***************************************************************************)
LateRefusal == vmCall.arg.c \in {defaultGraph, Empty} /\ ~vmOptions.emptyGraphs
UnlistedGraphs == ~vmOptions.deleteWhere /\ vmCall.op = "removeAll" /\ IsEmpty(vmCall.arg.c) /\ vmCall.failed
ReachesAllGraphs == vmOptions.deleteWhere /\ vmCall.op = "removeAll" /\ IsEmpty(vmCall.arg.c)

RemovalsExact ==
  vmCall.op \in {"remove", "removeAll"} =>
    /\ vmCall.rc = "ErrorNone" =>
         LET gone == vmCall.before \ vmContent
             t == vmCall.arg
         IN /\ vmCall.op = "remove" => ~VmContainsStatement(t)
            /\ vmCall.op = "removeAll" =>
                 \/ VmListStatements(t) = {}
                 \/ UnlistedGraphs /\ \A x \in gone, y \in ListStatements(vmContent, Pattern(t)) : x.c # y.c
            /\ \A x \in gone : /\ StatementMatches(Triple(x), Pattern(Triple(t)))
                               /\ x.c = t.c \/ (IsEmpty(t.c) /\ (vmCall.op = "removeAll" \/ x.c = defaultGraph))
    /\ vmCall.rc # "ErrorNone" /\ ~vmCall.failed => LateRefusal \/ vmContent = vmCall.before
    /\ ReachesAllGraphs \/ openlinkVirtualGraph \in {x.c : x \in vmContent}
       \/ openlinkVirtualGraph \notin {x.c : x \in vmCall.before}
=============================================================================
