----------------------------- MODULE Sopranocmd -----------------------------
(***************************************************************************)
(* tools/sopranocmd.cpp and tools/modelmonitor.cpp: a command line is      *)
(* parsed into settings and arguments, a model is created from the         *)
(* settings, and one command is executed on it.                            *)
(*                                                                         *)
(* A word of the command line is an option [dashes, name] or [dashes, text]*)
(* with a text that may have the form of a node ([form, ...]).  The        *)
(* metadata that NRLModel adds to the graphs it creates is not part of the *)
(* content here.                                                           *)
(***************************************************************************)
EXTENDS Rdf, Integers, FiniteSets, SequencesExt

CONSTANTS
  CmLines,       \* command lines
  CmContents,    \* what the stores hold
  CmFile,        \* the statements of the file that is imported
  CmPrefixes,    \* prefixes the ontologies define: prefix -> text of the namespace
  CmSignals      \* statements whose changes a monitored model reports

ASSUME CmLinesAssumption == \A line \in CmLines : IsFiniteSet(DOMAIN line)
ASSUME CmFileAssumption == CmFile \in Seq(ToSet(CmFile))

VARIABLES
  cmLine,        \* the arguments of the program
  cmPc,          \* where main is
  cmStart,       \* what the store held at first (for the properties)
  cmContent,     \* what the model holds
  cmRemote,      \* isRemoteModel
  cmTodo,        \* statements that importFile has not added yet
  cmGraph,       \* the graph importFile has created, or Empty
  cmOutput,      \* statements printed or written
  cmStatus,      \* exit status
  cmCounts       \* addedCnt and removedCnt of the monitor

cmVars == <<cmLine, cmPc, cmStart, cmContent, cmRemote, cmTodo, cmGraph, cmOutput, cmStatus, cmCounts>>

CmSettings == {"model", "backend", "settings", "dir", "port", "host", "username", "password", "socket",
               "dbus", "sparql", "serialization", "querylang", "file", "index", "graphselect"}
CmOptions == {"version", "help", "nrl", "foo"}

CmInit ==
  /\ cmLine \in CmLines /\ cmPc = "start"
  /\ cmStart \in CmContents /\ cmContent = cmStart
  /\ cmRemote = FALSE /\ cmTodo = <<>> /\ cmGraph = Empty
  /\ cmOutput = {} /\ cmStatus = -1 /\ cmCounts = [added |-> 0, removed |-> 0]
-----------------------------------------------------------------------------
\* CmdLineArgs::parseCmdLine: a setting takes the next word, which has no dashes.
TakesValue(i) == cmLine[i].dashes /\ cmLine[i].name \in CmSettings
IsValue(i) == i > 1 /\ TakesValue(i - 1)
IsArgument(i) == ~cmLine[i].dashes /\ ~IsValue(i)

LineParses ==
  \A i \in DOMAIN cmLine : cmLine[i].dashes =>
    /\ cmLine[i].name \in CmSettings \cup CmOptions
    /\ \A j \in 1..(i - 1) : ~IsArgument(j)
    /\ TakesValue(i) => i < Len(cmLine) /\ ~cmLine[i + 1].dashes

hasSetting(name) == \E i \in DOMAIN cmLine : TakesValue(i) /\ cmLine[i].name = name
optionSet(name) == \E i \in DOMAIN cmLine : cmLine[i].dashes /\ cmLine[i].name = name /\ name \in CmOptions
getSetting(name) ==
  cmLine[1 + CHOOSE i \in DOMAIN cmLine : /\ TakesValue(i) /\ cmLine[i].name = name
                                          /\ \A j \in DOMAIN cmLine : TakesValue(j) /\ cmLine[j].name = name => j <= i].text
CmArgs ==
  LET positions == {i \in DOMAIN cmLine : IsArgument(i)}
      nth(k) == CHOOSE i \in positions : Cardinality({j \in positions : j <= i}) = k
  IN  [k \in 1..Cardinality(positions) |-> cmLine[nth(k)].text]

command == IF CmArgs[1].text = <<>> THEN "" ELSE Head(CmArgs[1].text)
-----------------------------------------------------------------------------
\* The NRL model is found only when no index lies above it.
HasNrlModel == optionSet("nrl") /\ ~hasSetting("index") /\ cmPc # "fileimport"

\* parseNode.  A prefix that is not known and a literal that its type does not allow
\* give the empty node.
parseNode(token) ==
  CASE token.form = "empty" -> Empty
    [] token.form = "uri" -> Resource(token.text)
    [] token.form = "blank" -> Blank(token.text)
    [] token.form = "typed" -> IF token.valid THEN Literal(token.text) ELSE Empty
    [] token.form = "plain" -> Literal(token.text)
    [] token.form = "prefixed" -> IF HasNrlModel /\ token.prefix \in DOMAIN CmPrefixes
                                  THEN Resource(CmPrefixes[token.prefix] \o token.text) ELSE Empty
    [] OTHER -> IF token.text = <<"a">> THEN Resource(<<"rdf:type">>) ELSE Literal(token.text)

\* the node of an argument, or the empty node if there are fewer
NodeArgument(i) == IF Len(CmArgs) > i THEN parseNode(CmArgs[i + 1]) ELSE Empty

StatementArgument == Statement(NodeArgument(1), NodeArgument(2), NodeArgument(3), NodeArgument(4))

NodesAccepted ==
  /\ Len(CmArgs) <= 5
  /\ ~IsLiteral(NodeArgument(1)) /\ ~IsLiteral(NodeArgument(4))
  /\ IsResource(NodeArgument(2)) \/ IsEmpty(NodeArgument(2))
-----------------------------------------------------------------------------
CmReturn(status) == cmPc' = "done" /\ cmStatus' = status
KeepLine == UNCHANGED <<cmLine, cmStart>>

\* printUsage: 0 with an error message, 1 without
UsageWithError == 0
Usage == 1

ServerParameter == hasSetting("dbus") \/ hasSetting("socket") \/ hasSetting("sparql") \/ hasSetting("model")

MixedParameters ==
  \/ hasSetting("backend") /\ ServerParameter
  \/ (hasSetting("dir") \/ hasSetting("settings")) /\ ~hasSetting("backend")
  \/ hasSetting("file") /\ (ServerParameter \/ \E s \in {"username", "password", "host", "port", "dir"} : hasSetting(s))
  \/ \A s \in {"model", "backend", "file", "sparql"} : ~hasSetting(s)

cmParse ==
  /\ cmPc = "start"
  /\ CASE ~LineParses -> CmReturn(1)
       [] LineParses /\ optionSet("version") -> CmReturn(0)
       [] LineParses /\ ~optionSet("version") /\ optionSet("help") -> CmReturn(Usage)
       [] LineParses /\ ~optionSet("version") /\ ~optionSet("help") /\ MixedParameters -> CmReturn(UsageWithError)
       [] OTHER -> cmPc' = "model" /\ UNCHANGED cmStatus
  /\ KeepLine /\ UNCHANGED <<cmContent, cmRemote, cmTodo, cmGraph, cmOutput, cmCounts>>

\* main stops when there is no command, whatever model it has created.
ModelCreated == IF CmArgs = <<>> THEN CmReturn(Usage) ELSE cmPc' = "command" /\ UNCHANGED cmStatus

\* A model in memory with the statements of the file, if the file can be read
createMemoryModel ==
  \/ cmContent' = {} /\ cmTodo' = CmFile /\ cmPc' = "fileimport" /\ UNCHANGED cmStatus
  \/ \E status \in {1, 2} : CmReturn(status) /\ UNCHANGED <<cmContent, cmTodo>>

\* The ways to a model, in the order main asks for them.  A server may not answer,
\* and a model may not be created.
cmCreateModel ==
  /\ cmPc = "model" /\ KeepLine
  /\ \/ /\ hasSetting("sparql")
        /\ cmRemote' = TRUE /\ ModelCreated /\ UNCHANGED <<cmContent, cmTodo>>
     \/ /\ ~hasSetting("sparql") /\ hasSetting("port") /\ ~hasSetting("backend")
        /\ CmReturn(1) /\ UNCHANGED <<cmRemote, cmContent, cmTodo>>
     \/ /\ ~hasSetting("sparql") /\ ~(hasSetting("port") /\ ~hasSetting("backend"))
        /\ hasSetting("socket") \/ hasSetting("dbus")
        /\ \/ cmRemote' = TRUE /\ ModelCreated
           \/ \E status \in {2, 3} : CmReturn(status) /\ UNCHANGED cmRemote
        /\ UNCHANGED <<cmContent, cmTodo>>
     \/ /\ ~ServerParameter /\ hasSetting("file")
        /\ createMemoryModel /\ UNCHANGED cmRemote
     \/ /\ ~ServerParameter /\ ~hasSetting("file") /\ hasSetting("backend")
        /\ \/ (hasSetting("settings") => getSetting("settings").form = "pairs") /\ ModelCreated
           \/ \E status \in {1, 2} : CmReturn(status)
        /\ UNCHANGED <<cmRemote, cmContent, cmTodo>>
     \/ /\ hasSetting("model") /\ \A s \in {"sparql", "port", "socket", "dbus", "file", "backend"} : ~hasSetting(s)
        /\ CmReturn(4) /\ UNCHANGED <<cmRemote, cmContent, cmTodo>>
  /\ UNCHANGED <<cmGraph, cmOutput, cmCounts>>
-----------------------------------------------------------------------------
\* importFile, one statement at a time; a statement that fails ends it.  A statement
\* without a context goes to a graph that is created for the file.
ImportContext(st) ==
  IF IsEmpty(st.c) /\ HasNrlModel THEN IF IsEmpty(cmGraph) THEN Resource(<<"new graph">>) ELSE cmGraph ELSE st.c

importOne ==
  /\ cmPc \in {"fileimport", "import"} /\ cmTodo # <<>> /\ KeepLine
  /\ cmGraph' = IF IsEmpty(Head(cmTodo).c) THEN ImportContext(Head(cmTodo)) ELSE cmGraph
  /\ \/ /\ cmContent' = cmContent \cup {SetContext(Head(cmTodo), ImportContext(Head(cmTodo)))}
        /\ cmTodo' = Tail(cmTodo)
        /\ UNCHANGED <<cmPc, cmStatus>>
     \/ CmReturn(2) /\ UNCHANGED <<cmContent, cmTodo>>
  /\ UNCHANGED <<cmRemote, cmOutput, cmCounts>>

importEnds ==
  /\ cmPc \in {"fileimport", "import"} /\ cmTodo = <<>> /\ KeepLine
  /\ IF cmPc = "import" THEN CmReturn(0) ELSE ModelCreated
  /\ UNCHANGED <<cmContent, cmRemote, cmTodo, cmGraph, cmOutput, cmCounts>>
-----------------------------------------------------------------------------
InCommand(names) == cmPc = "command" /\ command \in names /\ KeepLine
SameModel == UNCHANGED <<cmContent, cmRemote, cmTodo, cmGraph, cmCounts>>

\* lastError of the model after the command
ExecutionEnds == \E status \in {0, 2} : CmReturn(status)

cmImport ==
  /\ InCommand({"import"})
  /\ \/ Len(CmArgs) # 2 /\ CmReturn(Usage) /\ UNCHANGED cmTodo
     \/ /\ Len(CmArgs) = 2
        /\ \/ cmPc' = "import" /\ cmTodo' = CmFile /\ UNCHANGED cmStatus
           \/ \E status \in {1, 2} : CmReturn(status) /\ UNCHANGED cmTodo   \* no parser, or it fails
  /\ UNCHANGED <<cmContent, cmRemote, cmGraph, cmOutput, cmCounts>>

\* What printing and writing may come to: a serializer may be missing or fail.
Printed(out, status) == [out |-> out, status |-> status]
serializeData(sts) == {Printed(sts, 0), Printed({}, 1), Printed({}, 2)}

printStatementList(sts) ==
  IF ~hasSetting("file") /\ hasSetting("serialization") THEN serializeData(sts)
  ELSE {Printed(sts, 0), Printed({}, 2)}

exportFile(sts) == serializeData(sts) \cup {Printed({}, 1)}   \* the file cannot be opened

\* what a construct query gives
ConstructAll == {Triple(st) : st \in cmContent}

printQueryResult(kind) ==
  CASE kind = "bool" -> {Printed({}, 0)}
    [] kind = "graph" -> printStatementList(ConstructAll)
    [] kind = "bindings" /\ hasSetting("graphselect") ->
         IF getSetting("graphselect").count = 4 THEN printStatementList(cmContent) ELSE {Printed({}, 1)}
    [] kind = "bindings" /\ ~hasSetting("graphselect") -> {Printed(cmContent, 0), Printed({}, 2)}

cmExport ==
  /\ InCommand({"export"})
  /\ \/ Len(CmArgs) \notin {2, 3} /\ CmReturn(Usage) /\ UNCHANGED cmOutput
     \/ /\ Len(CmArgs) = 2 \/ (Len(CmArgs) = 3 /\ CmArgs[2].kind = "graph")
        /\ \E r \in exportFile(IF Len(CmArgs) = 2 THEN cmContent ELSE ConstructAll) :
             CmReturn(IF r.status = 0 THEN 0 ELSE 1) /\ cmOutput' = r.out
     \/ Len(CmArgs) = 3 /\ CmArgs[2].kind # "graph" /\ CmReturn(1) /\ UNCHANGED cmOutput
  /\ SameModel

\* How printing ends is not part of the exit status.
cmQuery ==
  LET refused == /\ ~hasSetting("file") /\ hasSetting("serialization")
                 /\ CmArgs[2].kind # "graph" /\ ~hasSetting("graphselect")
  IN  /\ InCommand({"query"})
      /\ \/ Len(CmArgs) = 1 /\ CmReturn(Usage) /\ UNCHANGED cmOutput
         \/ Len(CmArgs) > 1 /\ refused /\ CmReturn(1) /\ UNCHANGED cmOutput
         \/ /\ Len(CmArgs) > 1 /\ ~refused
            /\ \E r \in printQueryResult(CmArgs[2].kind) : cmOutput' = r.out
            /\ ExecutionEnds
      /\ SameModel

\* Each graph is removed before the next argument is parsed; only the failure of the
\* last removal is seen.
cmRmgraph ==
  LET nodes == [i \in 1..(Len(CmArgs) - 1) |-> parseNode(CmArgs[i + 1])]
      bad == \E i \in DOMAIN nodes : IsEmpty(nodes[i])
      removed == {nodes[i] : i \in {j \in DOMAIN nodes : \A k \in 1..j : ~IsEmpty(nodes[k])}}
  IN  /\ InCommand({"rmgraph"})
      /\ IF bad THEN CmReturn(1) ELSE ExecutionEnds
      /\ \E failed \in SUBSET removed :
           /\ ~bad /\ cmStatus' = 0 /\ nodes # <<>> => Last(nodes) \notin failed
           /\ cmContent' = {st \in cmContent : st.c \notin removed \ failed}
      /\ UNCHANGED <<cmRemote, cmTodo, cmGraph, cmOutput, cmCounts>>

\* list, add, remove and monitor: settings that they do not take, then the nodes
NodeCommands == {"list", "add", "remove", "rm", "monitor"}
OtherSetting == (~hasSetting("file") /\ hasSetting("serialization")) \/ hasSetting("querylang")

cmRefuse ==
  /\ cmPc = "command" /\ command \notin {"import", "export", "query", "rmgraph"} /\ KeepLine
  /\ \/ OtherSetting /\ CmReturn(UsageWithError)
     \/ ~OtherSetting /\ (~NodesAccepted \/ command \notin NodeCommands) /\ CmReturn(1)
     \/ ~OtherSetting /\ NodesAccepted /\ command = "add" /\ ~StatementValid(StatementArgument) /\ CmReturn(1)
     \/ ~OtherSetting /\ NodesAccepted /\ command = "monitor" /\ ~cmRemote /\ CmReturn(1)
  /\ SameModel /\ UNCHANGED cmOutput

cmList ==
  /\ InCommand({"list"}) /\ ~OtherSetting /\ NodesAccepted
  /\ \E r \in printStatementList(ListStatements(cmContent, StatementArgument)) : cmOutput' = r.out
  /\ ExecutionEnds
  /\ SameModel

cmAdd ==
  /\ InCommand({"add"}) /\ ~OtherSetting /\ NodesAccepted /\ StatementValid(StatementArgument)
  /\ \/ CmReturn(0) /\ cmContent' = cmContent \cup {StatementArgument}
     \/ CmReturn(2) /\ UNCHANGED cmContent
  /\ UNCHANGED <<cmRemote, cmTodo, cmGraph, cmOutput, cmCounts>>

cmRemove ==
  /\ InCommand({"remove", "rm"}) /\ ~OtherSetting /\ NodesAccepted
  /\ \/ CmReturn(0) /\ cmContent' = cmContent \ ListStatements(cmContent, StatementArgument)
     \/ /\ CmReturn(2)                                    \* some of them, before the error
        /\ \E some \in SUBSET ListStatements(cmContent, StatementArgument) : cmContent' = cmContent \ some
  /\ UNCHANGED <<cmRemote, cmTodo, cmGraph, cmOutput, cmCounts>>

\* ModelMonitor::monitor: the event loop runs until a signal stops it.
cmMonitor ==
  /\ InCommand({"monitor"}) /\ ~OtherSetting /\ NodesAccepted /\ cmRemote
  /\ cmPc' = "monitor"
  /\ UNCHANGED <<cmContent, cmRemote, cmTodo, cmGraph, cmOutput, cmStatus, cmCounts>>

RemovedMatches_Exact(st, pattern) == StatementMatches(st, pattern)

\* a removed statement may be the pattern of a removal: empty nodes match on both sides
EitherMatches(n, m) == IsEmpty(n) \/ IsEmpty(m) \/ NodeEquals(n, m)
RemovedMatches(st, pattern) ==
  /\ EitherMatches(st.s, pattern.s) /\ EitherMatches(st.p, pattern.p)
  /\ EitherMatches(st.o, pattern.o) /\ EitherMatches(st.c, pattern.c)

\* Another client adds the statement, or removes all that match it.
CmMaxEvents == 2
slotStatementAdded(st) ==
  /\ cmPc = "monitor" /\ st \notin cmContent /\ StatementValid(st) /\ KeepLine
  /\ cmCounts.added + cmCounts.removed < CmMaxEvents
  /\ cmContent' = cmContent \cup {st}
  /\ IF StatementMatches(st, StatementArgument)
     THEN cmCounts' = [cmCounts EXCEPT !.added = @ + 1] /\ cmOutput' = cmOutput \cup {st}
     ELSE UNCHANGED <<cmCounts, cmOutput>>
  /\ UNCHANGED <<cmPc, cmRemote, cmTodo, cmGraph, cmStatus>>

slotStatementRemoved(template) ==
  /\ cmPc = "monitor" /\ ContainsAnyStatement(cmContent, template) /\ KeepLine
  /\ cmCounts.added + cmCounts.removed < CmMaxEvents
  /\ cmContent' = cmContent \ ListStatements(cmContent, template)
  /\ IF RemovedMatches(template, StatementArgument)
     THEN cmCounts' = [cmCounts EXCEPT !.removed = @ + 1] /\ cmOutput' = cmOutput \cup {template}
     ELSE UNCHANGED <<cmCounts, cmOutput>>
  /\ UNCHANGED <<cmPc, cmRemote, cmTodo, cmGraph, cmStatus>>

stopMonitoring ==
  /\ cmPc = "monitor" /\ KeepLine
  /\ CmReturn(0)
  /\ SameModel /\ UNCHANGED cmOutput
-----------------------------------------------------------------------------
CmNext ==
  \/ cmParse \/ cmCreateModel \/ importOne \/ importEnds
  \/ cmImport \/ cmExport \/ cmQuery \/ cmRmgraph \/ cmRefuse \/ cmList \/ cmAdd \/ cmRemove \/ cmMonitor
  \/ \E st \in CmSignals : slotStatementAdded(st) \/ slotStatementRemoved(st)
  \/ stopMonitoring
-----------------------------------------------------------------------------
\* The statements that all the given arguments allow: an argument that stands for no node
\* (empty, a prefix nobody defined, a literal that is not of its type) allows every node.
Allowed(st, k) ==
  /\ Len(CmArgs) > k
  => LET node == <<st.s, st.p, st.o, st.c>>[k]
         token == CmArgs[k + 1]
     IN  \/ parseNode(token) = Empty
         \/ NodeEquals(node, parseNode(token))

\* status 0, and not that of a usage text
Executed == /\ cmStatus = 0
            /\ ~MixedParameters /\ ~optionSet("version") /\ (~OtherSetting \/ command = "import")

AskedFor(st) == \A k \in 1..4 : Allowed(st, k)

Imported == {SetContext(st, IF IsEmpty(st.c) /\ optionSet("nrl") /\ ~hasSetting("index")
                            THEN Resource(<<"new graph">>) ELSE st.c) : st \in ToSet(CmFile)}

Is(names) == LineParses /\ CmArgs # <<>> /\ command \in names
Gone == cmStart \ cmContent
Added == cmContent \ cmStart

\* What is changed in the store is what was asked for, and all of it.
ChangesExact ==
  /\ Gone # {} => Is({"remove", "rm", "rmgraph"})
  /\ Added # {} => Is({"add", "import"})
  /\ Is({"remove", "rm"}) => \A st \in Gone : AskedFor(st)
  /\ Is({"remove", "rm"}) /\ Executed => \A st \in cmContent : ~AskedFor(st)
  /\ Is({"rmgraph"}) => \A st \in Gone : \E i \in 2..Len(CmArgs) : parseNode(CmArgs[i]) = st.c
  /\ Is({"add"}) => \A st \in Added : AskedFor(st) /\ Len(CmArgs) >= 4
  /\ Is({"import"}) => Added \subseteq Imported
  /\ Is({"import"}) /\ Executed => Imported \subseteq cmContent

ListExact == Is({"list"}) => \A st \in cmOutput : AskedFor(st)

\* What the monitor has printed
Monitored ==
  /\ \A st \in Added : AskedFor(st) => st \in cmOutput
  /\ \A st \in Gone : AskedFor(st) => \E r \in cmOutput : StatementMatches(st, r)

\* A command changes what its arguments name and nothing else: remove takes away exactly the
\* statements that match each of its nodes, in their order, add and import only add their own,
\* rmgraph removes no other graph, everything else leaves the store as it was; when the program
\* ends with status 0 after remove or import the change is complete; and a monitor prints every
\* change of a statement its pattern allows (main, importFile, ModelMonitor).
CommandsExact ==
  cmPc \in {"done", "monitor"} =>
    /\ ~hasSetting("file") /\ ~Is({"monitor"}) => ChangesExact
    /\ ListExact
    /\ cmRemote /\ Is({"monitor"}) => Monitored
=============================================================================
