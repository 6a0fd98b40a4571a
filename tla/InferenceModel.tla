--------------------------- MODULE InferenceModel ---------------------------
(***************************************************************************)
(* soprano/inference/inferencemodel.cpp: a FilterModel that keeps its      *)
(* parent closed under a set of rules.  What it infers goes into a graph   *)
(* of its own, whose sources are recorded in the InferenceMetaData graph,  *)
(* so that a removal can take back what was inferred from the statement.   *)
(*                                                                         *)
(* Inference and removal are recursive; a stack of frames holds the calls  *)
(* in progress, and one step is one turn of the innermost loop.  The order *)
(* of the answers of a query and of listed statements is not specified.    *)
(* The parent's removals may fail; inferRule ignores the result of its     *)
(* writes, which are taken to succeed.                                     *)
(***************************************************************************)
EXTENDS InferenceRules, Integers

CONSTANTS
  Rules,         \* the rules, in the order in which they were added
  UserAdds,      \* statements that callers add
  UserRemoves,   \* templates that callers remove
  MayFail        \* whether a removal of the parent may fail

VARIABLES
  infContent,    \* the parent model
  infStack,      \* calls in progress, the innermost first
  compressed, optimized,
  infCount,      \* what inferStatement has counted in this call
  infSignal,     \* the last add emitted statementsAdded itself
  infError,      \* some removal has returned an error
  infRemoved     \* what has been removed: nothing, a statement, the inference (for the properties)

infVars == <<infContent, infStack, compressed, optimized, infCount, infSignal,
             infError, infRemoved>>

ASSUME RulesAssumption == \A i \in DOMAIN Rules : RuleValid(Rules[i])

Uri(u) == Resource(<<u>>)
RdfType == Uri("rdf:type")
InferenceGraph == Uri("sil:InferenceGraph")
SourceStatement == Uri("sil:sourceStatement")
InferenceMetaData == Uri("sil:InferenceMetaData")
RdfStatement == Uri("rdf:Statement")

Meta(s, p, o) == Statement(s, p, o, InferenceMetaData)

\* The text of a statement, without its context, as a literal
CompressStatement(st) ==
  Literal(NodeText(st.s) \o NodeText(st.p) \o NodeText(st.o) \o <<st.o.type>>)

\* Random URIs never collide.  They are named here after what they are made
\* for, with the first number the model does not use yet.
Numbers == <<"1", "2", "3", "4">>
CreateRandomUri(content, purpose) ==
  LET uri(i) == Resource(<<"inference:", Numbers[i]>> \o purpose)
      used(i) == \E st \in content : uri(i) \in {st.s, st.o, st.c}
  IN uri(CHOOSE i \in DOMAIN Numbers : ~used(i) /\ \A j \in 1..(i - 1) : used(j))
-----------------------------------------------------------------------------
InfInit ==
  /\ infContent = {}
  /\ infStack = <<>>
  /\ compressed = TRUE /\ optimized = FALSE
  /\ infCount = 0 /\ infSignal = FALSE /\ infError = FALSE
  /\ infRemoved = "nothing"

InfIdle == infStack = <<>>
Top == Head(infStack)
InTop(kind) == ~InfIdle /\ Top.kind = kind
ReplaceTop(frame) == <<frame>> \o Tail(infStack)

\* The frames: the rules still to try for a statement, the answers of one
\* rule's query, the new statements to recurse into, and the two of a removal.
RulesFrame(st, rule) == [kind |-> "rules", st |-> st, rule |-> rule]
AnswersFrame(st, rule, answers) ==
  [kind |-> "answers", st |-> st, rule |-> rule, todo |-> answers, inferred |-> {}]
RecurseFrame(todo) == [kind |-> "recurse", todo |-> todo]
RemoveFrame(todo) == [kind |-> "remove", todo |-> todo]
GraphsFrame(todo) == [kind |-> "graphs", todo |-> todo]
-----------------------------------------------------------------------------
\* The callers choose the options before they use the model.
setCompressedSourceStatements(b) ==
  /\ InfIdle /\ infContent = {}
  /\ compressed' = b
  /\ UNCHANGED <<infContent, infStack, optimized, infCount, infSignal, infError, infRemoved>>

setOptimizedQueriesEnabled(b) ==
  /\ InfIdle /\ infContent = {}
  /\ optimized' = b
  /\ UNCHANGED <<infContent, infStack, compressed, infCount, infSignal, infError, infRemoved>>

infAddStatement(st) ==
  /\ InfIdle
  /\ infContent' = infContent \cup {st}
  /\ infStack' = <<RulesFrame(st, 1)>>
  /\ infCount' = 0 /\ infSignal' = FALSE
  /\ UNCHANGED <<compressed, optimized, infError, infRemoved>>

\* Every rule in turn, bound to no statement; EmptyStatement stands for "all".
performInference ==
  /\ InfIdle
  /\ infStack' = <<RulesFrame(EmptyStatement, 1)>>
  /\ infCount' = 0 /\ infSignal' = FALSE
  /\ UNCHANGED <<infContent, compressed, optimized, infError, infRemoved>>
-----------------------------------------------------------------------------
\* inferStatement: the rules that match, in order; at the end of the outermost
\* one addStatement emits its signal.
inferStatement ==
  /\ InTop("rules")
  /\ LET st == Top.st
         i == Top.rule
         next == RulesFrame(st, i + 1)
     IN \/ /\ i > Len(Rules)
           /\ infStack' = Tail(infStack)
           /\ infSignal' = (Len(infStack) = 1 /\ infCount > 0 /\ st # EmptyStatement)
        \/ /\ i <= Len(Rules)
           /\ infStack' =
                IF st = EmptyStatement \/ RuleMatch(Rules[i], st)
                THEN <<AnswersFrame(st, i, ExecuteQuery(infContent,
                         CreateSparqlQuery(Rules[i], st, optimized)))>> \o ReplaceTop(next)
                ELSE ReplaceTop(next)
           /\ UNCHANGED infSignal
  /\ UNCHANGED <<infContent, compressed, optimized, infCount, infError, infRemoved>>

\* The metadata of a new graph: its type, and each source as a literal or as
\* a reified statement with a URI of its own.
StoreUncompressedSourceStatement(uri, source) ==
  {Meta(uri, RdfType, RdfStatement), Meta(uri, Uri("rdf:subject"), source.s),
   Meta(uri, Uri("rdf:predicate"), source.p), Meta(uri, Uri("rdf:object"), source.o)}

GraphMetaData(content, graph, sources) ==
  LET uri(st) == CreateRandomUri(content, NodeText(graph) \o NodeText(CompressStatement(st)))
  IN {Meta(graph, RdfType, InferenceGraph)} \cup
     IF compressed
     THEN {Meta(graph, SourceStatement, CompressStatement(st)) : st \in sources}
     ELSE UNION {{Meta(graph, SourceStatement, uri(st))} \cup
                 StoreUncompressedSourceStatement(uri(st), st) : st \in sources}

\* inferRule: one answer of the query.  A valid effect that no graph contains
\* is stored in a new graph; the recursion starts when the answers are used up.
inferRule ==
  /\ InTop("answers")
  /\ \/ /\ Top.todo = {}
        /\ infStack' = <<RecurseFrame(Top.inferred)>> \o Tail(infStack)
        /\ UNCHANGED <<infContent, infCount>>
     \/ \E b \in Top.todo :
          LET rule == Rules[Top.rule]
              effect == BindEffect(rule, Top.st, b)
              isNew == StatementValid(effect) /\ ~ContainsAnyStatement(infContent, effect)
              graph == CreateRandomUri(infContent, NodeText(CompressStatement(effect)))
              stored == SetContext(effect, graph)
          IN /\ infContent' = IF isNew
                              THEN infContent \cup {stored} \cup
                                   GraphMetaData(infContent, graph, BindPreconditions(rule, Top.st, b))
                              ELSE infContent
             /\ infCount' = IF isNew THEN infCount + 1 ELSE infCount
             /\ infStack' = ReplaceTop([Top EXCEPT !.todo = @ \ {b},
                                          !.inferred = IF isNew THEN @ \cup {stored} ELSE @])
  /\ UNCHANGED <<compressed, optimized, infSignal, infError, infRemoved>>

inferRecursively ==
  /\ InTop("recurse")
  /\ \/ Top.todo = {} /\ infStack' = Tail(infStack)
     \/ \E st \in Top.todo :
          infStack' = <<RulesFrame(st, 1)>> \o ReplaceTop(RecurseFrame(Top.todo \ {st}))
  /\ UNCHANGED <<infContent, compressed, optimized, infCount, infSignal, infError, infRemoved>>
-----------------------------------------------------------------------------
\* removeAllStatements does nothing for a literal object.
infRemoveAllStatements(template) ==
  /\ InfIdle
  /\ ~IsLiteral(template.o)
  /\ infStack' = <<RemoveFrame(ListStatements(infContent, template))>>
  /\ UNCHANGED <<infContent, compressed, optimized, infCount, infSignal, infError, infRemoved>>

\* The graphs that have the statement among their sources
InferedGraphsForStatement(content, st) ==
  IF compressed
  THEN {x.s : x \in ListStatements(content,
                      Meta(Empty, SourceStatement, CompressStatement(st)))}
  ELSE LET having(p, n) == {x.s : x \in ListStatements(content, Statement(Empty, Uri(p), n, Empty))}
           sources == having("rdf:subject", st.s) \cap having("rdf:predicate", st.p)
                      \cap having("rdf:object", st.o)
       IN {x.s : x \in {y \in content : y.p = SourceStatement /\ y.o \in sources}}

\* One call of removeStatement up to its loop over the graphs; the callers'
\* loops stop at an error.
removeStatement ==
  /\ InTop("remove")
  /\ \/ /\ Top.todo = {}
        /\ infStack' = Tail(infStack)
        /\ UNCHANGED <<infContent, infError, infRemoved>>
     \/ \E st \in Top.todo :
          \/ /\ infContent' = infContent \ {st}
             /\ infStack' = <<GraphsFrame(InferedGraphsForStatement(infContent \ {st}, st))>>
                            \o ReplaceTop(RemoveFrame(Top.todo \ {st}))
             /\ infRemoved' = IF infRemoved = "nothing" THEN "statement" ELSE infRemoved
             /\ UNCHANGED infError
          \/ /\ MayFail
             /\ infStack' = <<>> /\ infError' = TRUE
             /\ UNCHANGED <<infContent, infRemoved>>
  /\ UNCHANGED <<compressed, optimized, infCount, infSignal>>

\* One graph of that loop: its reified sources, its metadata, then removeContext,
\* which recurses through removeAllStatements.
GraphSources(content, graph) ==
  {x.o : x \in ListStatements(content, Meta(graph, SourceStatement, Empty))}

RemoveSources(content, graph) ==
  IF compressed THEN content
  ELSE {x \in content : ~\E u \in GraphSources(content, graph) :
                           StatementMatches(x, Meta(u, Empty, Empty))}

removeInferedGraph ==
  /\ InTop("graphs")
  /\ \/ /\ Top.todo = {}
        /\ infStack' = Tail(infStack)
        /\ UNCHANGED <<infContent, infError>>
     \/ \E graph \in Top.todo :
          LET step1 == RemoveSources(infContent, graph)
              step2 == {x \in step1 : ~StatementMatches(x, Meta(graph, Empty, Empty))}
          IN \/ /\ infContent' = step2
                /\ infStack' = <<RemoveFrame(ListStatements(step2, InContext(graph)))>>
                               \o ReplaceTop(GraphsFrame(Top.todo \ {graph}))
                /\ UNCHANGED infError
             \/ /\ MayFail
                /\ infContent' \in {infContent, step1}
                /\ infStack' = <<>> /\ infError' = TRUE
  /\ UNCHANGED <<compressed, optimized, infCount, infSignal, infRemoved>>

clearInference ==
  /\ InfIdle
  /\ LET graphs == {x.s : x \in ListStatements(infContent,
                                  Statement(Empty, RdfType, InferenceGraph, Empty))}
     IN infContent' = {x \in infContent : x.c \notin graphs \cup {InferenceMetaData}}
  /\ infRemoved' = "inference"
  /\ UNCHANGED <<infStack, compressed, optimized, infCount, infSignal, infError>>
-----------------------------------------------------------------------------
InfNext ==
  \/ \E b \in BOOLEAN : setCompressedSourceStatements(b) \/ setOptimizedQueriesEnabled(b)
  \/ \E st \in UserAdds : infAddStatement(st)
  \/ \E template \in UserRemoves : infRemoveAllStatements(template)
  \/ performInference \/ clearInference
  \/ inferStatement \/ inferRule \/ inferRecursively
  \/ removeStatement \/ removeInferedGraph
-----------------------------------------------------------------------------
Inferred == {x \in infContent : ~IsEmpty(x.c) /\ Head(NodeText(x.c)) = "inference:"}
Triples == {Triple(x) : x \in infContent}
HasSource(st, graph) == graph \in InferedGraphsForStatement(infContent, st)

(***************************************************************************)
(* What is inferred is always justified: when no call is in progress and   *)
(* no removal has failed, every statement in an inference graph is the     *)
(* effect of a rule whose preconditions are all in the model, and the      *)
(* metadata names each of them, so that removing any one takes the         *)
(* statement back (removeStatement, inferRule).                            *)
(***************************************************************************)
InferredSupported ==
  InfIdle /\ ~infError =>
    \A x \in Inferred : \E i \in DOMAIN Rules :
      \E b \in AnswersOf(infContent, Rules[i].pre) :
        /\ BindStatementPattern(Rules[i].effect, b) = Triple(x)
        /\ \A j \in DOMAIN Rules[i].pre : HasSource(BindStatementPattern(Rules[i].pre[j], b), x.c)

(***************************************************************************)
(* Until something is removed, adding a statement leaves the model closed  *)
(* under the rules (inferStatement recurses into what it infers).  With    *)
(* optimized queries a rule with one precondition has an empty query and   *)
(* is not applied, so the closure is under the others.                     *)
(***************************************************************************)
ClosedWhileAdding ==
  InfIdle /\ infRemoved = "nothing" /\ ~optimized =>
    \A i \in DOMAIN Rules : \A b \in AnswersOf(infContent, Rules[i].pre) :
      LET effect == BindStatementPattern(Rules[i].effect, b)
      IN StatementValid(effect) => effect \in Triples

(***************************************************************************)
(* What is inferred is right: no more than the rules justify, and all that *)
(* they give for as long as statements are only added.                     *)
(***************************************************************************)
InferenceExact == InferredSupported /\ ClosedWhileAdding

(***************************************************************************)
(* inferencemodel.h: "does perfect inference on update", adding as well as *)
(* removing, but for a statement in two named graphs.  What the rules give *)
(* from the statements of the callers is in the model, also after one of   *)
(* its two derivations is removed (removeStatement does not look for the   *)
(* other one).                                                             *)
(***************************************************************************)
PerfectInference ==
  InfIdle /\ ~infError /\ ~optimized /\ infRemoved # "inference" =>
    \A i \in DOMAIN Rules : \A b \in AnswersOf(infContent, Rules[i].pre) :
      LET effect == BindStatementPattern(Rules[i].effect, b)
      IN StatementValid(effect) => effect \in Triples
=============================================================================
