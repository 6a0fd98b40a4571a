--------------------------- MODULE InferenceRules ---------------------------
(***************************************************************************)
(* soprano/inference: node patterns, statement patterns and rules, and     *)
(* what the SPARQL query built from a rule returns.  The query text itself *)
(* is abstracted to the graph patterns it consists of; evaluating them is  *)
(* the parent model's part.                                                *)
(***************************************************************************)
EXTENDS Rdf, SequencesExt

\* NodePattern: a variable or a node
Var(name) == [variable |-> TRUE, name |-> name, node |-> Empty]
Term(node) == [variable |-> FALSE, name |-> "", node |-> node]

NodePatternMatch(np, n) == np.variable \/ NodeEquals(n, np.node)
NodePatternValid(np) == (np.variable /\ np.name # "") \/ ~IsEmpty(np.node)

\* In a query a bound variable is written as a URI, also when it is bound to
\* a literal or a blank node.
CreateSparqlNodePattern(np, bindings) ==
  IF np.variable
  THEN IF np.name \in DOMAIN bindings THEN Term(Resource(NodeText(bindings[np.name]))) ELSE np
  ELSE np
-----------------------------------------------------------------------------
StatementPattern(s, p, o) == [s |-> s, p |-> p, o |-> o]

PatternMatch(sp, st) ==
  /\ NodePatternMatch(sp.s, st.s)
  /\ NodePatternMatch(sp.p, st.p)
  /\ NodePatternMatch(sp.o, st.o)

PatternValid(sp) == NodePatternValid(sp.s) /\ NodePatternValid(sp.p) /\ NodePatternValid(sp.o)

CreateSparqlGraphPattern(sp, bindings) ==
  StatementPattern(CreateSparqlNodePattern(sp.s, bindings),
                   CreateSparqlNodePattern(sp.p, bindings),
                   CreateSparqlNodePattern(sp.o, bindings))

\* The variables of a pattern bound to the statement in its three positions.
BindNode(b, np, n) == IF np.variable THEN BindingInsert(b, np.name, n) ELSE b
BindPattern(b, sp, st) == BindNode(BindNode(BindNode(b, sp.s, st.s), sp.p, st.p), sp.o, st.o)
-----------------------------------------------------------------------------
\* Rule: the preconditions in their order and one effect
Rule(preconditions, effect) == [pre |-> preconditions, effect |-> effect]
RuleValid(rule) == rule.pre # <<>> /\ PatternValid(rule.effect)
\* A bug: a rule is tried when its first precondition fits.
RuleMatch_First(rule, st) == PatternMatch(rule.pre[1], st)
RuleMatch(rule, st) == \E i \in DOMAIN rule.pre : PatternMatch(rule.pre[i], st)

\* The bindings already make the effect an invalid statement.
EffectRuledOut(rule, b) ==
  \/ /\ rule.effect.s.variable /\ rule.effect.s.name \in DOMAIN b
     /\ IsLiteral(b[rule.effect.s.name])
  \/ /\ rule.effect.p.variable /\ rule.effect.p.name \in DOMAIN b
     /\ ~IsResource(b[rule.effect.p.name])

\* The subquery for precondition i: all the others, with i's variables bound.
SubQuery(rule, st, i) ==
  LET b == BindPattern(NoBindings, rule.pre[i], st)
  IN [j \in 1..(Len(rule.pre) - 1) |->
        CreateSparqlGraphPattern(rule.pre[IF j < i THEN j ELSE j + 1], b)]

\* A query is the set of its UNION branches, each a sequence of graph patterns.
\* One branch without patterns is the empty query, which is not executed.
CreateSparqlQuery(rule, st, bindStatement) ==
  LET bound == {i \in DOMAIN rule.pre :
                  /\ PatternMatch(rule.pre[i], st)
                  /\ ~EffectRuledOut(rule, BindPattern(NoBindings, rule.pre[i], st))}
      branches == IF ~bindStatement \/ ~StatementValid(st) THEN {rule.pre}
                  ELSE {SubQuery(rule, st, i) : i \in bound}
  IN IF branches = {<<>>} THEN {} ELSE branches

BoundNode(np, b) == IF np.variable THEN BindingValue(b, np.name) ELSE np.node

BindStatementPattern(sp, b) ==
  Statement(BoundNode(sp.s, b), BoundNode(sp.p, b), BoundNode(sp.o, b), Empty)

\* external: the answers of a SPARQL engine, the join of the graph patterns
Extensions(content, b, sp) ==
  LET merged(st) == BindPattern(b, sp, st)
      agrees(st) == /\ \A v \in DOMAIN b : merged(st)[v] = b[v]
                    /\ BindStatementPattern(sp, merged(st)) = SetContext(st, Empty)
  IN {merged(st) : st \in {x \in content : agrees(x)}}

AnswersOf(content, patterns) ==
  FoldSeq(LAMBDA sp, bs : UNION {Extensions(content, b, sp) : b \in bs}, {NoBindings}, patterns)

ExecuteQuery(content, query) == UNION {AnswersOf(content, branch) : branch \in query}
-----------------------------------------------------------------------------
\* A precondition none of whose variables the query has bound is taken to be
\* the one that was left out, and is bound to the statement.
MergeBindingStatement(rule, st, b) ==
  LET bound(np) == np.variable /\ ~IsEmpty(BindingValue(b, np.name))
      leftOut(sp) == ~bound(sp.s) /\ ~bound(sp.p) /\ ~bound(sp.o)
  IN FoldLeft(LAMBDA bs, sp : IF leftOut(sp) THEN BindPattern(bs, sp, st) ELSE bs, b, rule.pre)

BindEffect(rule, st, b) == BindStatementPattern(rule.effect, MergeBindingStatement(rule, st, b))

BindPreconditions(rule, st, b) ==
  {BindStatementPattern(rule.pre[i], MergeBindingStatement(rule, st, b)) : i \in DOMAIN rule.pre}
=============================================================================
