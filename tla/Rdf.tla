-------------------------------- MODULE Rdf --------------------------------
(***************************************************************************)
(* The RDF values every model works on: soprano/node.cpp, statement.cpp,   *)
(* bindingset.cpp and the convenience methods of model.cpp and             *)
(* storagemodel.cpp that are pure functions of a model's content.          *)
(*                                                                         *)
(* A node is its type and its text, a sequence of strings (a compressed    *)
(* source statement is the text of three nodes).  A model's content is a   *)
(* set of statements.                                                      *)
(***************************************************************************)
EXTENDS Naturals, Sequences, FiniteSets, TLC

NoText == <<>>

Empty == [type |-> "EmptyNode", text |-> NoText]

\* Node( QUrl ), Node( QString ), Node( LiteralValue ): nothing gives the empty node.
Resource(uri) == IF uri = NoText THEN Empty ELSE [type |-> "ResourceNode", text |-> uri]
Blank(id) == IF id = NoText THEN Empty ELSE [type |-> "BlankNode", text |-> id]
Literal(value) == [type |-> "LiteralNode", text |-> value]

IsEmpty(n) == n.type = "EmptyNode"
IsLiteral(n) == n.type = "LiteralNode"
IsResource(n) == n.type = "ResourceNode"
IsBlank(n) == n.type = "BlankNode"

\* toString of a node, whatever its type
NodeText(n) == n.text

\* What a node is: there is one empty node.
IsNode(n) == n = [type |-> n.type, text |-> n.text] /\ (IsEmpty(n) => n = Empty)

NodeEquals(n, m) == n.type = m.type /\ (IsEmpty(n) \/ n.text = m.text)

\* the second node is the template
NodeMatches(n, template) == IsEmpty(template) \/ NodeEquals(n, template)
-----------------------------------------------------------------------------
Statement(s, p, o, c) == [s |-> s, p |-> p, o |-> o, c |-> c]

IsStatement(st) ==
  st = Statement(st.s, st.p, st.o, st.c) /\ IsNode(st.s) /\ IsNode(st.p) /\ IsNode(st.o) /\ IsNode(st.c)

EmptyStatement == Statement(Empty, Empty, Empty, Empty)

StatementEquals(st, other) ==
  /\ NodeEquals(st.s, other.s) /\ NodeEquals(st.p, other.p)
  /\ NodeEquals(st.o, other.o) /\ NodeEquals(st.c, other.c)

StatementMatches(st, template) ==
  /\ NodeMatches(st.s, template.s) /\ NodeMatches(st.p, template.p)
  /\ NodeMatches(st.o, template.o) /\ NodeMatches(st.c, template.c)

SetContext(st, c) == [st EXCEPT !.c = c]

\* a statement whatever its context
Triple(st) == SetContext(st, Empty)

StatementValid(st) ==
  /\ IsResource(st.s) \/ IsBlank(st.s)
  /\ IsResource(st.p)
  /\ ~IsEmpty(st.o)
  /\ ~IsEmpty(st.c) => IsResource(st.c)
-----------------------------------------------------------------------------
\* listStatements, implemented by each backend, and what Model derives from it
ListStatements(content, template) == {st \in content : StatementMatches(st, template)}

InContext(c) == Statement(Empty, Empty, Empty, c)

ContainsContext(content, c) == ListStatements(content, InContext(c)) # {}

ContainsStatement(content, st) ==
  /\ StatementValid(st)
  /\ \E x \in ListStatements(content, st) : StatementEquals(x, st)

ContainsAnyStatement(content, template) == ListStatements(content, template) # {}
-----------------------------------------------------------------------------
\* BindingSet: names to nodes; a second insert of a name hides the first value.
NoBindings == [v \in {} |-> Empty]
BindingValue(b, name) == IF name \in DOMAIN b THEN b[name] ELSE Empty
BindingInsert(b, name, node) == (name :> node) @@ b
-----------------------------------------------------------------------------
\* What a loop over a list keeps: the elements at some positions, in order
NthPosition(positions, k) == CHOOSE i \in positions : Cardinality({j \in positions : j <= i}) = k
Elements(s, positions) == [k \in 1..Cardinality(positions) |-> s[NthPosition(positions, k)]]
=============================================================================
