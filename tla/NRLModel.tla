------------------------------ MODULE NRLModel ------------------------------
(***************************************************************************)
(* soprano/nrlmodel.cpp: a FilterModel that enforces the cardinality of    *)
(* NRL properties, manages graphs together with their metadata graph, and  *)
(* adds the prefixes a query uses.  The ontology (which property has which *)
(* cardinality) is fixed; its queries are answered from it.                *)
(***************************************************************************)
EXTENDS Rdf, Integers, FiniteSets

CONSTANTS
  NrlAdds,        \* statements that callers add
  NrlGraphs,      \* <<graph, metadata graph>> pairs that createGraph makes
  Restrictions,   \* predicate -> [min, max, c], -1 for none
  StoredPrefixes, \* prefixes that the ontologies in the model may define
  QueryPrefix     \* the prefix a caller's query uses

\* Callers add valid statements to graphs of their own; random URIs are unique.
ASSUME NrlAddsAssumption ==
  /\ \A st \in NrlAdds : IsStatement(st) /\ StatementValid(st)
  /\ \A st \in NrlAdds, pair \in NrlGraphs : st.s \notin {pair[1], pair[2]} /\ st.c # pair[2]
ASSUME NrlGraphsAssumption ==
  /\ \A pair \in NrlGraphs, i \in 1..2 : pair = <<pair[1], pair[2]>> /\ IsNode(pair[i]) /\ IsResource(pair[i])
  /\ \A pair, other \in NrlGraphs :
       /\ pair[1] # other[2]
       /\ pair # other => pair[1] # other[1] /\ pair[2] # other[2]
ASSUME RestrictionsAssumption ==
  \A p \in DOMAIN Restrictions : Restrictions[p] \in [min : Int, max : Int, c : Int]

VARIABLES
  nrlContent, ignoreContext, expandPrefixes,
  prefixes,       \* m_prefixes
  definedPrefixes,  \* prefixes defined by the ontologies in the model
  lastQuery       \* what executeQuery passed to the parent

nrlVars == <<nrlContent, ignoreContext, expandPrefixes, prefixes, definedPrefixes, lastQuery>>

FixedPrefixes == {"rdf", "rdfs", "xsd", "nrl", "nao"}
NrlUri(u) == Resource(<<u>>)
NoQuery == [prefix |-> "none", declared |-> {}]

NrlInit ==
  /\ nrlContent = {} /\ ignoreContext = TRUE
  /\ expandPrefixes = FALSE /\ prefixes = {} /\ definedPrefixes = {}
  /\ lastQuery = NoQuery
-----------------------------------------------------------------------------
setIgnoreContext(b) ==
  /\ nrlContent = {}
  /\ ignoreContext' = b
  /\ UNCHANGED <<nrlContent, expandPrefixes, prefixes, definedPrefixes, lastQuery>>

\* The fixed prefixes win over stored ones.
BuildPrefixMap == FixedPrefixes \cup definedPrefixes

setEnableQueryPrefixExpansion(enable) ==
  /\ enable # expandPrefixes
  /\ expandPrefixes' = enable
  /\ prefixes' = IF enable THEN BuildPrefixMap ELSE {}
  /\ UNCHANGED <<nrlContent, ignoreContext, definedPrefixes, lastQuery>>

\* An ontology with a prefix of its own is stored or removed below the filter.
storeOntology(p) ==
  /\ definedPrefixes' = definedPrefixes \cup {p}
  /\ UNCHANGED <<nrlContent, ignoreContext, expandPrefixes, prefixes, lastQuery>>

\* A prefix that the query uses and does not declare is declared in front of it.
nrlExecuteQuery(p, declared) ==
  /\ lastQuery' = [prefix |-> p,
                   declared |-> IF expandPrefixes /\ p \in prefixes
                                THEN declared \cup {p} ELSE declared]
  /\ UNCHANGED <<nrlContent, ignoreContext, expandPrefixes, prefixes, definedPrefixes>>
-----------------------------------------------------------------------------
\* The values of a property of the subject that a restriction looks at.  With
\* contexts the code asks for the context as the OBJECT.
SameProperty(st) == Statement(st.s, st.p, Empty, Empty)
SamePropertyInContext(st) == Statement(st.s, st.p, Empty, st.c)
ContextAsObject(st) == Statement(st.s, st.p, st.c, Empty)

Competitors(st) ==
  IF ignoreContext THEN ListStatements(nrlContent, SameProperty(st))
  ELSE {x \in ListStatements(nrlContent, ContextAsObject(st)) : x.c = st.c}

Replace(st) ==
  nrlContent' = (nrlContent \ ListStatements(nrlContent,
                   IF ignoreContext THEN SameProperty(st) ELSE SamePropertyInContext(st))) \cup {st}

AddLimited_OffByOne(st, max) ==
  LET full == Cardinality(Competitors(st)) > max
  IN nrlContent' = IF full THEN nrlContent ELSE nrlContent \cup {st}

AddLimited(st, max) ==
  LET matching == Competitors(st)
      full == Cardinality(matching) >= max
  IN \/ ~full /\ nrlContent' = nrlContent \cup {st}
     \/ /\ full /\ Cardinality(matching) = 1
        /\ nrlContent' = (nrlContent \ matching) \cup {st}
     \/ full /\ Cardinality(matching) # 1 /\ UNCHANGED nrlContent

AddUnlimited(st) == nrlContent' = nrlContent \cup {st}

\* When the query for the restrictions fails nothing is stored: the step leaves all as it is.
addNrlStatement(st) ==
  LET card == IF st.p \in DOMAIN Restrictions THEN Restrictions[st.p]
              ELSE [min |-> -1, max |-> -1, c |-> -1]
      max == IF card.c > 1 THEN card.c ELSE card.max
  IN /\ \/ (card.c = 1 \/ card.max = 1) /\ Replace(st)
        \/ /\ card.c # 1 /\ card.max # 1
           /\ card.max > 1 \/ card.c > 1
           /\ AddLimited(st, max)
        \/ card.c < 1 /\ card.max < 1 /\ AddUnlimited(st)
        \/ UNCHANGED nrlContent
     /\ UNCHANGED <<ignoreContext, expandPrefixes, prefixes, definedPrefixes, lastQuery>>
-----------------------------------------------------------------------------
CoreGraphMetadataFor == NrlUri("nrl:coreGraphMetadataFor")

createGraph(g, mg) ==
  /\ \A st \in nrlContent : {g, mg} \cap {st.s, st.o} = {}   \* a new random URI
  /\ nrlContent' = nrlContent \cup
       {Statement(mg, CoreGraphMetadataFor, g, mg),
        Statement(mg, NrlUri("rdf:type"), NrlUri("nrl:GraphMetadata"), mg),
        Statement(g, NrlUri("rdf:type"), NrlUri("nrl:InstanceBase"), mg),
        Statement(g, NrlUri("nao:created"), Literal(<<"now">>), mg)}
  /\ UNCHANGED <<ignoreContext, expandPrefixes, prefixes, definedPrefixes, lastQuery>>

removeGraph(g) ==
  /\ LET metadataGraphs == {x.s : x \in ListStatements(nrlContent,
                                     Statement(Empty, CoreGraphMetadataFor, g, Empty))}
     IN nrlContent' = {x \in nrlContent : x.c \notin metadataGraphs \cup {g}}
  /\ UNCHANGED <<ignoreContext, expandPrefixes, prefixes, definedPrefixes, lastQuery>>

\* A template that gives the context only is removeGraph.
nrlRemoveAllStatements(template) ==
  IF /\ ~IsEmpty(template.c)
     /\ IsEmpty(template.s) /\ IsEmpty(template.p) /\ IsEmpty(template.o)
  THEN removeGraph(template.c)
  ELSE /\ nrlContent' = nrlContent \ ListStatements(nrlContent, template)
       /\ UNCHANGED <<ignoreContext, expandPrefixes, prefixes, definedPrefixes, lastQuery>>
-----------------------------------------------------------------------------
NrlNext ==
  \/ \E b \in BOOLEAN : setIgnoreContext(b) \/ setEnableQueryPrefixExpansion(b)
  \/ \E p \in StoredPrefixes : storeOntology(p)
  \/ \E d \in {{}, {QueryPrefix}} : nrlExecuteQuery(QueryPrefix, d)
  \/ \E st \in NrlAdds : addNrlStatement(st) \/ nrlRemoveAllStatements(SameProperty(st))
  \/ \E pair \in NrlGraphs :
       \/ createGraph(pair[1], pair[2])
       \/ nrlRemoveAllStatements(InContext(pair[1]))
-----------------------------------------------------------------------------
(***************************************************************************)
(* addNrlStatement keeps every property within its cardinality, per graph  *)
(* when contexts count.  For a maximum above one and with contexts the     *)
(* code looks for the context among the objects and does not count, so     *)
(* there only the maximum of one is kept.                                  *)
(***************************************************************************)
CardinalityKept ==
  \A st \in nrlContent : st.p \in DOMAIN Restrictions =>
    LET card == Restrictions[st.p]
        same == {x \in nrlContent : x.s = st.s /\ x.p = st.p /\ (ignoreContext \/ x.c = st.c)}
    IN /\ card.c = 1 \/ card.max = 1 => Cardinality(same) = 1
       /\ card.c > 1 /\ ignoreContext => Cardinality(same) <= card.c
       /\ card.c < 1 /\ card.max > 1 /\ ignoreContext => Cardinality(same) <= card.max

(***************************************************************************)
(* A graph and its metadata live and die together: a metadata graph is in  *)
(* the model only as a whole, and removing a graph leaves no statement     *)
(* about it behind (createGraph, removeGraph, removeAllStatements).        *)
(***************************************************************************)
MetadataWhole ==
  \A pair \in NrlGraphs :
    LET about == {x \in nrlContent : x.c = pair[2] \/ x.s = pair[1]}
    IN about = {} \/ Statement(pair[2], CoreGraphMetadataFor, pair[1], pair[2]) \in about

(***************************************************************************)
(* Both: what NRLModel adds to a plain model holds after every call.       *)
(***************************************************************************)
NrlKept == CardinalityKept /\ MetadataWhole
=============================================================================
