--------------------------- MODULE SparqlResults ---------------------------
(***************************************************************************)
(* client/sparql: an endpoint's answer, from the XML document to the       *)
(* iterator the caller reads.  iteratorFromData() takes a sparql element   *)
(* as a table or a boolean, tries RDF/XML and then Turtle for a graph, and *)
(* ends with an iterator that is not valid.                                *)
(*                                                                         *)
(* External: the endpoint writes a table with the variables in the head    *)
(* and a result element per row; an unbound variable has no binding        *)
(* element, one with an unbound element, or an empty one.  A document is a *)
(* tree of elements, parsed by QDom.                                       *)
(***************************************************************************)
EXTENDS Rdf, Integers, SequencesExt

CONSTANTS
  SrTables,       \* tables: names, a sequence, and rows, a sequence of functions from names to nodes
  SrOthers,       \* documents that are no table
  SrUnfit         \* texts with a data type they do not fit

\* What may be in a row
IsSrNode(n) == IsNode(n) /\ (IsEmpty(n) \/ IsLiteral(n) \/ ((IsResource(n) \/ IsBlank(n)) /\ n.text # NoText))

\* Variables have names, and each row has something for each name of its table.
ASSUME SrTablesAssumption ==
  \A table \in SrTables :
    /\ table.names \in Seq(Range(table.names)) /\ table.rows \in Seq(Range(table.rows))
    /\ "" \notin Range(table.names)
    /\ \A row \in Range(table.rows) : \A name \in Range(table.names) : IsSrNode(row[name])

\* A sparql element that is no table has nothing in it.
ASSUME SrOthersAssumption ==
  \A document \in SrOthers : document.tag = "sparql" => document.children = <<>>

VARIABLES
  srTable,        \* the table the endpoint meant
  srKind,         \* "none", "binding", "boolean", "graph" or "invalid"
  srResult,       \* what the parser made of the document
  srIndex,        \* m_currentResultIndex
  srYielded,      \* how often next() was true
  srRead          \* the last binding() since: its name, the node and whether it set an error

srVars == <<srTable, srKind, srResult, srIndex, srYielded, srRead>>

NoTable == [names |-> <<>>, rows |-> <<>>, value |-> FALSE]
NoRead == [name |-> "", node |-> Empty, error |-> FALSE]

\* One element of a document; text and data type are parts of a node's text
Tag(tag, name, text, children) == [tag |-> tag, name |-> name, text |-> text, children |-> children]
-----------------------------------------------------------------------------
\* The endpoint's side
ValueTag(n) ==
  Tag(CASE IsResource(n) -> "uri" [] IsBlank(n) -> "bnode" [] IsLiteral(n) -> "literal", "", n.text, <<>>)

BindingTag(row, name, style) ==
  Tag("binding", name, NoText,
      IF ~IsEmpty(row[name]) THEN <<ValueTag(row[name])>>
      ELSE IF style = "unbound" THEN <<Tag("unbound", "", NoText, <<>>)>> ELSE <<>>)

\* The elements of a row come in any order, and what is unbound may be left out.
RowTag(row, order, style) ==
  LET bound == {i \in DOMAIN order : ~IsEmpty(row[order[i]])}
      written == IF style = "omit" THEN Elements(order, bound) ELSE order
  IN Tag("result", "", NoText, [i \in DOMAIN written |-> BindingTag(row, written[i], style)])

TableDocument(table, order, style) ==
  Tag("sparql", "", NoText,
      <<Tag("head", "", NoText, [i \in DOMAIN table.names |-> Tag("variable", table.names[i], NoText, <<>>)]),
        Tag("results", "", NoText, [i \in DOMAIN table.rows |-> RowTag(table.rows[i], order, style)])>>)

BooleanDocument(value) ==
  Tag("sparql", "", NoText, <<Tag("head", "", NoText, <<>>),
                              Tag("boolean", "", IF value THEN <<"true">> ELSE <<"false">>, <<>>)>>)
-----------------------------------------------------------------------------
\* parseElement of each class: children of other tags are skipped; of two the
\* last one is kept.
Children(e, tags) == Elements(e.children, {i \in DOMAIN e.children : e.children[i].tag \in tags})

parseBinding(e) ==
  LET values == Children(e, {"uri", "bnode", "literal", "unbound"})
  IN IF values = <<>> THEN [name |-> e.name, type |-> "none", text |-> NoText]
     ELSE [name |-> e.name, type |-> Last(values).tag, text |-> Last(values).text]

parseResult(e) == LET found == Children(e, {"binding"}) IN [i \in DOMAIN found |-> parseBinding(found[i])]
parseResults(e) == LET found == Children(e, {"result"}) IN [i \in DOMAIN found |-> parseResult(found[i])]
parseHead(e) == LET found == Children(e, {"variable"}) IN [i \in DOMAIN found |-> found[i].name]
parseBoolean(e) == e.text = <<"true">>

NoAnswer == [names |-> <<>>, rows |-> <<>>, isBool |-> FALSE, value |-> FALSE]

parseSparql(e) ==
  LET heads == Children(e, {"head"})
      results == Children(e, {"results"})
      booleans == Children(e, {"boolean"})
  IN [names |-> IF heads = <<>> THEN <<>> ELSE parseHead(Last(heads)),
      rows |-> IF results = <<>> THEN <<>> ELSE parseResults(Last(results)),
      isBool |-> booleans # <<>>,
      value |-> booleans # <<>> /\ parseBoolean(Last(booleans))]

\* parseByteArray fails for what is no XML, or has another root.  The parsers for
\* RDF/XML and Turtle are plugins.
iteratorFromData(document) ==
  /\ srResult' = IF document.tag = "sparql" THEN parseSparql(document) ELSE NoAnswer
  /\ srKind' = CASE document.tag = "sparql" -> IF srResult'.isBool THEN "boolean" ELSE "binding"
                 [] document.tag \in {"rdf:RDF", "turtle"} -> "graph"
                 [] OTHER -> "invalid"
  /\ srIndex' = 0 /\ srYielded' = 0 /\ srRead' = NoRead

\* LiteralValue::fromString is not valid for a text that does not fit.
literalToNode(text) == IF text \in SrUnfit THEN Empty ELSE Literal(text)

\* Whatever is no resource and no blank node is a literal.
bindingToNode(b) ==
  CASE b.type = "uri" -> Resource(b.text)
    [] b.type = "bnode" -> Blank(b.text)
    [] OTHER -> literalToNode(b.text)
-----------------------------------------------------------------------------
SrInit ==
  /\ srTable = NoTable /\ srKind = "none" /\ srResult = NoAnswer
  /\ srIndex = 0 /\ srYielded = 0 /\ srRead = NoRead

\* One answer in a behaviour
answered ==
  /\ srKind = "none"
  /\ \/ \E table \in SrTables, style \in {"omit", "unbound", "empty"} :
          \E order \in {table.names, Reverse(table.names)} :
            /\ srTable' = table
            /\ iteratorFromData(TableDocument(table, order, style))
     \/ \E value \in BOOLEAN :
          srTable' = [NoTable EXCEPT !.value = value] /\ iteratorFromData(BooleanDocument(value))
     \/ \E document \in SrOthers :
          srTable' = NoTable /\ iteratorFromData(document)

\* m_currentResultIndex starts at -1; it is one more here.  Past the end it goes
\* on; one call more is the bound.
srNext ==
  /\ srKind = "binding" /\ srIndex <= Len(srResult.rows) + 1
  /\ srIndex' = srIndex + 1
  /\ srYielded' = IF srIndex' <= Len(srResult.rows) THEN srYielded + 1 ELSE srYielded
  /\ srRead' = NoRead
  /\ UNCHANGED <<srTable, srKind, srResult>>

bindingNamed(name) ==
  LET row == srResult.rows[srIndex]
      found == Elements(row, {i \in DOMAIN row : row[i].name = name})
      known == name \in {srResult.names[i] : i \in DOMAIN srResult.names}
  IN IF srIndex \notin DOMAIN srResult.rows THEN [name |-> name, node |-> Empty, error |-> TRUE]
     ELSE IF found # <<>> THEN [name |-> name, node |-> bindingToNode(Head(found)), error |-> FALSE]
     ELSE [name |-> name, node |-> Empty, error |-> ~known]

\* An offset is one in the head.
bindingAt(offset) ==
  IF offset \in DOMAIN srResult.names THEN bindingNamed(srResult.names[offset])
  ELSE [NoRead EXCEPT !.error = TRUE]

readBinding ==
  /\ srKind = "binding"
  /\ \/ \E name \in {"x", "y", "other"} : srRead' = bindingNamed(name)
     \/ \E offset \in 1..3 : srRead' = bindingAt(offset)
  /\ UNCHANGED <<srTable, srKind, srResult, srIndex, srYielded>>

SrNext == answered \/ srNext \/ readBinding
-----------------------------------------------------------------------------
\* An unbound variable may be read as an empty literal, and a literal that does
\* not fit its type is gone.
ReadRightly(node, meant) ==
  node \in IF IsEmpty(meant) THEN {Empty, Literal(NoText)}
           ELSE IF IsLiteral(meant) /\ meant.text \in SrUnfit THEN {Empty} ELSE {meant}

(***************************************************************************)
(* Every row of the endpoint's table comes out once and in order, and a    *)
(* read in it, by name or by offset in the head, gives the value of that   *)
(* variable however the endpoint ordered the row or left out what is       *)
(* unbound.  Only a variable written as unbound or empty is read wrongly,  *)
(* as an empty literal, and a literal that does not fit its type is gone.  *)
(* Reads outside the rows, or of other names, are errors.                  *)
(***************************************************************************)
RowsByName ==
  /\ srKind = "boolean" => srResult.value = srTable.value
  /\ srKind = "binding" =>
       LET rows == srTable.rows
           inRow == srIndex \in DOMAIN rows
           known == srRead.name \in {srTable.names[i] : i \in DOMAIN srTable.names}
       IN /\ srYielded = IF srIndex <= Len(rows) THEN srIndex ELSE Len(rows)
          /\ srRead # NoRead =>
               /\ srRead.error = ~(inRow /\ known)
               /\ inRow /\ known => ReadRightly(srRead.node, rows[srIndex][srRead.name])
=============================================================================
