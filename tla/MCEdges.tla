------------------------------ MODULE MCEdges ------------------------------
(***************************************************************************)
(* One instance of each part at the edges of the store: the backends and   *)
(* the value types.  The initial state picks the part a behaviour is about.*)
(***************************************************************************)
EXTENDS VirtuosoController, Odbc, VirtuosoModel, RedlandModel, RedlandIterators, Sesame2Model,
        LanguageTag, Values, QueryTree, SparqlResults, SparqlEndpoint, Wire, ModelPool, RdfFiles

VARIABLE part

MCR(u) == Resource(<<u>>)
MCTriple(s, o, c) == Statement(MCR(s), MCR("p"), o, c)

\* Virtuoso: a literal with a fake type, the empty graph and the virtual graph
MCTrue == Typed("true", "boolean")
MCVmStatements ==
  {MCTriple("a", MCTrue, MCR("g")), MCTriple("a", MCR("b"), MCR("g")),
   MCTriple("a", MCR("b"), Empty), MCTriple("a", MCR("b"), openlinkVirtualGraph)}
MCVmTemplates ==
  {EmptyStatement, InContext(MCR("g")), InContext(defaultGraph), InContext(openlinkVirtualGraph),
   Statement(MCR("a"), Empty, MCTrue, Empty), Statement(MCR("a"), Empty, Empty, MCR("g"))}
MCVmWantedIndexes == {{"SPOG", "bad"}}

\* Redland: a statement with and without its context, and one that is invalid
MCRdStatements ==
  {MCTriple("a", MCR("b"), MCR("g")), MCTriple("a", MCR("b"), Empty),
   Statement(Literal(<<"l">>), MCR("p"), MCR("b"), Empty)}
MCRdTemplates == {InContext(MCR("g")), Statement(MCR("a"), Empty, Empty, Empty), MCTriple("a", MCR("b"), MCR("g"))}

MCSeStatements == {MCTriple("a", MCR("b"), MCR("g")), Statement(Literal(<<"l">>), MCR("p"), MCR("b"), Empty)}
MCSeTemplates == {InContext(MCR("g")), Statement(MCR("a"), Empty, Empty, Empty)}

\* Language tags: a language, a script, a country, a year, and private use
MCSizes == [s \in {"", "*", "x", "de", "in", "kok", "latn", "1996"} |->
             CASE s = "" -> 0 [] s \in {"*", "x"} -> 1 [] s \in {"de", "in"} -> 2 [] s = "kok" -> 3 [] OTHER -> 4]
MCLetters == {"de", "in", "x", "kok", "latn"}
UpTo(n, subtags) == UNION {[1..k -> subtags] : k \in 1..n}
MCLtTags == UpTo(4, {"de", "x", "latn"}) \cup {EmptyTag}
MCLtRanges == UpTo(3, {"de", "x", "latn", "*"}) \cup {EmptyTag}
MCLtChoices ==
  {<<>>, <<EmptyTag, <<"de">> >>, << <<"*">>, <<"latn", "x", "de">>, <<"de", "in">> >>,
   << <<"de", "1996">>, <<"de", "latn">>, <<"de", "latn", "in">> >>}
MCLtPriorities ==
  {<<range>> : range \in UpTo(3, {"de", "x", "latn", "*"})}
  \cup {<< <<"kok">>, <<"de", "x", "in">> >>, << EmptyTag, <<"*">> >>}

\* RDF values: texts of numbers, moments and words, some beyond the widths
MCVaTexts ==
  {Num(n) : n \in {-10, -9, -4, -2, 0, 1, 2, 6, 8, 14, 17}} \cup {Exp(8), Exp(3)}
  \cup {Word(w) : w \in {"true", "no", "a tab", "\\t", "quoted"}} \cup {Bytes("b")}
  \cup {DateText(1)} \cup {TimeText(h, f, z) : h \in {0, 3}, f \in {"", "ms", "long"}, z \in {0, 1}}
  \cup {DateTimeText(d, h, f, z) : d \in {-1, 1}, h \in {0, 3}, f \in {"", "ms", "long"}, z \in {0, -1}}

\* A SPARQL endpoint's tables and documents, and what it has
MCSrUnfit == {<<"l", "int">>}
MCSrTables ==
  LET row == [{"x", "y"} -> {Empty, MCR("a"), Blank(<<"b">>), Literal(<<"l">>), Literal(<<"l", "int">>)}]
      bound == [x |-> Empty, y |-> MCR("a")]
  IN {[names |-> names, rows |-> rows, value |-> FALSE] :
        names \in {<<"x", "y">>, <<"y", "x">>}, rows \in {<<>>} \cup {<<a>> : a \in row} \cup {<<a, bound>> : a \in row}}
MCSrOthers == {Tag(tag, "", NoText, <<>>) : tag \in {"rdf:RDF", "turtle", "html", "sparql"}}

MCSpContents == {{MCTriple("a", MCR(o), MCR("g")) : o \in {"b", "c"}}}
MCSpStatements == {MCTriple("a", MCR("d"), MCR("g")), MCTriple("a", MCR("b"), Empty)}
MCSpTemplates == {Statement(MCR("a"), Empty, Empty, MCR("g"))}

\* Queries: the expressions a program builds in one behaviour
MCQtKinds == {{"Variable", "IsBound"}, {"Query", "LogicAnd"}}

\* The wire: values of two bytes, negative ones, an error of a parser, and a
\* string whose length and letters look like numbers
MCWiLink == WireNode(1, <<5, 6>>)
MCWiNodes ==
  {EmptyWire, MCWiLink, WireNode(3, <<2>>), PlainWire(<<>>, <<3>>), TypedWire(VariantBool, 1, <<>>),
   TypedWire(VariantInt, -3, <<>>), TypedWire(VariantString, <<1, 2>>, <<>>), TypedWire(6, <<4>>, <<8, 8>>)}
MCWiValues ==
  [u8 |-> {0, 3}, bool |-> BOOLEAN, u16 |-> {1, 130}, u32 |-> {0, 300}, i32 |-> {-1, 129}, id |-> WiModels,
   code |-> {0, ErrorUnknown}, string |-> {<<>>, <<17, 0, 3>>}, node |-> MCWiNodes,
   statement |-> {<<MCWiLink, MCWiLink, TypedWire(6, <<4>>, <<8, 8>>), MCWiLink>>,
                  <<EmptyWire, EmptyWire, PlainWire(<<>>, <<3>>), EmptyWire>>},
   bindings |-> {<<>>, <<[name |-> <<1>>, node |-> MCWiLink]>>,
                 <<[name |-> <<1>>, node |-> EmptyWire], [name |-> <<2>>, node |-> PlainWire(<<7>>, <<>>)]>>},
   error |-> {NoError, Error(2, <<>>), Error(ErrorUnknown, <<9, 9>>), ParserError(<<1, -1, 200, <<6>> >>, 3, <<4>>)}]

\* Files: a literal with every character that is escaped, two kinds of literals with
\* nothing in them, and blank nodes; lines no serializer writes
MCRfText == <<"w", QuoteChar, NewLineChar, BackslashChar, "n", BackslashChar, QuoteChar, BackslashChar>>
MCRfGraphs ==
  {<<MCTriple("a", o, c), Statement(Blank(<<"x">>), MCR("p"), Blank(<<b>>), Empty)>> :
     o \in {PlainNode(MCRfText, <<>>), PlainNode(MCRfText, <<"en">>), TypedNode(<<>>, "int"), PlainNode(<<>>, <<>>)},
     c \in {Empty, MCR("g")}, b \in {"x", "y"}}
  \cup {<<>>, <<MCTriple("a", MCR("b"), Empty), EmptyStatement>>}
MCRfLines ==
  {<<>>, <<"#", "w">>, quadNode(MCR("a")), quadNode(MCR("a")) \o <<" ">> \o quadNode(MCR("p")) \o <<" ", QuoteChar, "w", QuoteChar, " ", ".">>}
MCRfDocuments ==
  LET triple(o) == [kind |-> "triple", st |-> MCTriple("a", MCR(o), Empty)]
      report(kind) == [kind |-> kind, st |-> EmptyStatement]
  IN  {<<triple("b"), triple("c")>>, <<triple("c")>>} \cup {<<triple("b"), report(kind), triple("c")>> : kind \in {"warning", "failure", "readerror"}}
-----------------------------------------------------------------------------
EdgesInit ==
  /\ part \in {"controller", "odbc", "virtuoso", "redland", "iterators", "sesame", "languages", "values",
               "queries", "answers", "endpoint", "wire", "pool", "files"}
  /\ VcInit /\ OdInit /\ VmInit /\ RdInit /\ RiInit /\ SeInit /\ LtInit /\ VaInit /\ QtInit /\ SrInit /\ SpInit /\ WiInit /\ MpInit /\ RfInit
  \* the parts that do not move start in one way
  /\ part # "controller" => ~trxBroken
  /\ part # "virtuoso" => \A option \in DOMAIN vmOptions : ~vmOptions[option]
  /\ part # "iterators" => riKind = "bool" /\ riElements = 0
  /\ part # "pool" => mpStorageDir
  /\ part # "queries" => qtMakes = CHOOSE kinds \in QtKinds : TRUE

EdgesNext ==
  /\ UNCHANGED part
  /\ IF part = "controller" THEN VcNext ELSE UNCHANGED vcVars
  /\ IF part = "odbc" THEN OdNext ELSE UNCHANGED odVars
  /\ IF part = "virtuoso" THEN VmNext ELSE UNCHANGED vmVars
  /\ IF part = "redland" THEN RdNext ELSE UNCHANGED rdVars
  /\ IF part = "iterators" THEN RiNext ELSE UNCHANGED riVars
  /\ IF part = "sesame" THEN SeNext ELSE UNCHANGED seVars
  /\ IF part = "languages" THEN LtNext ELSE UNCHANGED ltVars
  /\ IF part = "values" THEN VaNext ELSE UNCHANGED vaVars
  /\ IF part = "queries" THEN QtNext ELSE UNCHANGED qtVars
  /\ IF part = "answers" THEN SrNext ELSE UNCHANGED srVars
  /\ IF part = "endpoint" THEN SpNext ELSE UNCHANGED spVars
  /\ IF part = "wire" THEN WiNext ELSE UNCHANGED wiVars
  /\ IF part = "pool" THEN MpNext ELSE UNCHANGED mpVars
  /\ IF part = "files" THEN RfNext ELSE UNCHANGED rfVars

EdgesSpec == EdgesInit /\ [][EdgesNext]_<<part, vcVars, odVars, vmVars, rdVars, riVars, seVars, ltVars, vaVars, qtVars, srVars, spVars, wiVars, mpVars, rfVars>>

(***************************************************************************)
(* What is written is what is read, of a value and of a file (ValuesTravel,*)
(* FilesReadBack).                                                         *)
(***************************************************************************)
WrittenIsRead == ValuesTravel /\ FilesReadBack

(***************************************************************************)
(* A connection executes the command it was sent, on the model the id was  *)
(* given out for (ExchangesExact, PoolExact).                              *)
(***************************************************************************)
ServerExact == ExchangesExact /\ PoolExact
=============================================================================
