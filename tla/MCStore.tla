------------------------------ MODULE MCStore ------------------------------
(***************************************************************************)
(* One instance of each part of the store stack: the initial state picks   *)
(* the part a behaviour is about.                                          *)
(***************************************************************************)
EXTENDS InferenceModel, FilterModels, NRLModel, IndexFilterModel, Iterators, RuleParser, DBus, Plugins, Sopranocmd

VARIABLE part

MCR(u) == Resource(<<u>>)
MCTriple(s, p, o) == Statement(s, p, o, Empty)

\* Inference: subclasses, their transitivity, and a rule that infers a class of itself
Sub == Uri("rdfs:subClassOf")
MCRules ==
  << Rule(<<StatementPattern(Var("x"), Term(Sub), Var("y")),
            StatementPattern(Var("a"), Term(RdfType), Var("x"))>>,
          StatementPattern(Var("a"), Term(RdfType), Var("y"))),
     Rule(<<StatementPattern(Var("a"), Term(Sub), Var("b")),
            StatementPattern(Var("b"), Term(Sub), Var("c"))>>,
          StatementPattern(Var("a"), Term(Sub), Var("c"))),
     Rule(<<StatementPattern(Var("a"), Term(RdfType), Term(Uri("Class")))>>,
          StatementPattern(Var("a"), Term(Sub), Var("a"))) >>
MCUserAdds ==
  {MCTriple(Uri("A"), Sub, Uri("B")), MCTriple(Uri("B"), Sub, Uri("C")),
   MCTriple(Uri("x"), RdfType, Uri("A")), MCTriple(Uri("A"), RdfType, Uri("Class")),
   Statement(Uri("A"), Sub, Uri("B"), Uri("g"))}
MCUserRemoves ==
  {MCTriple(Uri("A"), Sub, Uri("B")), MCTriple(Uri("B"), Sub, Uri("C")),
   MCTriple(Uri("x"), Empty, Empty), InContext(Uri("g"))}
\* An inference that has failed stops there.
NoInferenceError == ~infError

\* Filter models: one valid statement and one that the storage refuses
MCFmStatements ==
  {Statement(MCR("a"), MCR("p"), MCR("b"), MCR("g")),
   MCTriple(Literal(<<"x">>), MCR("p"), MCR("b"))}

\* NRL: a property with one value at most and one with two
MCNrl(o, p, c) == Statement(MCR("s"), MCR(p), MCR(o), c)
MCNrlAdds == {MCNrl(o, p, Empty) : o \in {"a", "b", "c"}, p \in {"one", "two"}}
             \cup {MCNrl(o, "one", MCR("g")) : o \in {"a", "b"}}
MCNrlGraphs == {<<MCR("g1"), MCR("mg1")>>, <<MCR("g2"), MCR("mg2")>>}
MCRestrictions == (MCR("one") :> [min |-> -1, max |-> 1, c |-> -1])
                  @@ (MCR("two") :> [min |-> -1, max |-> -1, c |-> 2])

\* Index: the same triple in two contexts, a property that is indexed only
MCIxStatements ==
  {MCTriple(MCR("a"), MCR("p"), Literal(<<"x">>)), Statement(MCR("a"), MCR("p"), Literal(<<"x">>), MCR("g")),
   MCTriple(MCR("a"), MCR("q"), Literal(<<"y">>)), MCTriple(MCR("b"), MCR("only"), Literal(<<"x">>))}
MCIndexOnly == {MCR("only")}

\* Iterators of a graph of two statements
MCItStatements == {Statement(MCR("a"), MCR("p"), MCR("b"), MCR("g")), MCTriple(MCR("b"), MCR("p"), MCR("b"))}
MCItTemplates == {InContext(MCR("g"))}

\* Rule files: prefixes defined before and after their use, literals, a line that is no rule
TokV(n) == [form |-> "variable", name |-> n]
TokQ(p, t) == [form |-> "qname", prefix |-> p, text |-> t]
TokLit(t, l) == [form |-> "plain", text |-> t, lang |-> l]
TokBlank == [form |-> "blank", text |-> <<"b">>]
RLine(n, pre, e) == [kind |-> "rule", name |-> n, pre |-> pre, effect |-> e]
PLine(n, t) == [kind |-> "prefix", name |-> n, text |-> t]
Knows == <<TokV("a"), TokQ("p", <<"x">>), TokV("b")>>
English == <<TokV("b"), TokQ("p", <<"y">>), TokLit(<<"v">>, <<"e", "n">>)>>
Plain == <<TokV("b"), TokQ("p", <<"y">>), TokLit(<<"v">>, <<>>)>>
Anonymous == <<TokV("b"), TokQ("p", <<"y">>), TokBlank>>
MCRuleFiles ==
  {<<PLine("p", <<"u:">>), [kind |-> "blank"], RLine("r1", <<Knows, English>>, Knows), RLine("r2", <<Knows>>, Plain)>>,
   <<RLine("r1", <<Plain, Knows>>, Plain), PLine("p", <<"v:">>), RLine("r2", <<Anonymous, Plain>>, Knows)>>,
   <<RLine("r3", <<Knows>>, Plain), [kind |-> "other"]>>}

\* D-Bus: two names that are one path, one program that may leave, and one whose calls time out
MCDbPaths == [name \in DbNames |-> "a_"]
MCDbCalls ==
  [p1 |-> {<<"createModel", "a.">>},
   p2 |-> {<<"createModel", "a.">>, <<"createModel", "a_">>, <<"removeModel", "a.">>}]

\* Plugins: a name in two folders, one of them without its library, a custom one of that name
Described(lib, version, name, types) ==
  <<[kind |-> "comment"], [kind |-> "group", name |-> "Desktop Entry"],
    [kind |-> "entry", key |-> "X-Soprano-Library", value |-> lib],
    [kind |-> "entry", key |-> "X-Soprano-Version", value |-> version],
    [kind |-> "entry", key |-> "X-Soprano-Plugin-Name", value |-> name],
    [kind |-> "entry", key |-> "ServiceTypes", value |-> types]>>
PlFile(name, lines) == [name |-> name, lines |-> lines]
PlLib(type, name, available, features, user) ==
  [type |-> type, name |-> name, available |-> available, features |-> features, user |-> user]
SystemDir == <<"system", "plugins">>
OwnDir == <<"own", "plugins">>
RedlandLib == PlLib("Backend", <<"redland">>, TRUE, {"AddStatement", "Query"}, {})
RaptorLib == PlLib("Parser", <<"raptor", "parser">>, TRUE, {"RdfXml"}, {"own"})
MCPlWorlds ==
  LET system(lib, types) ==
        <<PlFile(<<"a">>, Described(lib, <<2, 9>>, <<"redland", "backend">>, types)),
          PlFile(<<"old">>, Described(<<"soprano_redland">>, <<1, 0>>, <<"old">>, <<"Backend">>)),
          PlFile(<<"raptor", "parser">>, Described(<<"raptor", ".so">>, <<2>>, <<>>, <<"Parser">>)),
          PlFile(<<"z">>, <<[kind |-> "other"]>>)>>
      world(lib, types, own) ==
        [dataDirs |-> <<"system">>, libDirs |-> <<<<"usr", "lib">>>>,
         files |-> (SystemDir :> system(lib, types))
                   @@ (OwnDir :> <<PlFile(<<"b">>, Described(own, <<2, 3>>, <<"redland", "backend">>, <<"Backend">>))>>),
         libs |-> (<<<<"usr", "lib">>, "soprano", <<"lib", "soprano_redland", ".so">>>> :> RedlandLib)
                  @@ (<<SystemDir, "", <<"raptor", ".so">>>> :> RaptorLib)
                  @@ (<<<<"own", "lib">>, "", <<"mine", ".so">>>>
                        :> PlLib("Backend", <<"redland", "backend">>, FALSE, {"AddStatement", "User"}, {"fast"}))
                  @@ (<<<<"/", "custom", ".so">>>>
                        :> PlLib("Backend", <<"redland", "backend">>, TRUE, {"Query", "User"}, {"fast"}))
                  @@ (<<<<"/", "other", ".so">>>> :> PlLib("Other", <<"other">>, TRUE, {}, {}))]
  IN  {world(<<"soprano_redland">>, <<"Backend">>, <<"mine">>),
       world(<<"missing">>, <<"Backend">>, <<"soprano_redland">>)}
MCPlPaths == {<<OwnDir>>}
MCPlNames == {<<"redland">>, <<"raptor", "parser">>}
MCPlLibraries == {<<<<"/", "custom", ".so">>>>, <<<<"/", "other", ".so">>>>, <<SystemDir, "", <<"raptor", ".so">>>>}

\* sopranocmd: ways to a model, and commands with nodes of every form
CmOpt(name) == <<[dashes |-> TRUE, name |-> name]>>
CmSet(name, value) == CmOpt(name) \o <<[dashes |-> FALSE, text |-> value]>>
CmWord(w) == [form |-> "word", text |-> <<w>>]
CmUri(u) == [form |-> "uri", text |-> <<u>>]
CmQuery(k) == [form |-> "query", text |-> <<"select">>, kind |-> k]
CmAny == [form |-> "empty", text |-> <<>>]
CmName(p) == [form |-> "prefixed", prefix |-> p, text |-> <<"x">>]
CmWays ==
  {CmSet("backend", CmWord("b")), CmSet("backend", CmWord("b")) \o CmOpt("nrl"),
   CmSet("backend", CmWord("b")) \o CmSet("index", CmWord("i")) \o CmOpt("nrl") \o CmSet("settings", [form |-> "pairs"]),
   CmSet("backend", CmWord("b")) \o CmSet("settings", CmWord("s")),
   CmSet("socket", CmWord("s")) \o CmSet("model", CmWord("m")), CmSet("dbus", CmWord("d")) \o CmSet("model", CmWord("m")),
   CmSet("sparql", CmWord("e")) \o CmSet("serialization", CmWord("trig")),
   CmSet("sparql", CmWord("e")) \o CmSet("graphselect", [form |-> "variables", count |-> 3]),
   CmSet("file", CmWord("f")) \o CmOpt("nrl"), CmSet("model", CmWord("m")), CmSet("model", CmWord("m")) \o CmSet("port", CmWord("p")),
   CmSet("dir", CmWord("d")), CmOpt("version"), CmOpt("help"), CmOpt("backend"), <<>>}
CmNodeLists ==
  {<<>>, <<CmUri("a")>>, <<CmAny, CmAny, CmAny, CmUri("g")>>, <<CmName("p"), CmAny, CmUri("b")>>,
   <<CmUri("a"), CmUri("p"), CmUri("b"), CmUri("g")>>, <<CmUri("a"), CmUri("p"), [form |-> "typed", text |-> <<"1">>, valid |-> FALSE]>>,
   <<CmUri("a"), CmUri("p"), CmWord("v")>>, <<CmWord("v"), CmUri("p")>>, <<[form |-> "blank", text |-> <<"n">>], CmWord("a"), CmUri("b"), CmAny, CmAny>>}
CmCommands ==
  {<<CmWord(c)>> \o nodes : c \in {"list", "add", "rm", "monitor", "rmgraph"}, nodes \in CmNodeLists}
  \cup {<<CmWord("import"), CmWord("f")>>, <<CmWord("import")>>, <<CmWord("export"), CmWord("f")>>, <<CmWord("frob")>>, <<>>}
  \cup {<<CmWord("export"), CmQuery(k), CmWord("f")>> : k \in {"graph", "bool"}}
  \cup {<<CmWord("query"), CmQuery(k)>> : k \in {"graph", "bool", "bindings"}}
CmPlainWords(texts) == [i \in DOMAIN texts |-> [dashes |-> FALSE, text |-> texts[i]]]
MCCmLines == {way \o CmPlainWords(c) : way \in CmWays, c \in CmCommands}
             \cup {CmPlainWords(<<CmWord("list")>>) \o CmOpt("nrl"), CmOpt("nrl") \o CmOpt("bogus")}
MCCmContents == {{Statement(MCR("a"), MCR("p"), MCR("b"), MCR("g")), MCTriple(MCR("a"), MCR("p"), Literal(<<"v">>)),
                  Statement(Resource(<<"u:", "x">>), MCR("p"), MCR("b"), MCR("g"))}}
MCCmFile == <<MCTriple(MCR("a"), MCR("p"), MCR("c")), Statement(MCR("c"), MCR("p"), MCR("b"), MCR("g")), MCTriple(MCR("c"), MCR("q"), MCR("b"))>>
MCCmPrefixes == "p" :> <<"u:">>
MCCmSignals == {MCTriple(MCR("a"), MCR("p"), MCR("c")), Statement(MCR("a"), Empty, Empty, Empty), InContext(MCR("g"))}
-----------------------------------------------------------------------------
StoreInit ==
  /\ part \in {"inference", "filters", "nrl", "index", "iterators", "rules", "dbus", "plugins", "sopranocmd"}
  /\ InfInit /\ FmInit /\ NrlInit /\ IxInit /\ ItInit /\ RpInit /\ DbInit /\ PlInit /\ CmInit
  \* the parts that do not move start in one way
  /\ part # "plugins" => plWorld = CHOOSE world \in PlWorlds : TRUE
  /\ part # "sopranocmd" => cmLine = (CHOOSE line \in CmLines : TRUE) /\ cmStart = (CHOOSE content \in CmContents : TRUE)

StoreNext ==
  /\ UNCHANGED part
  /\ IF part = "inference" THEN InfNext ELSE UNCHANGED infVars
  /\ IF part = "filters" THEN FmNext ELSE UNCHANGED fmVars
  /\ IF part = "nrl" THEN NrlNext ELSE UNCHANGED nrlVars
  /\ IF part = "index" THEN IxNext ELSE UNCHANGED ixVars
  /\ IF part = "iterators" THEN ItNext ELSE UNCHANGED itVars
  /\ IF part = "rules" THEN RpNext ELSE UNCHANGED rpVars
  /\ IF part = "dbus" THEN DbNext ELSE UNCHANGED dbVars
  /\ IF part = "plugins" THEN PlNext ELSE UNCHANGED plVars
  /\ IF part = "sopranocmd" THEN CmNext ELSE UNCHANGED cmVars

StoreSpec == StoreInit /\ [][StoreNext]_<<part, infVars, fmVars, nrlVars, ixVars, itVars, rpVars, dbVars, plVars, cmVars>>
=============================================================================
