------------------------------ MODULE RdfFiles ------------------------------
(***************************************************************************)
(* Files of statements: parsers/nquads, serializers/nquads, parsers/raptor *)
(* and serializers/raptor.                                                 *)
(*                                                                         *)
(* A line of N-Quads is a sequence of characters, where a URI, a label, a  *)
(* language and the harmless part of a literal are one character each.     *)
(* Raptor itself is external: a document is the sequence of what it        *)
(* reports while it is read.                                               *)
(***************************************************************************)
EXTENDS Rdf, Integers, FiniteSets, SequencesExt

CONSTANTS
  RfThreads,    \* threads that share the plugin objects
  RfGraphs,     \* lists of statements that are written as N-Quads
  RfLines,      \* lines of files that were written by others
  RfDocuments,  \* what raptor reports: sequences of [kind, st]
  RfMaxCalls    \* bound: calls of a thread

VARIABLES
  rfCalls,      \* calls made by each thread
  rfNquads,     \* the last N-Quads file: what was written, its lines, what was read
  rfLock,       \* Raptor::Parser::Private::mutex
  rfParse,      \* parseStream of each thread
  rfError,      \* lastError of the raptor parser, by thread
  rfSerialized  \* the last result of Raptor::Serializer::serialize

rfVars == <<rfCalls, rfNquads, rfLock, rfParse, rfError, rfSerialized>>

PlainNode(text, lang) == [type |-> "LiteralNode", text |-> text, lang |-> lang, dt |-> "plain"]
TypedNode(text, dt) == [type |-> "LiteralNode", text |-> text, lang |-> <<>>, dt |-> dt]

ParserIdle == [step |-> "idle", doc |-> <<>>, at |-> 1, statements |-> <<>>, valid |-> FALSE]

RfInit ==
  /\ rfCalls = [t \in RfThreads |-> 0]
  /\ rfNquads = [graph |-> <<>>, lines |-> <<>>, ok |-> TRUE, read |-> <<>>]
  /\ rfLock = "free" /\ rfParse = [t \in RfThreads |-> ParserIdle]
  /\ rfError = [t \in RfThreads |-> "none"]
  /\ rfSerialized = [given |-> <<>>, out |-> <<>>, ok |-> TRUE, fault |-> FALSE]
-----------------------------------------------------------------------------
(* N-Quads *)

BackslashChar == "\\"
QuoteChar == "quote"
NewLineChar == "newline"
ReturnChar == "return"

EncodedAs ==
  (BackslashChar :> <<BackslashChar, BackslashChar>>) @@ (NewLineChar :> <<BackslashChar, "n">>)
  @@ (ReturnChar :> <<BackslashChar, "r">>) @@ (QuoteChar :> <<BackslashChar, QuoteChar>>)

encodeQuadLiteral(value) ==
  FlattenSeq([i \in DOMAIN value |-> IF value[i] \in DOMAIN EncodedAs THEN EncodedAs[value[i]] ELSE <<value[i]>>])

\* NQuadSerializer::quadNode: no type for a literal with a language, an empty
\* type for any other plain literal
DataTypeText(n) == IF n.dt = "plain" THEN <<>> ELSE <<n.dt>>
quadNode(n) ==
  CASE IsLiteral(n) ->
         <<QuoteChar>> \o encodeQuadLiteral(n.text) \o <<QuoteChar>>
         \o (IF n.lang # <<>> THEN <<"@">> \o n.lang ELSE <<"^", "^", "<">> \o DataTypeText(n) \o <<">">>)
    [] IsBlank(n) -> <<"_", ":">> \o n.text
    [] IsResource(n) -> <<"<">> \o n.text \o <<">">>
    [] IsEmpty(n) -> <<>>

quadLine(st) ==
  quadNode(st.s) \o <<" ">> \o quadNode(st.p) \o <<" ">> \o quadNode(st.o) \o <<" ">>
  \o (IF IsEmpty(st.c) THEN <<>> ELSE quadNode(st.c) \o <<" ">>) \o <<".">>
-----------------------------------------------------------------------------
\* the first place of one of the characters from a position on, or 0
PlaceOf(s, chars, from) ==
  LET places == {i \in from..Len(s) : s[i] \in chars}
  IN  IF places = {} THEN 0 ELSE CHOOSE i \in places : \A j \in places : i <= j

\* an odd number of backslashes in front
isEscaped(s, pos) ==
  LET first == CHOOSE i \in 1..pos : /\ \A j \in i..(pos - 1) : s[j] = BackslashChar
                                     /\ i = 1 \/ s[i - 1] # BackslashChar
  IN  (pos - first) % 2 = 1

\* findLiteralEnd: the closing quote, or 0.  A plain literal needs three characters behind it.
findLiteralEnd(s, offset) ==
  LET quotes == {i \in (offset + 1)..Len(s) : s[i] = QuoteChar /\ ~isEscaped(s, i)}
      pos == CHOOSE i \in quotes : \A j \in quotes : i <= j
  IN  IF quotes = {} \/ pos = Len(s) THEN 0
      ELSE IF s[pos + 1] = "@" THEN pos
      ELSE IF pos + 3 <= Len(s) /\ (SubSeq(s, pos + 1, pos + 3) = <<"^", "^", "<">> \/ s[pos + 1] = " ")
      THEN pos ELSE 0

\* what a backslash and the next character stand for; any other pair stays
DecodedAs == (BackslashChar :> BackslashChar) @@ ("n" :> NewLineChar) @@ ("r" :> ReturnChar) @@ (QuoteChar :> QuoteChar)
decodeQuadLiteral(s) ==
  LET escape(i) == i < Len(s) /\ s[i] = BackslashChar /\ s[i + 1] \in DOMAIN DecodedAs
      rest[i \in 1..(Len(s) + 2)] ==
        IF i > Len(s) THEN <<>>
        ELSE IF escape(i) THEN <<DecodedAs[s[i + 1]]>> \o rest[i + 2]
        ELSE <<s[i]>> \o rest[i + 1]
  IN  rest[1]

\* LiteralValue::fromString: without a type it is a string, or nothing
literalFromString(value, type) ==
  IF type = <<>> THEN IF value = <<>> THEN Empty ELSE TypedNode(value, "string")
  ELSE TypedNode(value, Head(type))

\* a node and the offset behind it; 0 where none was read, and then the offset stays
Found(node, next) == [node |-> node, next |-> next]
NotFound == Found(Empty, 0)

UpToLanguageEnd(s, end, value, stop) ==
  IF stop = 0 THEN NotFound ELSE Found(PlainNode(value, SubSeq(s, end + 2, stop - 1)), stop)
UpToTypeEnd(s, end, value, stop) ==
  IF stop = 0 THEN NotFound ELSE Found(literalFromString(value, SubSeq(s, end + 4, stop - 1)), stop + 1)

UpToQuote(s, end, value) ==
  CASE end = 0 -> NotFound
    [] end # 0 /\ s[end + 1] = "@" -> UpToLanguageEnd(s, end, value, PlaceOf(s, {" "}, end + 1))
    [] end # 0 /\ s[end + 1] = " " -> Found(PlainNode(value, <<>>), end + 1)
    [] end # 0 /\ s[end + 1] \notin {"@", " "} -> UpToTypeEnd(s, end, value, PlaceOf(s, {">"}, end + 4))

parseLiteral(s, offset) ==
  LET upTo(end) == UpToQuote(s, end, decodeQuadLiteral(SubSeq(s, offset + 1, end - 1)))
  IN  upTo(findLiteralEnd(s, offset))

UpToClose(s, offset, close) ==
  IF close = 0 THEN NotFound ELSE Found(Resource(SubSeq(s, offset + 1, close - 1)), close + 1)

\* The label of a blank node takes the space behind it.
UpToSpace(s, offset, space) ==
  IF space = 0 THEN NotFound ELSE Found(Blank(SubSeq(s, offset + 2, space)), space)

\* NQuadParser::parseNode
parseQuadNode(s, offset) ==
  CASE offset > Len(s) -> NotFound
    [] offset <= Len(s) /\ s[offset] = "<" -> UpToClose(s, offset, PlaceOf(s, {">"}, offset + 1))
    [] offset + 2 <= Len(s) /\ s[offset] = "_" /\ s[offset + 1] = ":" ->
         UpToSpace(s, offset, PlaceOf(s, {" "}, offset + 2))
    [] offset <= Len(s) /\ s[offset] = QuoteChar -> parseLiteral(s, offset)
    [] OTHER -> NotFound

skipSpace(s, offset) ==
  CHOOSE i \in offset..(Len(s) + 1) : /\ \A j \in offset..(i - 1) : s[j] = " "
                                      /\ i > Len(s) \/ s[i] # " "

\* The nodes in front of the dot, a fourth one where there is no dot, and the offset behind them
NodeTaken(read, r, offset) ==
  [nodes |-> Append(read.nodes, r.node), next |-> IF r.next = 0 THEN offset ELSE r.next]
NextNode(s, read, i, offset) ==
  IF i = 4 /\ (offset > Len(s) \/ s[offset] = ".") THEN [read EXCEPT !.next = offset]
  ELSE NodeTaken(read, parseQuadNode(s, offset), offset)
QuadNodes(s) ==
  FoldLeft(LAMBDA read, i : NextNode(s, read, i, skipSpace(s, read.next)), [nodes |-> <<>>, next |-> 1], <<1, 2, 3, 4>>)

\* parseLine: a statement, or the empty one with an error
StatementOf(nodes) ==
  IF /\ IsResource(nodes[1]) \/ IsBlank(nodes[1])
     /\ IsResource(nodes[2]) /\ ~IsEmpty(nodes[3])
     /\ Len(nodes) = 4 => IsResource(nodes[4])
  THEN Statement(nodes[1], nodes[2], nodes[3], IF Len(nodes) = 4 THEN nodes[4] ELSE Empty)
  ELSE EmptyStatement
ToTheDot(s, nodes, dot) == IF dot <= Len(s) /\ s[dot] = "." THEN StatementOf(nodes) ELSE EmptyStatement
parseQuad(s) ==
  LET statementIn(read) == ToTheDot(s, read.nodes, skipSpace(s, read.next)) IN statementIn(QuadNodes(s))

\* NQuadParser::parseStream: comments are skipped; one bad line, an empty one too, and
\* nothing is returned.
AllOrNothing(read) ==
  LET ok == \A i \in DOMAIN read : StatementValid(read[i])
  IN  [ok |-> ok, read |-> IF ok THEN read ELSE <<>>]
Uncommented(lines) == SelectSeq(lines, LAMBDA l : l = <<>> \/ Head(l) # "#")
ReadLines(rows) == [i \in DOMAIN rows |-> parseQuad(rows[i])]
parseQuads(lines) == AllOrNothing(ReadLines(Uncommented(lines)))

\* bound: a call that keeps and shares nothing is the only one of a behaviour
OnlyCall ==
  /\ \A t \in RfThreads : rfCalls[t] = 0
  /\ rfCalls' = [t \in RfThreads |-> RfMaxCalls]

\* Statements are written to a file and read again, or a file that has another line in front.
\* serialize takes an iterator's error for its end: a shorter list stands for that.
nquads ==
  /\ OnlyCall
  /\ \E g \in {sts \in RfGraphs : \A i \in DOMAIN sts : StatementValid(sts[i])}, others \in {<<>>} \cup {<<l>> : l \in RfLines} :
       LET lines == others \o [i \in DOMAIN g |-> quadLine(g[i])]
       IN  rfNquads' = [graph |-> g, lines |-> lines] @@ parseQuads(lines)
  /\ UNCHANGED <<rfLock, rfParse, rfError, rfSerialized>>
-----------------------------------------------------------------------------
(* Raptor::Parser *)

Report(t, error) == rfError' = [rfError EXCEPT ![t] = error]
ParseGoesOn(t, fields) == rfParse' = [rfParse EXCEPT ![t] = fields @@ @]

\* parseFile or parseString: a file that cannot be opened is an error of this thread.
raptorParse(t, doc) ==
  /\ rfCalls[t] < RfMaxCalls /\ rfParse[t].step \in {"idle", "returned"}
  /\ rfCalls' = [rfCalls EXCEPT ![t] = @ + 1]
  /\ \/ ParseGoesOn(t, [step |-> "called", doc |-> doc, at |-> 1, statements |-> <<>>, valid |-> FALSE]) /\ UNCHANGED rfError
     \/ ParseGoesOn(t, [step |-> "returned", doc |-> doc, at |-> 0, statements |-> <<>>, valid |-> FALSE]) /\ Report(t, "open")
  /\ UNCHANGED <<rfNquads, rfLock, rfSerialized>>

\* createParser, whose error is that no parser knows the serialization, and raptor_parser_parse_start;
\* the last error is cleared between them
startParsing(t) ==
  /\ rfParse[t].step = "called" /\ rfLock = "free"
  /\ \/ rfLock' = t /\ Report(t, "none") /\ ParseGoesOn(t, [step |-> "parsing"])
     \/ UNCHANGED rfLock /\ Report(t, "start") /\ ParseGoesOn(t, [step |-> "returned", at |-> 0])
  /\ UNCHANGED <<rfCalls, rfNquads, rfSerialized>>

\* What raptor reports of the next chunk: a triple, something it logs (raptorLogHandler sets
\* the error and parsing goes on), or a failure, which is logged too.  A device that fails is not.
parseChunk(t) ==
  LET p == rfParse[t]
      item == p.doc[p.at]
  IN  /\ p.step = "parsing" /\ p.at <= Len(p.doc)
      /\ \/ /\ item.kind = "triple"
            /\ ParseGoesOn(t, [at |-> p.at + 1, statements |-> Append(p.statements, item.st)])
            /\ UNCHANGED <<rfError, rfLock>>
         \/ item.kind = "warning" /\ ParseGoesOn(t, [at |-> p.at + 1]) /\ Report(t, "logged") /\ UNCHANGED rfLock
         \/ item.kind = "failure" /\ ParseGoesOn(t, [step |-> "returned"]) /\ Report(t, "logged") /\ rfLock' = "free"
         \/ item.kind = "readerror" /\ ParseGoesOn(t, [step |-> "returned"]) /\ UNCHANGED rfError /\ rfLock' = "free"
      /\ UNCHANGED <<rfCalls, rfNquads, rfSerialized>>

\* The end of the document; whether it may end there is not asked.
endParsing(t) ==
  /\ rfParse[t].step = "parsing" /\ rfParse[t].at > Len(rfParse[t].doc)
  /\ rfLock' = "free"
  /\ ParseGoesOn(t, [step |-> "returned", valid |-> TRUE])
  /\ UNCHANGED <<rfCalls, rfNquads, rfError, rfSerialized>>
-----------------------------------------------------------------------------
(* Raptor::Serializer *)

\* convertStatement: every node but the context is needed.
Convertible(st) == ~IsEmpty(st.s) /\ ~IsEmpty(st.p) /\ ~IsEmpty(st.o)

\* what raptor can write: the name of each syntax and its MIME types
RaptorSyntaxes ==
  <<[name |-> "ntriples", mimes |-> {"text/plain"}], [name |-> "turtle", mimes |-> {"application/x-turtle"}],
    [name |-> "rdfxml-xmp", mimes |-> {}], [name |-> "rdfxml-abbrev", mimes |-> {"application/rdf+xml"}],
    [name |-> "json", mimes |-> {"application/json"}]>>

\* the names of every second syntax, which are no MIME types
supportedUserSerializations == {RaptorSyntaxes[i].name : i \in {j \in DOMAIN RaptorSyntaxes : j % 2 = 1}}

serializerFor(mimeType) ==
  LET i == SelectInSeq(RaptorSyntaxes, LAMBDA syntax : mimeType \in syntax.mimes)
  IN  IF i = 0 THEN "none" ELSE RaptorSyntaxes[i].name

\* the statements until the iterator ends or one cannot be converted
writable(sts) ==
  LET bad == SelectInSeq(sts, LAMBDA st : ~Convertible(st)) IN IF bad = 0 THEN sts ELSE SubSeq(sts, 1, bad - 1)

\* None of these syntaxes writes the context.
Uncontexted(st) == Statement(st.s, st.p, st.o, Empty)

\* The iterator gives its first statements, and an error ends the loop as the end does.  What
\* raptor answers to the start and to a statement, and the device to a write, is not looked at:
\* any of the statements may be missing.
raptorSerialize(sts, mimeType, given, lost) ==
  LET found == serializerFor(mimeType) # "none"
      read == SubSeq(sts, 1, given)
      written == IF found THEN SetToSortSeq(DOMAIN writable(read) \ lost, <) ELSE <<>>
  IN  /\ OnlyCall
      /\ rfSerialized' = [given |-> sts, out |-> [i \in DOMAIN written |-> Uncontexted(read[written[i]])],
                          ok |-> found /\ \A i \in DOMAIN read : Convertible(read[i]),
                          fault |-> given < Len(sts) \/ lost # {}]
      /\ UNCHANGED <<rfNquads, rfLock, rfParse, rfError>>
-----------------------------------------------------------------------------
RfNext ==
  \/ nquads
  \/ \E sts \in RfGraphs, mimeType \in {"application/rdf+xml"} \cup supportedUserSerializations :
       \E given \in 0..Len(sts), lost \in SUBSET DOMAIN sts : raptorSerialize(sts, mimeType, given, lost)
  \/ \E t \in RfThreads :
       \/ \E doc \in RfDocuments : raptorParse(t, doc)
       \/ startParsing(t) \/ parseChunk(t) \/ endParsing(t)
-----------------------------------------------------------------------------
\* A node as it should come back: the same, a plain literal without a language as a string, and
\* a blank node as one of its own.
QuadReadAs(n, m) ==
  \/ n = m
  \/ IsBlank(n) /\ IsBlank(m)
  \/ IsLiteral(n) /\ IsLiteral(m) /\ n.text = m.text /\ n.dt = "plain" /\ n.lang = <<>> /\ m.dt = "string"

SubjectsOf(sts) == [i \in DOMAIN sts |-> sts[i].s]
ObjectsOf(sts) == [i \in DOMAIN sts |-> sts[i].o]

\* N-Quads read again
NQuadsReadBack ==
  LET g == rfNquads.graph
      r == rfNquads.read
      written == Len(g) = Len(Uncommented(rfNquads.lines))
      unreadable == \E i \in DOMAIN g : IsLiteral(g[i].o) /\ g[i].o.text = <<>> /\ g[i].o.lang = <<>> /\ g[i].o.dt = "plain"
      nodes(sts) == SubjectsOf(sts) \o ObjectsOf(sts)
  IN  /\ written => rfNquads.ok = ~unreadable
      /\ written /\ rfNquads.ok =>
           /\ Len(r) = Len(g)
           /\ \A i \in DOMAIN g : QuadReadAs(g[i].s, r[i].s) /\ g[i].p = r[i].p /\ QuadReadAs(g[i].o, r[i].o) /\ g[i].c = r[i].c
           /\ \A i, j \in DOMAIN nodes(g) : IsBlank(nodes(g)[i]) /\ IsBlank(nodes(g)[j]) =>
                (nodes(g)[i] = nodes(g)[j] <=> nodes(r)[i] = nodes(r)[j])

DocumentTriples(doc) ==
  LET triples == SelectSeq(doc, LAMBDA item : item.kind = "triple") IN [i \in DOMAIN triples |-> triples[i].st]

\* raptor's parser: what each thread got of its own document
ParsedOwn ==
  /\ Cardinality({t \in RfThreads : rfParse[t].step = "parsing"}) <= 1
  /\ \A t \in RfThreads :
       LET p == rfParse[t]
           kinds == {p.doc[i].kind : i \in DOMAIN p.doc}
       IN  p.step = "returned" =>
             /\ p.valid => p.statements = DocumentTriples(p.doc)
             /\ p.at > 0 /\ kinds \subseteq {"triple"} => p.valid /\ rfError[t] = "none"
             /\ ~p.valid /\ rfError[t] = "none" => "readerror" \in kinds

\* What is written can be read: N-Quads come back as the statements they were, in order, with
\* every character of a literal, and blank nodes that were different stay different (a file with an
\* empty plain literal cannot be read); raptor's parser gives each thread exactly the triples of its
\* own document, reports an error when it gives nothing and none left by an earlier file, with one
\* thread in raptor at a time; and raptor's serializer writes every statement, without its context,
\* when it reports success and neither the iterator nor raptor nor the device failed, which it
\* does not look at
\* (NQuadParser, NQuadSerializer, Raptor::Parser::parseStream, Raptor::Serializer::serialize).
FilesReadBack ==
  /\ NQuadsReadBack
  /\ ParsedOwn
  /\ rfSerialized.ok /\ ~rfSerialized.fault =>
       rfSerialized.out = [i \in DOMAIN rfSerialized.given |-> Uncontexted(rfSerialized.given[i])]
=============================================================================
