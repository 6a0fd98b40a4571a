-------------------------------- MODULE Wire --------------------------------
(***************************************************************************)
(* The socket protocol byte by byte: soprano/datastream.cpp, the commands  *)
(* ClientConnection writes and ServerConnection reads, and the answers     *)
(* that come back.  Nothing on the wire says what a byte is for: each side *)
(* reads what it expects, and where a read fails goes on with a default.   *)
(* ClientServer has the threads and sockets around it, Values the literals *)
(* that change on the way.                                                 *)
(*                                                                         *)
(* A bound of the model: a byte holds Byte values, and not 256.  One       *)
(* connection, on which one request is under way at a time.                *)
(***************************************************************************)
EXTENDS Integers, Sequences, SequencesExt

CONSTANTS
  Byte,           \* how many values a byte has
  WiValues,       \* the values that are sent, by type
  WiModels,       \* ids of models, some of them removed while clients know them
  WiRequests      \* bound on the requests of a connection

VARIABLES
  wiRemoved,      \* models that were removed
  wiUp,           \* bytes to the server
  wiReady,        \* bytes came since the server last looked (readyRead)
  wiDown,         \* bytes to the client
  wiOpen,         \* "open", "cut" by the client or the network, or "closed" by the server
  wiSent,         \* the request under way
  wiDone,         \* what the server did: command, arguments and what it answered
  wiGot,          \* what the client read
  wiCount,
  wiStale         \* the server has begun to read where no request begins

wiVars == <<wiRemoved, wiUp, wiReady, wiDown, wiOpen, wiSent, wiDone, wiGot, wiCount, wiStale>>
-----------------------------------------------------------------------------
\* DataStream: numbers, the low byte first, as on x86.  A read that fails has
\* taken what there was.
Number(n, width) == [i \in 1..width |-> (n \div Byte^(i - 1)) % Byte]

Read(v, rest) == [ok |-> TRUE, v |-> v, rest |-> rest]
Fail(default) == [ok |-> FALSE, v |-> default, rest |-> <<>>]

readNumber(s, width) ==
  IF Len(s) < width THEN Fail(0)
  ELSE Read(FoldLeftDomain(LAMBDA n, i : n + s[i] * Byte^(i - 1), 0, SubSeq(s, 1, width)), SubSeq(s, width + 1, Len(s)))

readInt32(s) == [readNumber(s, 4) EXCEPT !.v = IF @ >= Byte^4 \div 2 THEN @ - Byte^4 ELSE @]

readBool(s) == [readNumber(s, 1) EXCEPT !.v = @ # 0]

\* writeByteArray, of a text in UTF-8 or an encoded URL
writeString(text) == Number(Len(text), 4) \o text

TextBehind(n) ==
  IF n.ok /\ n.v <= Len(n.rest)
  THEN Read(SubSeq(n.rest, 1, n.v), SubSeq(n.rest, n.v + 1, Len(n.rest)))
  ELSE Fail(<<>>)
readString(s) == TextBehind(readNumber(s, 4))

\* An error without a text gets the one of its code.
ErrorUnknown == 4096
ErrorText(code) == <<code % Byte>>
Error(code, text) ==
  [parser |-> FALSE, code |-> code, loc |-> <<>>,
   text |-> IF text = <<>> /\ code < ErrorUnknown THEN ErrorText(code) ELSE text]
ParserError(loc, code, text) == [parser |-> TRUE, code |-> code, loc |-> loc, text |-> text]
NoError == [parser |-> FALSE, code |-> 0, loc |-> <<>>, text |-> <<>>]

convertErrorCode(code) == IF code <= 5 THEN code ELSE ErrorUnknown

writeLocator(loc) == Number(loc[1], 4) \o Number(loc[2], 4) \o Number(loc[3], 4) \o writeString(loc[4])

writeError(e) ==
  Number(IF e.parser THEN 1 ELSE 0, 1) \o Number(e.code, 4) \o writeString(e.text)
  \o (IF e.parser THEN writeLocator(e.loc) ELSE <<>>)

Scalar(type, s) ==
  CASE type = "u8" -> readNumber(s, 1)
    [] type = "bool" -> readBool(s)
    [] type = "i32" -> readInt32(s)
    [] type = "string" -> readString(s)

\* what was read so far, and the next value behind it
Joined(r, x) == [ok |-> r.ok /\ x.ok, v |-> Append(r.v, x.v), rest |-> x.rest]

Scalars(types, s) == FoldLeft(LAMBDA r, type : Joined(r, Scalar(type, r.rest)), Read(<<>>, s), types)

readLocator(s) == Scalars(<<"i32", "i32", "i32", "string">>, s)

\* a parser's error, when its flag says so, with the place
ErrorOf(flags, loc) ==
  IF flags.v[1] THEN [loc EXCEPT !.ok = flags.ok /\ @, !.v = ParserError(@, flags.v[2], flags.v[3])]
  ELSE [flags EXCEPT !.v = Error(@[2], @[3])]

ReadOr(default, r) == IF r.ok THEN r ELSE Fail(default)

readError(s) ==
  LET flags == Scalars(<<"bool", "i32", "string">>, s)
  IN ReadOr(NoError, ErrorOf(flags, readLocator(flags.rest)))
-----------------------------------------------------------------------------
\* Nodes: 0 empty, 1 a resource, 2 a literal, 3 a blank node
EmptyWire == [type |-> 0, text |-> <<>>]
WireNode(type, text) == [type |-> type, text |-> text]
PlainWire(text, lang) == [type |-> 2, plain |-> TRUE, text |-> text, lang |-> lang]
TypedWire(kind, val, dt) == [type |-> 2, plain |-> FALSE, kind |-> kind, val |-> val, dt |-> dt]

\* QVariant::Type; the others are written as their text and data type
VariantBool == 1
VariantInt == 2
VariantString == 10

writeLiteral(n) ==
  IF n.plain THEN Number(1, 1) \o writeString(n.text) \o writeString(n.lang)
  ELSE Number(0, 1) \o Number(n.kind, 4) \o
       CASE n.kind = VariantBool -> Number(n.val, 1)
         [] n.kind = VariantInt -> Number(n.val, 4)
         [] n.kind = VariantString -> writeString(n.val)
         [] OTHER -> writeString(n.val) \o writeString(n.dt)

writeNode(n) ==
  Number(n.type, 1) \o CASE n.type = 2 -> writeLiteral(n)
                         [] n.type \in {1, 3} -> writeString(n.text)
                         [] OTHER -> <<>>

writeStatement(st) == writeNode(st[1]) \o writeNode(st[2]) \o writeNode(st[3]) \o writeNode(st[4])

\* A set of bindings: its count, then names and nodes
writeBindingSet(set) ==
  Number(Len(set), 4) \o FoldLeft(LAMBDA bytes, b : bytes \o writeString(b.name) \o writeNode(b.node), <<>>, set)

PlainOf(r) == [r EXCEPT !.v = PlainWire(@[1], @[2])]

\* the value behind a kind, and its data type where that is written
TypedOf(kind, r) == [r EXCEPT !.v = TypedWire(kind, @[1], IF Len(@) = 2 THEN @[2] ELSE <<>>)]
PartsOf(kind) ==
  CASE kind = VariantBool -> <<"u8">>
    [] kind = VariantInt -> <<"i32">>
    [] kind = VariantString -> <<"string">>
    [] OTHER -> <<"string", "string">>
TypedBehind(kind) == TypedOf(kind.v, Scalars(PartsOf(kind.v), kind.rest))

readLiteral(s) ==
  LET plain == readBool(s)
  IN IF plain.v THEN ReadOr(EmptyWire, PlainOf(Scalars(<<"string", "string">>, plain.rest)))
     ELSE ReadOr(EmptyWire, TypedBehind(readInt32(plain.rest)))

NamedNode(type, r) == [r EXCEPT !.v = IF @ = <<>> THEN EmptyWire ELSE WireNode(type, @)]

NodeBehind(type) ==
  CASE ~type.ok -> Fail(EmptyWire)
    [] type.v = 2 -> readLiteral(type.rest)
    [] type.v \in {1, 3} -> ReadOr(EmptyWire, NamedNode(type.v, readString(type.rest)))
    [] OTHER -> Read(EmptyWire, type.rest)

readNode(s) == NodeBehind(readNumber(s, 1))

NoStatement == <<EmptyWire, EmptyWire, EmptyWire, EmptyWire>>

Nodes(n, s) == FoldLeftDomain(LAMBDA r, i : Joined(r, readNode(r.rest)), Read(<<>>, s), [i \in 1..n |-> i])

\* A bug: the context is not read.
readStatement_Triple(s) == ReadOr(NoStatement, [Nodes(3, s) EXCEPT !.v = Append(@, EmptyWire)])

\* One node missing, and the statement is left as it was: empty.
readStatement(s) == ReadOr(NoStatement, Nodes(4, s))

\* What was read of a set of bindings stays in it.
BindingRead(r, name, node) ==
  IF ~r.ok \/ ~name.ok \/ ~node.ok THEN Fail(r.v)
  ELSE Read(Append(r.v, [name |-> name.v, node |-> node.v]), node.rest)
BindingBehind(r, name) == BindingRead(r, name, readNode(name.rest))

Bindings(count) ==
  IF ~count.ok THEN Fail(<<>>)
  ELSE FoldLeft(LAMBDA r, i : BindingBehind(r, readString(r.rest)), Read(<<>>, count.rest), [i \in 1..count.v |-> i])

readBindingSet(s) == Bindings(readNumber(s, 4))
-----------------------------------------------------------------------------
\* A value of a type, and how it is read
Written(type, v) ==
  CASE type = "u8" -> Number(v, 1)
    [] type = "bool" -> Number(IF v THEN 1 ELSE 0, 1)
    [] type \in {"u16", "code"} -> Number(v, 2)
    [] type \in {"u32", "i32", "id"} -> Number(v, 4)
    [] type = "string" -> writeString(v)
    [] type = "node" -> writeNode(v)
    [] type = "statement" -> writeStatement(v)
    [] type = "bindings" -> writeBindingSet(v)
    [] type = "error" -> writeError(v)

ReadAs(type, s) ==
  CASE type \in {"u8", "bool", "i32", "string"} -> Scalar(type, s)
    [] type = "u16" -> readNumber(s, 2)
    [] type = "code" -> [readNumber(s, 2) EXCEPT !.v = convertErrorCode(@)]
    [] type \in {"u32", "id"} -> readNumber(s, 4)
    [] type = "node" -> readNode(s)
    [] type = "statement" -> readStatement(s)
    [] type = "bindings" -> readBindingSet(s)
    [] type = "error" -> readError(s)

AllWritten(types, vs) == FoldLeftDomain(LAMBDA bytes, i : bytes \o Written(types[i], vs[i]), <<>>, types)

AllRead(types, s) == FoldLeft(LAMBDA r, type : Joined(r, ReadAs(type, r.rest)), Read(<<>>, s), types)

\* What a variable of the type holds when it could not be read
Default(type) ==
  CASE type \in {"u8", "u16", "u32", "i32", "id", "code"} -> 0
    [] type = "bool" -> FALSE
    [] type \in {"string", "bindings"} -> <<>>
    [] type = "node" -> EmptyWire
    [] type = "statement" -> NoStatement
    [] type = "error" -> NoError
-----------------------------------------------------------------------------
Entry(code, asks, answers) == [code |-> code, asks |-> asks, answers |-> answers]

\* commands.h
COMMAND ==
  [createModel |-> 1, addStatement |-> 2, removeStatement |-> 3, removeAllStatements |-> 4, listStatements |-> 5,
   containsStatement |-> 6, containsAnyStatement |-> 7, listContexts |-> 8, statementCount |-> 9, isEmpty |-> 16,
   executeQuery |-> 17, iteratorNext |-> 18, statementIteratorCurrent |-> 19, queryIteratorCurrentStatement |-> 19,
   nodeIteratorCurrent |-> 20, queryIteratorCurrent |-> 21, iteratorClose |-> 22, queryIteratorType |-> 23,
   queryIteratorBoolValue |-> 24, supportedFeatures |-> 25, checkProtocolVersion |-> 32, createBlankNode |-> 33,
   removeModel |-> 34]

\* What each method of ClientConnection writes, and reads of the answer
BackendRequests ==
  [createModel |-> Entry(COMMAND.createModel, <<"string">>, <<"u32", "error">>),
   removeModel |-> Entry(COMMAND.removeModel, <<"string">>, <<"error">>),
   supportedFeatures |-> Entry(COMMAND.supportedFeatures, <<>>, <<"u32", "error">>)]

ListingRequests ==
  [addStatement |-> Entry(COMMAND.addStatement, <<"id", "statement">>, <<"code", "error">>),
   listContexts |-> Entry(COMMAND.listContexts, <<"id">>, <<"u32", "error">>),
   executeQuery |-> Entry(COMMAND.executeQuery, <<"id", "string", "u16", "string">>, <<"u32", "error">>),
   listStatements |-> Entry(COMMAND.listStatements, <<"id", "statement">>, <<"u32", "error">>)]

RemovalRequests ==
  [removeAllStatements |-> Entry(COMMAND.removeAllStatements, <<"id", "statement">>, <<"code", "error">>),
   removeStatement |-> Entry(COMMAND.removeStatement, <<"id", "statement">>, <<"code", "error">>)]

QuestionRequests ==
  [statementCount |-> Entry(COMMAND.statementCount, <<"id">>, <<"i32", "error">>),
   containsStatement |-> Entry(COMMAND.containsStatement, <<"id", "statement">>, <<"bool", "error">>),
   containsAnyStatement |-> Entry(COMMAND.containsAnyStatement, <<"id", "statement">>, <<"bool", "error">>),
   isEmpty |-> Entry(COMMAND.isEmpty, <<"id">>, <<"bool", "error">>),
   createBlankNode |-> Entry(COMMAND.createBlankNode, <<"id">>, <<"node", "error">>)]

IteratorRequests ==
  [iteratorNext |-> Entry(COMMAND.iteratorNext, <<"u32">>, <<"bool", "error">>),
   nodeIteratorCurrent |-> Entry(COMMAND.nodeIteratorCurrent, <<"u32">>, <<"node", "error">>),
   statementIteratorCurrent |-> Entry(COMMAND.statementIteratorCurrent, <<"u32">>, <<"statement", "error">>),
   queryIteratorCurrent |-> Entry(COMMAND.queryIteratorCurrent, <<"u32">>, <<"bindings", "error">>)]

ResultRequests ==
  [queryIteratorCurrentStatement |-> Entry(COMMAND.queryIteratorCurrentStatement, <<"u32">>, <<"statement", "error">>),
   queryIteratorType |-> Entry(COMMAND.queryIteratorType, <<"u32">>, <<"u8", "error">>),
   queryIteratorBoolValue |-> Entry(COMMAND.queryIteratorBoolValue, <<"u32">>, <<"bool", "error">>),
   iteratorClose |-> Entry(COMMAND.iteratorClose, <<"u32">>, <<"error">>),
   checkProtocolVersion |-> Entry(COMMAND.checkProtocolVersion, <<"u32">>, <<"bool">>)]

ClientCommands ==
  BackendRequests @@ ListingRequests @@ RemovalRequests @@ QuestionRequests @@ IteratorRequests @@ ResultRequests

\* What each handler of ServerConnection reads, and writes as its answer
BackendHandlers ==
  {Entry(COMMAND.createModel, <<"string">>, <<"u32", "error">>), Entry(COMMAND.removeModel, <<"string">>, <<"error">>),
   Entry(COMMAND.supportedFeatures, <<>>, <<"u32", "error">>)}

StatementHandlers ==
  {Entry(COMMAND[name], <<"id", "statement">>, <<"code", "error">>) :
     name \in {"addStatement", "removeStatement", "removeAllStatements"}}
  \cup {Entry(COMMAND.listStatements, <<"id", "statement">>, <<"u32", "error">>)}
  \cup {Entry(COMMAND[name], <<"id", "statement">>, <<"bool", "error">>) :
           name \in {"containsStatement", "containsAnyStatement"}}

ModelHandlers ==
  {Entry(COMMAND.listContexts, <<"id">>, <<"u32", "error">>),
   Entry(COMMAND.executeQuery, <<"id", "string", "u16", "string">>, <<"u32", "error">>),
   Entry(COMMAND.statementCount, <<"id">>, <<"i32", "error">>), Entry(COMMAND.isEmpty, <<"id">>, <<"bool", "error">>),
   Entry(COMMAND.createBlankNode, <<"id">>, <<"node", "error">>)}

IteratorHandlers ==
  {Entry(COMMAND.iteratorNext, <<"u32">>, <<"bool", "error">>),
   Entry(COMMAND.statementIteratorCurrent, <<"u32">>, <<"statement", "error">>),
   Entry(COMMAND.nodeIteratorCurrent, <<"u32">>, <<"node", "error">>),
   Entry(COMMAND.queryIteratorCurrent, <<"u32">>, <<"bindings", "error">>),
   Entry(COMMAND.iteratorClose, <<"u32">>, <<"error">>)}

ResultHandlers ==
  {Entry(COMMAND.queryIteratorType, <<"u32">>, <<"u8", "error">>),
   Entry(COMMAND.queryIteratorBoolValue, <<"u32">>, <<"bool", "error">>),
   Entry(COMMAND.checkProtocolVersion, <<"u32">>, <<"bool">>)}

ServerCommands == BackendHandlers \cup StatementHandlers \cup ModelHandlers \cup IteratorHandlers \cup ResultHandlers

\* What is answered for a model that is not there
InvalidModel(type) == CASE type = "code" -> 1 [] type = "i32" -> -1 [] type = "error" -> Error(ErrorUnknown, <<7>>)
                        [] OTHER -> Default(type)

Tuples(types) ==
  FoldLeft(LAMBDA tuples, type : {Append(vs, v) : vs \in tuples, v \in WiValues[type]}, {<<>>}, types)

Nothing == [code |-> 0, args |-> <<>>, answer |-> <<>>]

WiInit ==
  /\ wiRemoved = {} /\ wiUp = <<>> /\ wiReady = FALSE /\ wiDown = <<>> /\ wiOpen = "open"
  /\ wiSent = [command |-> "none", args |-> <<>>] /\ wiDone = Nothing /\ wiGot = <<>>
  /\ wiCount = 0 /\ wiStale = FALSE
-----------------------------------------------------------------------------
\* A method of ClientConnection, below the lock of the socket
request(command, args) ==
  /\ wiOpen = "open" /\ wiSent.command = "none" /\ wiCount < WiRequests
  /\ wiSent' = [command |-> command, args |-> args]
  /\ wiUp' = wiUp \o Number(ClientCommands[command].code, 2) \o AllWritten(ClientCommands[command].asks, args)
  /\ wiReady' = TRUE /\ wiCount' = wiCount + 1 /\ wiDone' = Nothing /\ wiGot' = <<>>
  /\ UNCHANGED <<wiRemoved, wiDown, wiOpen, wiStale>>

\* The fields are written one by one, and the client may be gone after any byte;
\* the bytes are those that come.
connectionLost(n) ==
  /\ wiOpen = "open" /\ wiReady /\ ~wiStale /\ n < Len(wiUp)
  /\ wiUp' = SubSeq(wiUp, 1, n) /\ wiOpen' = "cut"
  /\ UNCHANGED <<wiRemoved, wiReady, wiDown, wiSent, wiDone, wiGot, wiCount, wiStale>>

\* Another client's removeModel
removeModelOfOther(model) ==
  /\ wiSent.command = "none" /\ model \notin wiRemoved
  /\ wiRemoved' = wiRemoved \cup {model}
  /\ UNCHANGED <<wiUp, wiReady, wiDown, wiOpen, wiSent, wiDone, wiGot, wiCount, wiStale>>

\* getModel() reads the id; without a model the rest of the request stays where
\* it is.  Whether a read failed is not asked.
argumentsOf(entry, s) ==
  LET id == readNumber(s, 4)
  IN IF entry.asks # <<>> /\ entry.asks[1] = "id" /\ ~(id.ok /\ id.v \in WiModels \ wiRemoved)
     THEN [id EXCEPT !.v = <<@>>]
     ELSE AllRead(entry.asks, s)

\* _s_readNextCommand; an unknown command closes the connection.
_s_readNextCommand ==
  /\ wiOpen \in {"open", "cut"} /\ wiReady
  /\ wiReady' = FALSE
  /\ LET command == readNumber(wiUp, 2)
         known == {entry \in ServerCommands : entry.code = command.v}
     IN IF known = {}
        THEN wiOpen' = "closed" /\ wiUp' = <<>> /\ UNCHANGED <<wiDown, wiDone>>
        ELSE \E entry \in known :
             LET args == argumentsOf(entry, command.rest)
                 whole == Len(args.v) = Len(entry.asks)
             IN /\ wiUp' = args.rest
                /\ \E answer \in IF whole /\ (entry.asks # <<>> /\ entry.asks[1] = "id" => args.v[1] \in WiModels \ wiRemoved)
                                 THEN Tuples(entry.answers)
                                 ELSE {[i \in DOMAIN entry.answers |-> InvalidModel(entry.answers[i])]} :
                     /\ wiDone' = [code |-> entry.code, args |-> args.v, answer |-> answer]
                     /\ wiDown' = wiDown \o AllWritten(entry.answers, answer)
                /\ UNCHANGED wiOpen
  /\ UNCHANGED <<wiRemoved, wiSent, wiGot, wiCount, wiStale>>

\* The client has waited for the answer to begin, and reads it.
readResult ==
  /\ wiOpen = "open" /\ wiDown # <<>> /\ wiSent.command # "none"
  /\ LET got == AllRead(ClientCommands[wiSent.command].answers, wiDown)
     IN wiGot' = got.v /\ wiDown' = got.rest
  /\ wiSent' = [wiSent EXCEPT !.command = "none"]
  /\ wiStale' = (wiUp # <<>>)
  /\ UNCHANGED <<wiRemoved, wiUp, wiReady, wiOpen, wiDone, wiCount>>

WiNext ==
  \/ \E command \in DOMAIN ClientCommands : \E args \in Tuples(ClientCommands[command].asks) : request(command, args)
  \/ \E n \in 0..Len(wiUp) - 1 : connectionLost(n)
  \/ \E model \in WiModels : removeModelOfOther(model)
  \/ _s_readNextCommand \/ readResult
-----------------------------------------------------------------------------
\* An error without text comes back with one.
SameValue(type, v, w) ==
  IF type = "error" THEN v.parser = w.parser /\ v.code = w.code /\ v.loc = w.loc /\ (v.text # <<>> => v.text = w.text)
  ELSE v = w

(***************************************************************************)
(* datastream.cpp, commands.h: both sides agree on every byte.  What the   *)
(* server executes is the command that was sent with the arguments that    *)
(* were sent, and the client reads what the server answered; afterwards    *)
(* both streams are empty.  Two things break this, and each only in its    *)
(* own way: a request that names a removed model is answered before its    *)
(* other arguments are read, which stay on the stream for the next         *)
(* command; and of a request that is cut off, arguments that are missing   *)
(* are taken for their defaults.                                           *)
(***************************************************************************)
ExchangesExact ==
  LET sent == ClientCommands[wiSent.command]
      gone == wiSent.args # <<>> /\ sent.asks[1] = "id" /\ wiSent.args[1] \in wiRemoved
  IN /\ wiSent.command # "none" /\ wiDone # Nothing /\ ~wiStale =>
          /\ wiDone.code = sent.code
          /\ IF gone THEN \A i \in DOMAIN wiDone.args : i = 1
             ELSE wiOpen = "open" => wiDone.args = wiSent.args /\ wiUp = <<>>
          /\ \A i \in DOMAIN wiDone.args :
               \/ wiDone.args[i] = wiSent.args[i]
               \/ wiOpen = "cut" /\ wiDone.args[i] = Default(sent.asks[i])
     /\ wiOpen = "open" /\ wiSent.command = "none" /\ wiGot # <<>> /\ wiCount = 1 =>
          LET entry == CHOOSE e \in ServerCommands : e.code = wiDone.code
          IN /\ Len(wiGot) = Len(wiDone.answer)
             /\ \A i \in DOMAIN wiGot : SameValue(entry.answers[i], wiDone.answer[i], wiGot[i])
             /\ wiDown = <<>>
             /\ wiUp # <<>> => wiDone.args[1] \in wiRemoved

=============================================================================
