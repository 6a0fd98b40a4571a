--------------------------- MODULE SparqlEndpoint ---------------------------
(***************************************************************************)
(* client/sparql: SparqlModel and SparqlProtocol, one thread.  A request   *)
(* is sent with QHttp and known by its id.  An asynchronous call leaves a  *)
(* Command behind; a synchronous one waits in an event loop of its own, in *)
(* which answers arrive, their receivers run and may call the model again: *)
(* the calls that wait are a stack, and only the innermost can return.     *)
(*                                                                         *)
(* External: QHttp answers in the order of the requests.  A request that   *)
(* fails on the way leaves lastResponse() as it was, and QHttp throws away *)
(* the requests behind it.  The endpoint executes what it answers with     *)
(* status 200.  Statements and templates have no blank nodes: in SPARQL    *)
(* they are variables.                                                     *)
(***************************************************************************)
EXTENDS SparqlResults, FiniteSets

CONSTANTS
  SpContents,     \* what the endpoint may have at first
  SpStatements, SpTemplates,
  MaxRequests,    \* bound on the requests of a behaviour
  MaxNested       \* bound on the calls that wait

ASSUME SpBoundsAssumption == MaxRequests \in Nat

VARIABLES
  spContent,      \* the endpoint's statements; those of the default graph have no context
  spQueue,        \* QHttp's requests that are not finished
  spNextId,
  spStatus,       \* status code of lastResponse(): "none", "200" or "other"
  spFailed,       \* lastError() of the protocol is one
  spData,         \* m_resultsData: buffers by id
  spResults,      \* m_results: the error flag of finished synchronous requests
  spLoops,        \* m_loops: ids somebody waits for
  spWaiting,      \* the calls that wait, the innermost last
  spCommands,     \* commands: the kind and template of asynchronous requests
  spLost,         \* requests QHttp threw away
  spServed,       \* by id what the endpoint answered (for the property)
  spDelivered,    \* by id what was given to the AsyncResults (for the property)
  spReturned      \* how the last synchronous call ended (for the property)

spProtocol == <<spQueue, spNextId, spStatus, spFailed, spData, spResults, spLoops, spLost, spServed>>
spVars == <<spContent, spProtocol, spWaiting, spCommands, spDelivered, spReturned>>

None == <<>>     \* no data, else the kind of the request and what was answered

NotReturned == [op |-> "none"]

SpInit ==
  /\ spContent \in SpContents /\ spQueue = <<>> /\ spNextId = 1 /\ spStatus = "none" /\ spFailed = FALSE
  /\ spData = <<>> /\ spResults = <<>> /\ spLoops = {} /\ spWaiting = <<>> /\ spCommands = <<>>
  /\ spLost = {} /\ spServed = <<>> /\ spDelivered = <<>> /\ spReturned = NotReturned

Dropped(f, id) == [i \in DOMAIN f \ {id} |-> f[i]]
With(f, id, value) == [i \in DOMAIN f \cup {id} |-> IF i = id THEN value ELSE f[i]]
-----------------------------------------------------------------------------
\* statementToConstructGraphPattern with a graph: only named graphs are seen.
Graphed(template) == {st \in spContent : ~IsEmpty(st.c) /\ StatementMatches(st, template)}

\* The ask of containsStatement without a context, with OPTIONAL and !bound(?g)
InNoGraph(st) == st \in spContent /\ Graphed(st) = {}

\* What the endpoint answers to a request
Answer(request) ==
  LET arg == request.arg
      said == CASE request.op = "contains" -> IF IsEmpty(arg.c) THEN InNoGraph(arg) ELSE Graphed(arg) # {}
                [] request.op = "containsAny" -> Graphed(arg) # {}
                [] request.op = "listContexts" -> {st.c : st \in Graphed(EmptyStatement)}
                [] request.op \in {"list", "removeAll"} -> Graphed(arg)
                [] request.op = "query" -> spContent
                [] OTHER -> "executed"
  IN <<request.op, said>>

Executed(request) ==
  CASE request.op = "add" -> spContent \cup {request.arg}
    [] request.op = "remove" -> spContent \ {request.arg}
    [] OTHER -> spContent

\* SparqlProtocol::query
sendQuery(op, arg) ==
  /\ spNextId <= MaxRequests
  /\ spQueue' = Append(spQueue, [id |-> spNextId, op |-> op, arg |-> arg])
  /\ spData' = With(spData, spNextId, None)
  /\ spNextId' = spNextId + 1

\* An event loop runs unless a call is about to return.
EventLoop == spWaiting # <<>> => spWaiting[Len(spWaiting)].id \in spLoops

\* executeQueryAsync (of any language), listStatementsAsync, listContextsAsync
callAsync(op, arg) ==
  /\ EventLoop
  /\ sendQuery(op, arg)
  /\ spCommands' = With(spCommands, spNextId, [op |-> op, arg |-> arg])
  /\ UNCHANGED <<spContent, spStatus, spFailed, spResults, spLoops, spLost, spServed, spWaiting,
                 spDelivered, spReturned>>

\* What is refused without a request
Refused(op, arg) ==
  \/ op \in {"add", "contains"} /\ ~StatementValid(arg)
  \/ op \in {"add", "remove"} /\ IsEmpty(arg.c)
  \/ op = "query in another language"
  \/ op \in {"statementCount", "isEmpty", "createBlankNode"}

returnRefused(op, arg) ==
  /\ EventLoop /\ Refused(op, arg)
  /\ spReturned' = [op |-> "refused", rc |-> "error"]
  /\ UNCHANGED <<spContent, spProtocol, spWaiting, spCommands, spDelivered>>

\* A frame of the stack; alone says whether a call began above it.
Frame(op, call, rest) ==
  [id |-> spNextId, op |-> op, call |-> call, rest |-> rest, alone |-> TRUE]

Covered(frames) == [i \in DOMAIN frames |-> [frames[i] EXCEPT !.alone = FALSE]]

\* blockingQuery up to the event loop
blockingQuery(below, frame, request, arg) ==
  /\ sendQuery(request, arg)
  /\ spLoops' = spLoops \cup {spNextId}
  /\ spWaiting' = Append(below, frame)

\* removeAllStatements with a whole statement is removeStatement.
callSync(op, arg) ==
  /\ EventLoop /\ Len(spWaiting) < MaxNested
  /\ LET single == op = "removeAll" /\ StatementValid(arg) /\ ~IsEmpty(arg.c)
         request == IF single THEN "remove" ELSE op
     IN /\ ~Refused(request, arg)
        /\ blockingQuery(Covered(spWaiting), Frame(request, request, {}), request, arg)
  /\ UNCHANGED <<spContent, spStatus, spFailed, spResults, spLost, spServed, spCommands, spDelivered,
                 spReturned>>
-----------------------------------------------------------------------------
\* SparqlProtocol::slotRequestFinished, and behind it SparqlModel's for what
\* nobody waits for; the AsyncResult is delivered by the event loop.
slotRequestFinished(id, httpError, data) ==
  LET error == httpError \/ spStatus' # "200"
  IN /\ spFailed' = (spStatus' # "200")
     /\ IF id \in spLoops
        THEN /\ spLoops' = spLoops \ {id}
             /\ spResults' = With(spResults, id, error)
             /\ spData' = With(spData, id, data)
             /\ UNCHANGED <<spCommands, spDelivered>>
        ELSE /\ spData' = Dropped(spData, id)
             /\ spCommands' = Dropped(spCommands, id)
             /\ spDelivered' = With(spDelivered, id,
                  [op |-> IF id \in DOMAIN spDelivered THEN "twice" ELSE spCommands[id].op,
                   data |-> IF error THEN None ELSE data, failed |-> spFailed'])
             /\ UNCHANGED <<spLoops, spResults>>

finish(outcome) ==
  /\ spQueue # <<>> /\ EventLoop
  /\ LET request == spQueue[1]
         behind == {spQueue[i].id : i \in 2..Len(spQueue)}
         data == IF outcome = "served" THEN Answer(request) ELSE None
     IN /\ spServed' = With(spServed, request.id, [ok |-> outcome = "served", op |-> request.op, data |-> data])
        /\ spContent' = IF outcome = "served" THEN Executed(request) ELSE spContent
        /\ spStatus' = CASE outcome = "served" -> "200" [] outcome = "refused" -> "other" [] OTHER -> spStatus
        /\ IF outcome = "broken" THEN spQueue' = <<>> /\ spLost' = spLost \cup behind
           ELSE spQueue' = Tail(spQueue) /\ UNCHANGED spLost
        /\ slotRequestFinished(request.id, outcome = "broken", data)
  /\ UNCHANGED <<spNextId, spWaiting, spReturned>>

\* A bug: the data of the request that was sent last.
blockingData_Last(id) ==
  LET last == CHOOSE i \in DOMAIN spData : \A j \in DOMAIN spData : j <= i
  IN IF ~spResults[id] THEN spData[last] ELSE None

\* blockingQuery behind the event loop: no data on an error
blockingData(id) == IF ~spResults[id] THEN spData[id] ELSE None

returnFrom(frame, rc, value) ==
  /\ spReturned' = [op |-> frame.call, id |-> frame.id, alone |-> frame.alone, value |-> value, rc |-> rc]
  /\ spWaiting' = SubSeq(spWaiting, 1, Len(spWaiting) - 1)
  /\ UNCHANGED <<spQueue, spNextId, spLoops>>

\* The caller goes on with lastError(), which is the last request's.  An answer
\* that cannot be had is an iterator that is not valid: false, or nothing listed.
returnSync ==
  /\ spWaiting # <<>> /\ ~EventLoop
  /\ LET frame == spWaiting[Len(spWaiting)]
         below == SubSeq(spWaiting, 1, Len(spWaiting) - 1)
         data == IF spFailed THEN None ELSE blockingData(frame.id)
         rc == IF spFailed THEN "error" ELSE "none"
         rest == IF frame.op = "removeAll" THEN (IF data = None THEN {} ELSE data[2]) ELSE frame.rest
     IN /\ spResults' = Dropped(spResults, frame.id)
        /\ IF frame.call = "removeAll" /\ rest # {} /\ (frame.op = "remove" => ~spFailed)
           THEN \E st \in rest :
                  /\ spData' = With(Dropped(spData, frame.id), spNextId, None)
                  /\ spNextId <= MaxRequests
                  /\ spQueue' = Append(spQueue, [id |-> spNextId, op |-> "remove", arg |-> st])
                  /\ spNextId' = spNextId + 1
                  /\ spLoops' = spLoops \cup {spNextId}
                  /\ spWaiting' = Append(below, [Frame("remove", "removeAll", rest \ {st}) EXCEPT !.alone = frame.alone])
                  /\ UNCHANGED spReturned
           ELSE /\ spData' = Dropped(spData, frame.id)
                /\ returnFrom(frame, IF frame.op = "removeAll" THEN "none" ELSE rc, data)
  /\ UNCHANGED <<spContent, spStatus, spFailed, spLost, spServed, spCommands, spDelivered>>

\* ~SparqlModel, when no call waits: the request QHttp works on is aborted, which
\* is an error for its receiver; the other commands are forgotten.
destroySparqlModel ==
  /\ spWaiting = <<>> /\ spQueue # <<>>
  /\ spStatus' = spStatus
  /\ slotRequestFinished(spQueue[1].id, TRUE, None)
  /\ spServed' = With(spServed, spQueue[1].id, [ok |-> FALSE, op |-> spQueue[1].op, data |-> None])
  /\ spLost' = spLost \cup {spQueue[i].id : i \in 2..Len(spQueue)}
  /\ spQueue' = <<>> /\ spNextId' = MaxRequests + 1
  /\ UNCHANGED <<spContent, spWaiting, spReturned>>

SpNext ==
  \/ \E st \in SpStatements : \/ \E op \in {"add", "contains"} : callSync(op, st) \/ returnRefused(op, st)
                              \/ returnRefused("remove", st) \/ callSync("removeAll", st)
  \/ \E tm \in SpTemplates : \/ \E op \in {"list", "containsAny", "removeAll"} : callSync(op, tm)
                             \/ callAsync("list", tm)
  \/ \E op \in {"listContexts", "query"} : callSync(op, EmptyStatement) \/ callAsync(op, EmptyStatement)
  \/ \E op \in {"query in another language", "statementCount", "isEmpty", "createBlankNode"} :
       returnRefused(op, EmptyStatement)
  \/ \E outcome \in {"served", "refused", "broken"} : finish(outcome)
  \/ returnSync \/ destroySparqlModel
-----------------------------------------------------------------------------
(***************************************************************************)
(* An answer goes to the call that asked, and once: what an AsyncResult is *)
(* given, and what a call returns data from, is what the endpoint said to  *)
(* that very request, however the calls are nested and whichever fails.    *)
(* Buffers, loops and commands are kept for exactly the requests that are  *)
(* on their way or waited for, and those QHttp threw away.  A call above   *)
(* which no other began says that there was no error only if its request   *)
(* was served or was cut off behind an answer with status 200; then it has *)
(* no data.                                                                *)
(***************************************************************************)
AnswersOwn ==
  LET queued == {spQueue[i].id : i \in DOMAIN spQueue}
      waiting == {spWaiting[i].id : i \in DOMAIN spWaiting}
  IN /\ DOMAIN spData = queued \cup waiting \cup spLost
     /\ spLoops = waiting \ DOMAIN spResults
     /\ DOMAIN spResults = waiting \cap DOMAIN spServed
     /\ DOMAIN spCommands = (queued \cup spLost) \ waiting
     /\ DOMAIN spDelivered \cap (queued \cup spLost \cup waiting) = {}
     /\ \A id \in DOMAIN spDelivered :
          /\ spDelivered[id].op = spServed[id].op
          /\ spDelivered[id].data = IF spServed[id].ok THEN spServed[id].data ELSE None
          /\ spServed[id].ok => ~spDelivered[id].failed
     /\ "id" \in DOMAIN spReturned =>
          LET served == spServed[spReturned.id]
          IN /\ spReturned.value \in {served.data, None}
             /\ spReturned.alone /\ spReturned.rc = "none" /\ spReturned.op # "removeAll" =>
                  spReturned.value = served.data
             /\ spReturned.alone /\ served.ok => spReturned.rc = "none"

(***************************************************************************)
(* The SPARQL client: the answers of an endpoint and the calls they are    *)
(* for (RowsByName, AnswersOwn).                                           *)
(***************************************************************************)
SparqlClientExact == RowsByName /\ AnswersOwn
=============================================================================
