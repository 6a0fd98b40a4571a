-------------------------------- MODULE DBus --------------------------------
(***************************************************************************)
(* The D-Bus interface: server/dbus in one thread of the server, with an   *)
(* AsyncModel in single thread mode behind every exported model, and       *)
(* client/dbus in the programs that call it.  The server answers late, by  *)
(* the message it kept for a result; an iterator is an object of its own,  *)
(* which the server closes when the program that opened it leaves the bus. *)
(* A program makes one call at a time, and has one model and one iterator. *)
(*                                                                         *)
(* External: QtDBus.  Calls arrive in order; the path of an object that is *)
(* deleted is free again; a program that leaves is reported only when      *)
(* somebody watched it at that moment.  Models are removed through D-Bus   *)
(* only: one that a socket connection removes leaves a dangling pointer    *)
(* in modelDBusObjectPaths.                                                *)
(***************************************************************************)
EXTENDS Integers, Sequences, SequencesExt

CONSTANTS
  DbClients, DbNames,
  DbServerCalls,      \* what each program calls the server for: methods and names
  DbLeavers, DbImpatient, \* the programs that may leave the bus, and whose calls may time out
  NormalizedName,     \* of each name: every character that is no letter or digit is "_"
  DbMaxCalls          \* bound on the calls of a behaviour

ASSUME DbServerCallsAssumption ==
  \A c \in DbClients : DbServerCalls[c] \subseteq {"createModel", "removeModel"} \X DbNames

VARIABLES
  dbUp,               \* the server has not crashed
  dbCore,             \* what ServerCore has for a name: "none", "model" or "null"
  dbPaths,            \* modelDBusObjectPaths: an index of dbExports, or 0
  dbExports,          \* a DBusExportModel with its adaptor and its AsyncModel, each
  dbIterators,        \* the DBusExportIterators
  dbBus,              \* what comes to the server, in order
  dbAlive,            \* the programs on the bus
  dbCalls,            \* what each program waits for
  dbModel, dbIterator,\* its model and its iterator
  dbGot,              \* the last answer it got
  dbCount

dbServer == <<dbUp, dbCore, dbPaths, dbExports, dbIterators>>
dbClient == <<dbCalls, dbModel, dbIterator, dbGot>>
dbVars == <<dbServer, dbBus, dbAlive, dbClient, dbCount>>

NoDbCall == [id |-> 0, method |-> "none", name |-> "", path |-> <<>>, client |-> ""]
NoDbModel == [name |-> "", path |-> <<>>]
NoDbIterator == [name |-> "", path |-> <<>>, opened |-> <<>>]
NoDbGot == [method |-> "none", name |-> "", type |-> "none", from |-> "", read |-> <<>>, opened |-> <<>>]

DbInit ==
  /\ dbUp = TRUE
  /\ dbCore = [name \in DbNames |-> "none"] /\ dbPaths = [name \in DbNames |-> 0]
  /\ dbExports = <<>> /\ dbIterators = {} /\ dbBus = <<>>
  /\ dbAlive = DbClients
  /\ dbCalls = [c \in DbClients |-> NoDbCall]
  /\ dbModel = [c \in DbClients |-> NoDbModel] /\ dbIterator = [c \in DbClients |-> NoDbIterator]
  /\ dbGot = NoDbGot
  /\ dbCount = 0
-----------------------------------------------------------------------------
\* What the methods of a model are for its AsyncModel, and answer
AsyncCommands ==
  [addStatement |-> "write", removeStatement |-> "write", removeAllStatements |-> "write",
   isEmpty |-> "ask", statementCount |-> "ask", containsStatement |-> "ask", containsAnyStatement |-> "ask",
   createBlankNode |-> "ask",
   listStatements |-> "list", listContexts |-> "list", executeQuery |-> "list"]

\* The three that stand for the others, which differ in their arguments
DbMethods == {"addStatement", "containsStatement", "listStatements"}

AnswerTypes(method) ==
  CASE method = "createModel" -> {"path"}
    [] method \in DOMAIN AsyncCommands -> {AsyncCommands[method]}
    [] method = "next" -> {"true", "false"}
    [] method = "current" -> {"element"}
    [] OTHER -> {"nothing"}

send(c, call) ==
  /\ dbCalls' = [dbCalls EXCEPT ![c] = call]
  /\ dbBus' = Append(dbBus, call)
  /\ dbGot' = NoDbGot

DbCall(c, method, name, path) ==
  [id |-> dbCount + 1, method |-> method, name |-> name, path |-> path, client |-> c]

dbBegin(c) == c \in dbAlive /\ dbCalls[c] = NoDbCall /\ dbCount < DbMaxCalls /\ dbCount' = dbCount + 1

\* DBusClient
serverCall(c, method, name) ==
  /\ dbBegin(c)
  /\ method = "createModel" => dbModel[c] = NoDbModel
  /\ send(c, DbCall(c, method, name, <<>>))
  /\ UNCHANGED <<dbServer, dbAlive, dbModel, dbIterator>>

\* DBusModel
modelCall(c, method) ==
  /\ dbBegin(c) /\ dbModel[c] # NoDbModel
  /\ AsyncCommands[method] = "list" => dbIterator[c] = NoDbIterator
  /\ send(c, DbCall(c, method, dbModel[c].name, dbModel[c].path))
  /\ UNCHANGED <<dbServer, dbAlive, dbModel, dbIterator>>

\* The backends of the iterators.  Iterator::next closes when there is no next
\* element or the call failed, and close() is called once.
iteratorCall(c, method) ==
  /\ dbIterator[c] # NoDbIterator
  /\ \/ dbBegin(c)
     \/ method = "close" /\ c \in dbAlive /\ dbCalls[c].method = "end" /\ dbCount' = dbCount + 1
  /\ send(c, DbCall(c, method, dbIterator[c].name, dbIterator[c].path))
  /\ UNCHANGED <<dbServer, dbAlive, dbModel, dbIterator>>

\* No answer came in bigTimeout, ten minutes.
callTimesOut(c) ==
  /\ c \in DbImpatient /\ dbCalls[c].id # 0
  /\ dbCalls' = [dbCalls EXCEPT ![c] = IF @.method = "next" THEN [NoDbCall EXCEPT !.method = "end"] ELSE NoDbCall]
  /\ dbIterator' = IF dbCalls[c].method = "close" THEN [dbIterator EXCEPT ![c] = NoDbIterator] ELSE dbIterator
  /\ UNCHANGED <<dbServer, dbBus, dbAlive, dbModel, dbGot, dbCount>>

\* The backend of an iterator tells nobody when it is deleted.
deleteIterator(c) ==
  /\ c \in dbAlive /\ dbCalls[c] = NoDbCall /\ dbIterator[c] # NoDbIterator
  /\ dbIterator' = [dbIterator EXCEPT ![c] = NoDbIterator]
  /\ UNCHANGED <<dbServer, dbBus, dbAlive, dbCalls, dbModel, dbGot, dbCount>>

Watched(c) == \E it \in dbIterators : it.client = c
Left(c) == [NoDbCall EXCEPT !.method = "left", !.client = c]

leaveBus(c) ==
  /\ c \in DbLeavers \cap dbAlive
  /\ dbAlive' = dbAlive \ {c}
  /\ dbBus' = IF Watched(c) THEN Append(dbBus, Left(c)) ELSE dbBus
  /\ dbCalls' = [dbCalls EXCEPT ![c] = NoDbCall]
  /\ dbModel' = [dbModel EXCEPT ![c] = NoDbModel] /\ dbIterator' = [dbIterator EXCEPT ![c] = NoDbIterator]
  /\ UNCHANGED <<dbServer, dbGot, dbCount>>
-----------------------------------------------------------------------------
\* What the reply to a call does to the program that still waits for it
replied(call, type, from, path, read) ==
  LET c == call.client
  IN IF dbCalls[c].id # call.id THEN UNCHANGED dbClient
     ELSE /\ dbCalls' = [dbCalls EXCEPT ![c] =
               IF call.method = "next" /\ type # "true" THEN [NoDbCall EXCEPT !.method = "end"] ELSE NoDbCall]
          /\ dbModel' = IF type = "path" THEN [dbModel EXCEPT ![c] = [name |-> call.name, path |-> path]] ELSE dbModel
          /\ dbIterator' = CASE type = "list" -> [dbIterator EXCEPT ![c] = [name |-> call.name, path |-> path, opened |-> read]]
                             [] call.method = "close" -> [dbIterator EXCEPT ![c] = NoDbIterator]
                             [] OTHER -> dbIterator
          /\ dbGot' = [method |-> call.method, name |-> call.name, type |-> type, from |-> from,
                       read |-> read, opened |-> dbIterator[c].opened]

failed(call) == replied(call, "error", call.name, <<>>, <<>>)

Served(methods) == dbUp /\ dbBus # <<>> /\ Head(dbBus).method \in methods /\ dbBus' = Tail(dbBus)

\* An export whose path was taken has none, and no call reaches it.
Exported(path) == {e \in DOMAIN dbExports : dbExports[e].alive /\ dbExports[e].path = path /\ path # <<>>}
Iterating(path) == {it \in dbIterators : <<dbExports[it.export].path, it.n>> = path}

\* ServerCore::model: a model that could not be created is remembered as null.
dbCoreModel(name, created) ==
  dbCore' = IF dbCore[name] = "none" THEN [dbCore EXCEPT ![name] = IF created THEN "model" ELSE "null"] ELSE dbCore

\* registerModel fails when the path is taken; createModel answers with it all
\* the same.  The second time it answers with the path the model really has.
createModel(created) ==
  /\ Served({"createModel"})
  /\ LET call == Head(dbBus)
         path == <<NormalizedName[call.name]>>
         known == dbPaths[call.name]
     IN IF known # 0
        THEN replied(call, "path", call.name, dbExports[known].path, <<>>) /\ UNCHANGED <<dbCore, dbPaths, dbExports>>
        ELSE /\ dbCoreModel(call.name, created)
             /\ IF dbCore'[call.name] = "null" THEN failed(call) /\ UNCHANGED <<dbPaths, dbExports>>
                ELSE /\ dbExports' = Append(dbExports,
                          [name |-> call.name, path |-> IF Exported(path) = {} THEN path ELSE <<>>, alive |-> TRUE,
                           version |-> 0, queue |-> <<>>, ready |-> <<>>, delayed |-> <<>>, count |-> 0])
                     /\ dbPaths' = [dbPaths EXCEPT ![call.name] = Len(dbExports')]
                     /\ replied(call, "path", call.name, path, <<>>)
  /\ UNCHANGED <<dbUp, dbIterators, dbAlive, dbCount>>

\* A name without a model dereferences 0.  With the adaptor go the messages it
\* kept and the iterators, its children.
removeModelOnBus ==
  /\ Served({"removeModel"})
  /\ LET call == Head(dbBus)
         known == dbPaths[call.name]
     IN IF known = 0
        THEN dbUp' = FALSE /\ UNCHANGED <<dbCore, dbPaths, dbExports, dbIterators, dbClient>>
        ELSE /\ dbCore' = [dbCore EXCEPT ![call.name] = "none"]
             /\ dbPaths' = [dbPaths EXCEPT ![call.name] = 0]
             /\ dbExports' = [dbExports EXCEPT ![known] =
                  [@ EXCEPT !.alive = FALSE, !.queue = <<>>, !.ready = <<>>, !.delayed = <<>>]]
             /\ dbIterators' = {it \in dbIterators : it.export # known}
             /\ replied(call, "nothing", call.name, <<>>, <<>>)
             /\ UNCHANGED dbUp
  /\ UNCHANGED <<dbAlive, dbCount>>

\* The methods of DBusModelAdaptor: the message is kept for a delayed reply.
adaptorCall ==
  /\ Served(DOMAIN AsyncCommands)
  /\ LET call == Head(dbBus)
     IN \/ \E e \in Exported(call.path) :
             /\ dbExports' = [dbExports EXCEPT ![e] =
                  [dbExports[e] EXCEPT !.queue = Append(@, [id |-> call.id, kind |-> AsyncCommands[call.method]]),
                                       !.delayed = Append(@, call)]]
             /\ UNCHANGED dbClient
        \/ Exported(call.path) = {} /\ failed(call) /\ UNCHANGED dbExports
  /\ UNCHANGED <<dbUp, dbCore, dbPaths, dbIterators, dbAlive, dbCount>>

\* _s_executeNextCommand of the AsyncModel, and the end of the command
OpenIn(e) == {it \in dbIterators : it.export = e /\ it.open}
\* A bug: a write does not wait for the iterators.
MayExecute_Always(e, command) == TRUE
MayExecute(e, command) ==
  command.kind # "write" \/ (OpenIn(e) = {} /\ \A i \in DOMAIN dbExports[e].ready : dbExports[e].ready[i].kind # "list")

executeOf(e, fails) ==
  /\ dbUp
  /\ LET queue == dbExports[e].queue
     IN \E i \in DOMAIN queue :
          /\ MayExecute(e, queue[i]) /\ \A j \in 1..i - 1 : ~MayExecute(e, queue[j])
          /\ dbExports' = [dbExports EXCEPT ![e] =
               [dbExports[e] EXCEPT
                  !.queue = RemoveAt(@, i),
                  !.ready = Append(@, IF fails THEN [queue[i] EXCEPT !.kind = "error"] ELSE queue[i]),
                  !.version = IF queue[i].kind = "write" /\ ~fails THEN @ + 1 ELSE @]]
  /\ UNCHANGED <<dbUp, dbCore, dbPaths, dbIterators, dbBus, dbAlive, dbClient, dbCount>>

messageOf(e, result) == CHOOSE i \in DOMAIN dbExports[e].delayed : dbExports[e].delayed[i].id = result.id

\* registerIterator: the watcher only sees a program that leaves from now on.
registerIterator(e, call) ==
  [export |-> e, n |-> dbExports[e].count + 1, client |-> call.client, open |-> TRUE, version |-> dbExports[e].version,
   late |-> call.client \notin dbAlive /\ ~Contains(dbBus, Left(call.client))]

_s_delayedResultReady(e) ==
  /\ dbUp /\ dbExports[e].ready # <<>>
  /\ LET result == Head(dbExports[e].ready)
         i == messageOf(e, result)
         call == dbExports[e].delayed[i]
         it == registerIterator(e, call)
     IN /\ dbExports' = [dbExports EXCEPT ![e] =
             [dbExports[e] EXCEPT !.ready = Tail(@), !.delayed = RemoveAt(@, i),
                                  !.count = IF result.kind = "list" THEN @ + 1 ELSE @]]
        /\ dbIterators' = IF result.kind = "list" THEN dbIterators \cup {it} ELSE dbIterators
        /\ CASE result.kind = "list" -> replied(call, "list", dbExports[e].name, <<dbExports[e].path, it.n>>, <<e, it.n>>)
             [] result.kind = "error" -> failed(call)
             [] OTHER -> replied(call, result.kind, dbExports[e].name, <<>>, <<>>)
  /\ UNCHANGED <<dbUp, dbCore, dbPaths, dbBus, dbAlive, dbCount>>

\* The adaptors of the iterators: at the end the iterator closes itself.
adaptorNext(more) ==
  /\ Served({"next"})
  /\ LET call == Head(dbBus)
     IN \/ \E it \in Iterating(call.path) :
             /\ more => it.open
             /\ dbIterators' = (dbIterators \ {it}) \cup {[it EXCEPT !.open = more]}
             /\ replied(call, IF more THEN "true" ELSE "false", dbExports[it.export].name, <<>>, <<it.export, it.n>>)
        \/ Iterating(call.path) = {} /\ ~more /\ failed(call) /\ UNCHANGED dbIterators
  /\ UNCHANGED <<dbUp, dbCore, dbPaths, dbExports, dbAlive, dbCount>>

\* current, bindingByName and the other methods that only read
adaptorCurrent ==
  /\ Served({"current"})
  /\ LET call == Head(dbBus)
     IN \/ \E it \in Iterating(call.path) :
             IF it.open THEN replied(call, "element", dbExports[it.export].name, <<>>, <<it.export, it.n>>) ELSE failed(call)
        \/ Iterating(call.path) = {} /\ failed(call)
  /\ UNCHANGED <<dbServer, dbAlive, dbCount>>

adaptorClose ==
  /\ Served({"close"})
  /\ LET call == Head(dbBus)
     IN \/ \E it \in Iterating(call.path) :
             dbIterators' = dbIterators \ {it} /\ replied(call, "nothing", dbExports[it.export].name, <<>>, <<it.export, it.n>>)
        \/ Iterating(call.path) = {} /\ failed(call) /\ UNCHANGED dbIterators
  /\ UNCHANGED <<dbUp, dbCore, dbPaths, dbExports, dbAlive, dbCount>>

slotServiceUnregistered ==
  /\ Served({"left"})
  /\ dbIterators' = {it \in dbIterators : it.client # Head(dbBus).client}
  /\ UNCHANGED <<dbUp, dbCore, dbPaths, dbExports, dbAlive, dbClient, dbCount>>

DbNext ==
  \/ \E c \in DbClients :
       \/ \E asked \in DbServerCalls[c] : serverCall(c, asked[1], asked[2])
       \/ \E method \in DbMethods : modelCall(c, method)
       \/ \E method \in {"next", "current", "close"} : iteratorCall(c, method)
       \/ callTimesOut(c) \/ deleteIterator(c) \/ leaveBus(c)
  \/ \E created \in BOOLEAN : createModel(created)
  \/ removeModelOnBus \/ adaptorCall \/ adaptorCurrent \/ adaptorClose \/ slotServiceUnregistered
  \/ \E e \in DOMAIN dbExports : _s_delayedResultReady(e) \/ \E fails \in BOOLEAN : executeOf(e, fails)
  \/ \E more \in BOOLEAN : adaptorNext(more)
-----------------------------------------------------------------------------
(***************************************************************************)
(* dbusmodeladaptor.cpp, dbusexportiterator.cpp: an answer is that to the  *)
(* call the program waits for, although reads overtake the writes that     *)
(* wait for an iterator.  It comes from the model that was asked for, or   *)
(* from one whose name becomes the same path, and the next element from    *)
(* the iterator that was opened, unless its model was removed meanwhile:   *)
(* paths are used again.  While an iterator can be read no write reaches   *)
(* its model.  An iterator whose program has left is closed as soon as the *)
(* server hears of it; only of a program that leaves before its answer the *)
(* server never hears, and its iterator blocks every write of the model.   *)
(***************************************************************************)
BusAnswersOwn ==
  /\ dbGot # NoDbGot =>
       /\ dbGot.type \in {"error"} \cup AnswerTypes(dbGot.method)
       /\ NormalizedName[dbGot.from] = NormalizedName[dbGot.name]
       /\ dbGot.method \in {"next", "current"} /\ dbGot.type # "error" => dbGot.read = dbGot.opened \/ ~dbExports[dbGot.opened[1]].alive
  /\ \A it \in dbIterators :
       /\ it.open => it.version = dbExports[it.export].version
       /\ it.client \notin dbAlive => it.late \/ Contains(dbBus, Left(it.client))
=============================================================================
