---------------------------- MODULE ClientServer ----------------------------
(***************************************************************************)
(* The socket protocol: client/clientconnection.cpp, clientmodel.cpp and   *)
(* localsocketclient.cpp over client/socket.cpp on one side,               *)
(* server/serverconnection.cpp, servercore.cpp and localserver.cpp on the  *)
(* other.                                                                  *)
(*                                                                         *)
(* The threads of one client process share one LocalSocketClient and one   *)
(* ClientModel.  A request and its answer happen under the socket's mutex  *)
(* (SocketStream); an answer that does not come in time makes the client   *)
(* close the socket.  The server runs one thread per connection, which     *)
(* carries out the commands itself, and keeps the iterators of a           *)
(* connection by random ids until they are closed or the connection ends.  *)
(* Another client may remove the model at any time.                        *)
(*                                                                         *)
(* Requests are numbered to tell their answers apart; the bytes carry no   *)
(* number.  The operations stand for the requests of the same form:        *)
(*   addStatement    a model id and a statement, an error code back (also  *)
(*                   removeStatement, removeAllStatements, contains...)    *)
(*   statementCount  a model id only (also isEmpty, createBlankNode)       *)
(*   listStatements  opens an iterator (also executeQuery, listContexts)   *)
(***************************************************************************)
EXTENDS Integers, Sequences, FiniteSets

CONSTANTS
  Threads,            \* threads of the client process
  IteratorIds,        \* the ids the server's random generator gives
  NoThread,           \* nobody owns a mutex
  MaxConnectionCount, \* d->maxConnectionCount of the server, 0: no limit
  MaxConnections,     \* bound: connections the client makes
  MaxRequests         \* bound: requests after which no new call is made

ASSUME NamesAssumption == NoThread \notin Threads
ASSUME IdsAssumption == IteratorIds \subseteq Nat
ASSUME BoundsAssumption ==
  MaxConnectionCount \in Nat /\ MaxConnections \in Nat \ {0} /\ MaxRequests \in Nat

Connections == 1..MaxConnections

VARIABLES
  handle,           \* Socket::m_handle: a connection, 0 when it is closed
  socketLock,       \* Socket::m_mutex
  socketError,      \* threads whose Socket::lastError() is set
  m_openIterators,  \* ClientModel::m_openIterators
  listLock,         \* ClientModel::m_openIteratorsMutex
  iterators,        \* ids of the iterators the user was given
  call,             \* per client thread: the call it is in
  conn,             \* the connections, as the server sees them
  serverUp,         \* the server listens
  modelKnown,       \* ModelPool still maps the id of the client's model
  sent,             \* history: requests sent so far
  executed,         \* history: requests carried out, their calls not yet returned
  unfounded         \* history: requests not carried out whose call returned no error

clientVars == <<handle, socketLock, socketError, m_openIterators, listLock, iterators, call,
                sent, unfounded>>
serverVars == <<conn, serverUp, modelKnown, executed>>
vars == <<clientVars, serverVars>>

ModelOps == {"addStatement", "statementCount", "listStatements"}
IteratorOps == {"iteratorNext", "iteratorClose"}
Ops == ModelOps \cup IteratorOps \cup {"checkProtocolVersion"}

Call(phase, op, id) == [phase |-> phase, op |-> op, id |-> id, n |-> 0, failed |-> FALSE]

Idle == Call("idle", "none", 0)

NoConnection ==
  [state |-> "none", toServer |-> <<>>, toClient |-> <<>>, iterators |-> {}, leftover |-> FALSE,
   busy |-> FALSE]

Init ==     \* connected, the model created
  /\ handle = 1
  /\ socketLock = NoThread /\ listLock = NoThread
  /\ socketError = {}
  /\ m_openIterators = {} /\ iterators = {}
  /\ call = [t \in Threads |-> Idle]
  /\ conn = [c \in Connections |->
               IF c = 1 THEN [NoConnection EXCEPT !.state = "open"] ELSE NoConnection]
  /\ serverUp = TRUE /\ modelKnown = TRUE
  /\ sent = 0 /\ executed = {} /\ unfounded = {}

At(t, phase) == call[t].phase = phase
AllIdle == \A t \in Threads : At(t, "idle")
-----------------------------------------------------------------------------
(***************************************************************************)
(* Calls of the user.  closeIterator takes the mutex of the list first and *)
(* keeps it; an id that is not in the list is not sent.                    *)
(***************************************************************************)
MayCall(t) == At(t, "idle") /\ sent < MaxRequests

callModel(t, op) ==
  /\ MayCall(t)
  /\ call' = [call EXCEPT ![t] = Call("send", op, 0)]
  /\ UNCHANGED <<handle, socketLock, socketError, m_openIterators, listLock, iterators, sent,
                 unfounded, serverVars>>

callIterator(t, op, id) ==
  /\ MayCall(t)
  /\ id \in iterators
  /\ call' = [call EXCEPT ![t] = Call(IF op = "iteratorClose" THEN "close" ELSE "send", op, id)]
  /\ UNCHANGED <<handle, socketLock, socketError, m_openIterators, listLock, iterators, sent,
                 unfounded, serverVars>>

closeIterator(t) ==
  /\ At(t, "close")
  /\ listLock = NoThread
  /\ IF call[t].id \in m_openIterators
     THEN listLock' = t /\ call' = [call EXCEPT ![t].phase = "send"]
     ELSE UNCHANGED listLock /\ call' = [call EXCEPT ![t] = Idle]
  /\ UNCHANGED <<handle, socketLock, socketError, m_openIterators, iterators, sent, unfounded,
                 serverVars>>

(***************************************************************************)
(* What a call does once ClientConnection is done with the request: an id  *)
(* above 0 goes into the list, a closed one leaves it whether or not the   *)
(* request worked, and an iterator without a next element is closed        *)
(* (Iterator::next).  The user gets an iterator, with the id 0 too, unless *)
(* there was an error.                                                     *)
(***************************************************************************)
AfterRequest_NotOnError(t, id, more, failed) ==
  /\ call' = [call EXCEPT ![t] =
       CASE @.op = "listStatements" /\ id > 0 /\ ~failed ->
              [Call("track", @.op, id) EXCEPT !.failed = failed]
         [] @.op = "iteratorNext" /\ ~more -> Call("close", "iteratorClose", @.id)
         [] OTHER -> Idle]
  /\ IF call[t].op = "iteratorClose"
     THEN m_openIterators' = m_openIterators \ {call[t].id} /\ listLock' = NoThread
     ELSE UNCHANGED <<m_openIterators, listLock>>
  /\ iterators' = IF call[t].op = "listStatements" /\ id = 0 /\ ~failed
                  THEN iterators \cup {0} ELSE iterators

AfterRequest(t, id, more, failed) ==
  /\ call' = [call EXCEPT ![t] =
       CASE @.op = "listStatements" /\ id > 0 ->
              [Call("track", @.op, id) EXCEPT !.failed = failed]
         [] @.op = "iteratorNext" /\ ~more -> Call("close", "iteratorClose", @.id)
         [] OTHER -> Idle]
  /\ IF call[t].op = "iteratorClose"
     THEN m_openIterators' = m_openIterators \ {call[t].id} /\ listLock' = NoThread
     ELSE UNCHANGED <<m_openIterators, listLock>>
  /\ iterators' = IF call[t].op = "listStatements" /\ id = 0 /\ ~failed
                  THEN iterators \cup {0} ELSE iterators

\* The call reports its result; what it reports is kept when it is unfounded.
Returned(t, success) ==
  /\ executed' = executed \ {call[t].n}
  /\ unfounded' = IF success /\ call[t].n \notin executed
                  THEN unfounded \cup {call[t].n} ELSE unfounded

trackIterator(t) ==
  /\ At(t, "track")
  /\ listLock = NoThread
  /\ m_openIterators' = m_openIterators \cup {call[t].id}
  /\ iterators' = IF call[t].failed THEN iterators ELSE iterators \cup {call[t].id}
  /\ call' = [call EXCEPT ![t] = Idle]
  /\ UNCHANGED <<handle, socketLock, socketError, listLock, sent, unfounded, serverVars>>
-----------------------------------------------------------------------------
(***************************************************************************)
(* ClientConnection: one request.  A write fails when the socket is closed *)
(* on either side, and when this thread's Socket error is set from before: *)
(* SocketStream::write looks at lastError(), which only open() clears.     *)
(* There is a limit to the wait for an answer and none to Socket::write    *)
(* and Socket::read: a request too large for the socket's buffer blocks    *)
(* until the server reads it, and once the first byte of an answer is      *)
(* there the read blocks until the last one is.                            *)
(***************************************************************************)
ServerClosed(c) == conn[c].state \in {"closed", "finished", "gone"}

Writable == {c \in Connections : ~ServerClosed(c)}

WriteFails(t) == handle \notin Writable \/ t \in socketError

\* Requests with statements, nodes or queries have any size.
Large(op) == op \in {"addStatement", "listStatements"}

WriteError(t) ==     \* "Write error"
  /\ handle' = 0
  /\ socketError' = socketError \cup {t}
  /\ AfterRequest(t, 0, FALSE, TRUE)

sendRequest(t) ==
  /\ At(t, "send")
  /\ socketLock = NoThread
  /\ sent' = sent + 1
  /\ \/ /\ ~WriteFails(t)
        /\ socketLock' = t
        /\ \E phase \in {"wait"} \cup (IF Large(call[t].op) THEN {"write"} ELSE {}) :
             call' = [call EXCEPT ![t].phase = phase, ![t].n = sent + 1]
        /\ conn' = [conn EXCEPT ![handle].toServer =
             Append(@, [n |-> sent + 1, op |-> call[t].op, id |-> call[t].id])]
        /\ UNCHANGED <<handle, socketError, m_openIterators, listLock, iterators>>
     \/ WriteFails(t) /\ WriteError(t) /\ UNCHANGED <<socketLock, conn>>
  /\ UNCHANGED <<unfounded, serverUp, modelKnown, executed>>

\* The thread in a request holds socketLock, so handle is its connection.
Answers == conn[handle].toClient

\* The server's thread reads the arguments, or has answered without them.
writeRest(t) ==
  /\ At(t, "write")
  /\ ~ServerClosed(handle)
  /\ conn[handle].busy \/ Answers # <<>>
  /\ call' = [call EXCEPT ![t].phase = "wait"]
  /\ UNCHANGED <<handle, socketLock, socketError, m_openIterators, listLock, iterators, sent,
                 unfounded, serverVars>>

writeBroken(t) ==
  /\ At(t, "write")
  /\ ServerClosed(handle)
  /\ WriteError(t)
  /\ Returned(t, FALSE)
  /\ socketLock' = NoThread
  /\ UNCHANGED <<sent, conn, serverUp, modelKnown>>

\* select() reports the first byte of the answer.
waitForReadyRead(t) ==
  /\ At(t, "wait")
  /\ Answers # <<>>
  /\ call' = [call EXCEPT ![t].phase = "read"]
  /\ UNCHANGED <<handle, socketLock, socketError, m_openIterators, listLock, iterators, sent,
                 unfounded, serverVars>>

readAnswer(t) ==
  /\ At(t, "read")
  /\ Answers # <<>>
  /\ AfterRequest(t, Head(Answers).id, Head(Answers).more, Head(Answers).error)
  /\ Returned(t, ~Head(Answers).error)
  /\ conn' = [conn EXCEPT ![handle].toClient = Tail(@)]
  /\ socketLock' = NoThread
  /\ UNCHANGED <<handle, socketError, sent, serverUp, modelKnown>>

\* "Command timed out."
timeout_KeepSocket(t) ==
  /\ At(t, "wait")
  /\ Answers = <<>> /\ ~ServerClosed(handle)
  /\ AfterRequest(t, 0, FALSE, TRUE)
  /\ Returned(t, FALSE)
  /\ socketLock' = NoThread
  /\ UNCHANGED <<handle, socketError, sent, conn, serverUp, modelKnown>>

timeout_Never(t) == FALSE

timeout(t) ==
  /\ At(t, "wait")
  /\ Answers = <<>> /\ ~ServerClosed(handle)
  /\ handle' = 0
  /\ AfterRequest(t, 0, FALSE, TRUE)
  /\ Returned(t, FALSE)
  /\ socketLock' = NoThread
  /\ UNCHANGED <<socketError, sent, conn, serverUp, modelKnown>>

(***************************************************************************)
(* End of file, before an answer or within one: select() reports the       *)
(* socket readable, the reads fail and their result is not looked at.  An  *)
(* id that was not read is 0, booleans and error codes are uninitialised,  *)
(* the error of the call is the default one: no error.  The socket stays   *)
(* open, with this thread's error set.                                     *)
(***************************************************************************)
readEof(t) ==
  /\ At(t, "wait") \/ At(t, "read")
  /\ ServerClosed(handle)
  /\ \E id \in {0} \cup {Answers[i].id : i \in DOMAIN Answers}, more \in BOOLEAN : AfterRequest(t, id, more, FALSE)
  /\ \E success \in BOOLEAN : Returned(t, success)
  /\ conn' = [conn EXCEPT ![handle].toClient = <<>>]
  /\ socketError' = socketError \cup {t}
  /\ socketLock' = NoThread
  /\ UNCHANGED <<handle, sent, serverUp, modelKnown>>

(***************************************************************************)
(* LocalSocketClient::connect and disconnect, called while no other thread *)
(* is in a call (the class, unlike its models, is not thread-safe).  open  *)
(* clears the error of the calling thread only.  connect goes on with      *)
(* checkProtocolVersion.                                                   *)
(***************************************************************************)
Unused == {c \in Connections : conn[c].state = "none"}

connect(t) ==
  /\ AllIdle /\ handle = 0
  /\ sent < MaxRequests
  /\ \/ /\ serverUp
        /\ \E c \in Unused :
             /\ \A d \in Unused : c <= d
             /\ handle' = c
             /\ conn' = [conn EXCEPT ![c].state = "pending"]
        /\ socketError' = socketError \ {t}
        /\ call' = [call EXCEPT ![t].phase = "send", ![t].op = "checkProtocolVersion"]
     \/ /\ ~serverUp
        /\ socketError' = socketError \cup {t}
        /\ UNCHANGED <<handle, call, conn>>
  /\ UNCHANGED <<socketLock, m_openIterators, listLock, iterators, sent, unfounded, serverUp,
                 modelKnown, executed>>

disconnect ==
  /\ AllIdle /\ handle # 0
  /\ handle' = 0
  /\ UNCHANGED <<socketLock, socketError, m_openIterators, listLock, iterators, call, sent,
                 unfounded, serverVars>>
-----------------------------------------------------------------------------
(***************************************************************************)
(* The server's main thread.  A connection over the limit is dropped       *)
(* without being closed, and nobody reads it.                              *)
(***************************************************************************)
Served == {c \in Connections : conn[c].state \in {"open", "closed", "finished"}}

TooMany == MaxConnectionCount > 0 /\ Cardinality(Served) >= MaxConnectionCount

incomingConnection(c) ==
  /\ conn[c].state = "pending"
  /\ conn' = [conn EXCEPT ![c].state = IF TooMany THEN "dropped" ELSE "open"]
  /\ UNCHANGED <<clientVars, serverUp, modelKnown, executed>>

serverConnectionFinished(c) ==
  /\ conn[c].state = "finished"
  /\ conn' = [conn EXCEPT ![c].state = "gone"]
  /\ UNCHANGED <<clientVars, serverUp, modelKnown, executed>>

\* ServerCore::stop deletes the connections, which waits for their threads: one that is
\* inside a command keeps it from being done.
stop ==
  /\ serverUp /\ \A c \in Served : ~conn[c].busy
  /\ serverUp' = FALSE
  /\ conn' = [c \in Connections |->
       IF c \in Served \/ conn[c].state = "pending"
       THEN [conn[c] EXCEPT !.state = "gone", !.toServer = <<>>, !.iterators = {},
                            !.leftover = FALSE]
       ELSE conn[c]]
  /\ UNCHANGED <<clientVars, modelKnown, executed>>

\* ServerConnection::removeModel on a connection of another client.
removeModel ==
  /\ modelKnown
  /\ modelKnown' = FALSE
  /\ UNCHANGED <<clientVars, conn, serverUp, executed>>
-----------------------------------------------------------------------------
(***************************************************************************)
(* A connection's thread: _s_readNextCommand and the command's method.     *)
(* With an unknown model id the statement behind it is left in the socket. *)
(* With a known one the thread is inside the model, or the iterator, until *)
(* that returns: it may wait there for a lock, and nothing interrupts it.  *)
(***************************************************************************)
Answer(r, id, more, error) == [n |-> r.n, id |-> id, more |-> more, error |-> error]

Reply(c, a, its, left) ==
  conn' = [conn EXCEPT ![c].toServer = Tail(@), ![c].toClient = Append(@, a),
                       ![c].iterators = its, ![c].leftover = left, ![c].busy = FALSE]

CarriedOut(r) ==
  executed' = IF \E t \in Threads : At(t, "wait") /\ call[t].n = r.n
              THEN executed \cup {r.n} ELSE executed

invalidModel(c, r) ==
  /\ ~modelKnown /\ r.op \in ModelOps
  /\ Reply(c, Answer(r, 0, FALSE, TRUE), conn[c].iterators,
           r.op \in {"addStatement", "listStatements"})
  /\ UNCHANGED executed

\* The iterator's id is not known to this connection.
invalidIterator(c, r) ==
  /\ r.op \in IteratorOps /\ r.id \notin conn[c].iterators
  /\ Reply(c, Answer(r, 0, FALSE, TRUE), conn[c].iterators, FALSE)
  /\ UNCHANGED executed

commandBegins(c, r) ==
  /\ \/ modelKnown /\ r.op \in ModelOps
     \/ r.op \in IteratorOps /\ r.id \in conn[c].iterators
  /\ conn' = [conn EXCEPT ![c].busy = TRUE]
  /\ UNCHANGED executed

modelCommand(c, r) ==
  /\ r.op \in {"addStatement", "statementCount"}
  /\ \E error \in BOOLEAN : Reply(c, Answer(r, 0, FALSE, error), conn[c].iterators, FALSE)
  /\ CarriedOut(r)

\* An invalid iterator is answered with 0; the error is the model's own.
listStatements(c, r) ==
  /\ r.op = "listStatements"
  /\ \E error \in BOOLEAN :
       \/ Reply(c, Answer(r, 0, FALSE, error), conn[c].iterators, FALSE)
       \/ \E id \in IteratorIds \ conn[c].iterators :
            Reply(c, Answer(r, id, FALSE, error), conn[c].iterators \cup {id}, FALSE)
  /\ CarriedOut(r)

iteratorNext(c, r) ==
  /\ r.op = "iteratorNext"
  /\ \E more, error \in BOOLEAN : Reply(c, Answer(r, 0, more, error), conn[c].iterators, FALSE)
  /\ CarriedOut(r)

iteratorClose(c, r) ==
  /\ r.op = "iteratorClose"
  /\ \E error \in BOOLEAN : Reply(c, Answer(r, 0, FALSE, error), conn[c].iterators \ {r.id}, FALSE)
  /\ CarriedOut(r)

supportsProtocolVersion(c, r) ==
  /\ r.op = "checkProtocolVersion"
  /\ Reply(c, Answer(r, 0, TRUE, FALSE), conn[c].iterators, FALSE)
  /\ CarriedOut(r)

_s_readNextCommand(c) ==
  /\ conn[c].state = "open" /\ ~conn[c].busy
  /\ ~conn[c].leftover /\ conn[c].toServer # <<>>
  /\ LET r == Head(conn[c].toServer) IN
       \/ invalidModel(c, r) \/ invalidIterator(c, r) \/ commandBegins(c, r)
       \/ supportsProtocolVersion(c, r)
  /\ UNCHANGED <<clientVars, serverUp, modelKnown>>

\* The arguments are read and the model or the iterator has returned.
commandReturns(c) ==
  /\ conn[c].busy
  /\ LET r == Head(conn[c].toServer) IN
       /\ \A t \in Threads : At(t, "write") => call[t].n # r.n
       /\ modelCommand(c, r) \/ listStatements(c, r) \/ iteratorNext(c, r) \/ iteratorClose(c, r)
  /\ UNCHANGED <<clientVars, serverUp, modelKnown>>

(***************************************************************************)
(* What was left in the socket is read as a command: "Unknown command",    *)
(* and the connection is closed.  It happens when the rest of the bytes    *)
(* arrives, or the next request.  (A resource whose encoded URL is a       *)
(* multiple of 256 bytes long would read as a known command; left out.)    *)
(***************************************************************************)
unknownCommand(c) ==
  /\ conn[c].state = "open" /\ conn[c].leftover /\ ~conn[c].busy
  /\ conn' = [conn EXCEPT ![c].state = "closed", ![c].toServer = <<>>, ![c].leftover = FALSE]
  /\ UNCHANGED <<clientVars, serverUp, modelKnown, executed>>

\* disconnected() makes the thread quit, once it is back in its event loop; the end of
\* run() drops the iterators.
Disconnected(c) ==
  /\ conn[c].state = "closed" \/ (conn[c].state = "open" /\ handle # c)
  /\ ~conn[c].busy

runEnd_KeepIterators(c) ==
  /\ Disconnected(c)
  /\ conn' = [conn EXCEPT ![c].state = "finished", ![c].toServer = <<>>, ![c].leftover = FALSE]
  /\ UNCHANGED <<clientVars, serverUp, modelKnown, executed>>

runEnd(c) ==
  /\ Disconnected(c)
  /\ conn' = [conn EXCEPT ![c].state = "finished", ![c].toServer = <<>>,
                          ![c].iterators = {}, ![c].leftover = FALSE]
  /\ UNCHANGED <<clientVars, serverUp, modelKnown, executed>>
-----------------------------------------------------------------------------
ClientStep(t) ==
  \/ closeIterator(t) \/ trackIterator(t) \/ sendRequest(t)
  \/ waitForReadyRead(t) \/ timeout(t) \/ writeBroken(t) \/ readEof(t)

Transfer(t) == writeRest(t) \/ readAnswer(t)

ServerStep(c) ==
  \/ incomingConnection(c) \/ serverConnectionFinished(c)
  \/ _s_readNextCommand(c) \/ commandReturns(c) \/ unknownCommand(c) \/ runEnd(c)

Next ==
  \/ \E t \in Threads :
       \/ \E op \in ModelOps : callModel(t, op)
       \/ \E op \in IteratorOps, id \in IteratorIds \cup {0} : callIterator(t, op, id)
       \/ ClientStep(t) \/ Transfer(t)
       \/ connect(t)
  \/ disconnect
  \/ \E c \in Connections : ServerStep(c)
  \/ stop \/ removeModel

(***************************************************************************)
(* A thread inside a call goes on, and its select() ends at the latest     *)
(* after the timeout; the event loops of the server notice the end of a    *)
(* connection.  Nothing obliges the server to answer, a command to return, *)
(* or the other end to take the rest of a request or give that of an       *)
(* answer.                                                                 *)
(***************************************************************************)
Fairness ==
  /\ \A t \in Threads : WF_vars(ClientStep(t))
  /\ \A c \in Connections : WF_vars(runEnd(c)) /\ WF_vars(serverConnectionFinished(c))

Spec == Init /\ [][Next]_vars /\ Fairness
-----------------------------------------------------------------------------
Requests == [n : Nat, op : Ops, id : Nat]
AnswerRecords == [n : Nat, id : Nat, more : BOOLEAN, error : BOOLEAN]

TypeOK ==
  /\ handle \in Connections \cup {0}
  /\ socketLock \in Threads \cup {NoThread} /\ listLock \in Threads \cup {NoThread}
  /\ socketError \subseteq Threads
  /\ m_openIterators \subseteq IteratorIds /\ iterators \subseteq IteratorIds \cup {0}
  /\ call \in [Threads -> [phase : {"idle", "close", "send", "write", "wait", "read", "track"},
                           op : Ops \cup {"none"}, id : Nat, n : Nat, failed : BOOLEAN]]
  /\ \A c \in Connections :
       /\ conn[c].state \in {"none", "pending", "dropped", "open", "closed", "finished", "gone"}
       /\ conn[c].toServer \in Seq(Requests)
       /\ conn[c].toClient \in Seq(AnswerRecords)
       /\ conn[c].iterators \subseteq IteratorIds
       /\ conn[c].leftover \in BOOLEAN /\ conn[c].busy \in BOOLEAN
  /\ serverUp \in BOOLEAN /\ modelKnown \in BOOLEAN
  /\ sent \in Nat /\ executed \subseteq 1..sent /\ unfounded \subseteq 1..sent

(***************************************************************************)
(* A thread in a request, from the first byte it sends to the last one it  *)
(* reads, never finds the answer to another one, its own earlier one       *)
(* included, although the protocol carries no numbers: the mutex and the   *)
(* close after a timeout keep them apart.                                  *)
(***************************************************************************)
InRequest(t) == call[t].phase \in {"write", "wait", "read"}

OwnAnswer ==
  \A t \in Threads : InRequest(t) =>
    /\ socketLock = t /\ handle # 0
    /\ \A i \in DOMAIN Answers : Answers[i].n = call[t].n
    /\ Len(conn[handle].toServer) + Len(Answers) <= 1

(***************************************************************************)
(* No iterator stays open at the server behind the client's back: on the   *)
(* client's connection every one, but for the id 0, is in the list that    *)
(* closeIterator and ~ClientModel work on, or on its way into it.          *)
(***************************************************************************)
OnTheWay(c) ==
  {conn[c].toClient[i].id : i \in DOMAIN conn[c].toClient}
    \cup {call[t].id : t \in {u \in Threads : At(u, "track")}}

IteratorsTracked ==
  handle # 0 /\ conn[handle].state = "open" =>
    conn[handle].iterators \ {0} \subseteq m_openIterators \cup OnTheWay(handle)

(***************************************************************************)
(* servercore.h says of setMaximumConnectionCount that it is there "to     *)
(* restrict the number of threads the server spawns".                      *)
(***************************************************************************)
ThreadsBounded == MaxConnectionCount > 0 => Cardinality(Served) <= MaxConnectionCount

(***************************************************************************)
(* What the server keeps for clients is bounded: iterators the client      *)
(* knows of, and a limited number of connection threads.                   *)
(***************************************************************************)
ResourcesBounded == IteratorsTracked /\ ThreadsBounded

(***************************************************************************)
(* localsocketclient.h says of disconnect: "open iterators are closed".    *)
(* The server drops the iterators of every connection the client left, by  *)
(* disconnect() or after a timeout, with a request under way or not,       *)
(* unless its thread stays inside a command for ever, as one does that     *)
(* waits for a lock that only these iterators would give back.             *)
(***************************************************************************)
IteratorsReleased ==
  \A c \in Connections :
    \/ (conn[c].state = "open" /\ handle # c) ~> conn[c].iterators = {}
    \/ <>[]conn[c].busy

(***************************************************************************)
(* Every call returns, whatever the server does, unless one blocks for     *)
(* ever in the middle of a transfer, where Socket has no limit, and the    *)
(* others wait for the mutex it holds: the two mutexes are never taken in  *)
(* opposite orders, and no call waits for ever for its answer to begin.    *)
(***************************************************************************)
CallsReturn ==
  \A t \in Threads :
    \/ ~At(t, "idle") ~> At(t, "idle")
    \/ \E u \in Threads : <>[](call[u].phase \in {"write", "read"})

(***************************************************************************)
(* model.h says of removeStatement, a request of addStatement's form, that *)
(* it returns "Error::ErrorNone on success and an error code if statement  *)
(* was invalid or an error occurred": a request whose call reports no      *)
(* error was carried out.                                                  *)
(***************************************************************************)
SuccessIsReal == unfounded = {}
=============================================================================
