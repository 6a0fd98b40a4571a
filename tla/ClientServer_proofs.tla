------------------------- MODULE ClientServer_proofs ------------------------
(***************************************************************************)
(* Proofs about ClientServer for any set of client threads and of iterator *)
(* ids, any limit of connections and any number of requests: a thread that *)
(* waits finds the answer to its own request only, no iterator stays open  *)
(* at the server behind the client's back, and the limit is kept.  And     *)
(* about Sopranocmd, for any command lines, contents and files: a command  *)
(* changes what its arguments name and nothing else.  And about Plugins,   *)
(* for any installation: a lookup gives what its caller asked for.         *)
(***************************************************************************)
EXTENDS ClientServer, Sopranocmd, Plugins, FiniteSetTheorems, SequenceTheorems, TLAPS

Phases == {"idle", "close", "send", "write", "wait", "read", "track"}
States == {"none", "pending", "dropped", "open", "closed", "finished", "gone"}
CallRecords == [phase : Phases, op : Ops \cup {"none"}, id : Nat, n : Nat, failed : BOOLEAN]
GivenAnswers == [n : Nat, id : IteratorIds \cup {0}, more : BOOLEAN, error : BOOLEAN]
ConnRecords ==
  [state : States, toServer : Seq(Requests), toClient : Seq(GivenAnswers),
   iterators : SUBSET IteratorIds, leftover : BOOLEAN, busy : BOOLEAN]

ListsTyped == m_openIterators \in SUBSET IteratorIds /\ iterators \in SUBSET (IteratorIds \cup {0})
LocksTyped ==
  /\ socketLock \in Threads \cup {NoThread} /\ listLock \in Threads \cup {NoThread}
  /\ socketError \in SUBSET Threads
HistoryTyped == sent \in Nat /\ executed \in SUBSET (1..sent) /\ unfounded \in SUBSET (1..sent)

Typed ==
  /\ handle \in Connections \cup {0}
  /\ LocksTyped /\ ListsTyped /\ HistoryTyped
  /\ call \in [Threads -> CallRecords]
  /\ conn \in [Connections -> ConnRecords]
  /\ serverUp \in BOOLEAN /\ modelKnown \in BOOLEAN

\* What a call carries in each of its phases; the one in its request has the socket.
CallOK(t) ==
  /\ call[t].phase \in {"close", "send", "write", "wait", "read"} => call[t].op \in Ops
  /\ InRequest(t) => call[t].n \in 1..sent
  /\ call[t].phase = "track" => call[t].id \in IteratorIds
  /\ InRequest(t) <=> socketLock = t

\* A connection that is not open yet, or no more; a command is carried out while its request
\* is at the head.
ConnOK(c) ==
  /\ conn[c].busy => conn[c].state = "open" /\ conn[c].toServer # <<>>
  /\ conn[c].state = "none" => conn[c].toServer = <<>>
  /\ conn[c].state \in {"none", "pending", "dropped"} =>
       conn[c].iterators = {} /\ conn[c].toClient = <<>>
  /\ ServerClosed(c) => conn[c].toServer = <<>>

(***************************************************************************)
(* One request at a time: the client's connection is silent while nobody   *)
(* holds the socket, and otherwise carries at most one message, which is   *)
(* the request of the thread that holds it or the answer to it.  Once the  *)
(* answer to a close is there, the server has dropped the iterator.        *)
(***************************************************************************)
Silent(c) == conn[c].toServer = <<>> /\ conn[c].toClient = <<>>

AnswerTo(t, c, a) ==
  /\ a.n = call[t].n
  /\ a.id # 0 => call[t].op = "listStatements"
  /\ call[t].op = "iteratorClose" => call[t].id \notin conn[c].iterators

InFlight(t, c) ==
  /\ Len(conn[c].toServer) + Len(conn[c].toClient) <= 1
  /\ conn[c].toServer # <<>> =>
       LET r == Head(conn[c].toServer) IN r.n = call[t].n /\ r.op = call[t].op /\ r.id = call[t].id
  /\ conn[c].toClient # <<>> => AnswerTo(t, c, Head(conn[c].toClient))

Exchange ==
  /\ handle # 0 => conn[handle].state # "none"
  /\ handle # 0 /\ socketLock = NoThread => Silent(handle)
  /\ socketLock # NoThread => handle # 0 /\ InFlight(socketLock, handle)

Inv ==
  /\ Typed
  /\ \A t \in Threads : CallOK(t)
  /\ \A c \in Connections : ConnOK(c)
  /\ Exchange /\ IteratorsTracked /\ ThreadsBounded
-----------------------------------------------------------------------------
(***************************************************************************)
(* Calls, and the threads that take no part in a step.                     *)
(***************************************************************************)
LEMMA CallRecord ==
  ASSUME NEW p \in Phases, NEW op \in Ops \cup {"none"}, NEW id \in Nat
  PROVE  /\ Call(p, op, id) \in CallRecords
         /\ Call(p, op, id).phase = p /\ Call(p, op, id).op = op
         /\ Call(p, op, id).id = id /\ Call(p, op, id).n = 0
  BY DEF Call, CallRecords

LEMMA IdsAreNumbers == IteratorIds \cup {0} \subseteq Nat
  BY IdsAssumption

LEMMA OneCallSet ==
  ASSUME Typed, NEW t \in Threads, NEW c \in CallRecords, call' = [call EXCEPT ![t] = c]
  PROVE  /\ call' \in [Threads -> CallRecords] /\ call'[t] = c
         /\ \A u \in Threads \ {t} : call'[u] = call[u]
  BY DEF Typed

LEMMA OthersOK ==
  ASSUME Inv, NEW t \in Threads, sent' \in Nat, sent' >= sent, CallOK(t)',
         \A u \in Threads \ {t} : call'[u] = call[u] /\ (socketLock' = u <=> socketLock = u)
  PROVE  \A u \in Threads : CallOK(u)'
<1> SUFFICES ASSUME NEW u \in Threads, u # t PROVE CallOK(u)'
  OBVIOUS
<1>1. call'[u] = call[u] /\ (socketLock' = u <=> socketLock = u) /\ CallOK(u) /\ sent \in Nat
  BY DEF Inv, Typed, HistoryTyped
<1> QED
  BY <1>1 DEF CallOK, InRequest

LEMMA ConnFrame ==
  ASSUME UNCHANGED <<handle, conn>>
  PROVE  /\ (\A c \in Connections : ConnOK(c)) => \A c \in Connections : ConnOK(c)'
         /\ ThreadsBounded => ThreadsBounded'
  BY DEF ConnOK, ServerClosed, ThreadsBounded, Served

(***************************************************************************)
(* Calls before and after their request: the connection is not touched,    *)
(* and the list of the client does not lose an iterator.                   *)
(***************************************************************************)
LEMMA ClientOnly ==
  ASSUME Inv, NEW t \in Threads, NEW c \in CallRecords,
         UNCHANGED <<handle, socketLock, socketError, sent, unfounded, serverVars>>,
         call' = [call EXCEPT ![t] = c], ~InRequest(t), c.phase \notin {"write", "wait", "read"},
         c.phase \in {"close", "send"} => c.op \in Ops, c.phase # "track",
         ListsTyped', listLock' \in Threads \cup {NoThread},
         m_openIterators \subseteq m_openIterators',
         call[t].phase = "track" => call[t].id \in m_openIterators'
  PROVE  Inv'
<1>1. /\ Typed /\ CallOK(t) /\ (\A d \in Connections : ConnOK(d))
      /\ Exchange /\ IteratorsTracked /\ ThreadsBounded
  BY DEF Inv
<1>2. /\ call' \in [Threads -> CallRecords] /\ call'[t] = c
      /\ \A u \in Threads \ {t} : call'[u] = call[u]
  BY <1>1, OneCallSet
<1>3. UNCHANGED <<conn, serverUp, modelKnown, executed>>
  BY DEF serverVars
<1>4. Typed'
  BY <1>1, <1>2, <1>3 DEF Typed, LocksTyped, HistoryTyped
<1>5. CallOK(t)'
  BY <1>1, <1>2 DEF CallOK, InRequest
<1>6. \A u \in Threads : CallOK(u)'
  <2>1. sent' \in Nat /\ sent' >= sent
    BY <1>1 DEF Typed, HistoryTyped
  <2> QED
    BY <1>2, <1>5, <2>1, OthersOK
<1>7. (\A d \in Connections : ConnOK(d)') /\ ThreadsBounded'
  BY <1>1, <1>3, ConnFrame
<1>8. Exchange'
  <2>1. CASE socketLock = NoThread
    BY <1>1, <1>3, <2>1 DEF Exchange, Silent
  <2>2. CASE socketLock # NoThread
    <3>1. socketLock \in Threads /\ socketLock # t /\ handle # 0 /\ InFlight(socketLock, handle)
      BY <1>1, <2>2 DEF Typed, LocksTyped, CallOK, Exchange, InRequest
    <3>2. InFlight(socketLock, handle)'
      BY <1>2, <1>3, <3>1 DEF InFlight, AnswerTo
    <3> QED
      BY <1>1, <1>3, <2>2, <3>1, <3>2 DEF Exchange
  <2> QED
    BY <2>1, <2>2
<1>9. IteratorsTracked'
  <2> SUFFICES ASSUME handle # 0, conn[handle].state = "open", NEW id \in conn[handle].iterators, id # 0
               PROVE  id \in m_openIterators' \cup OnTheWay(handle)'
    BY <1>3 DEF IteratorsTracked
  <2>1. id \in m_openIterators \cup OnTheWay(handle)
    BY <1>1 DEF IteratorsTracked
  <2>2. CASE \E u \in Threads : At(u, "track") /\ id = call[u].id
    <3>1. PICK u \in Threads : At(u, "track") /\ id = call[u].id
      BY <2>2
    <3>2. CASE u = t
      BY <3>1, <3>2 DEF At
    <3>3. CASE u # t
      BY <1>2, <3>1, <3>3 DEF OnTheWay, At
    <3> QED
      BY <3>2, <3>3
  <2>3. CASE id \in {conn[handle].toClient[i].id : i \in DOMAIN conn[handle].toClient}
    BY <1>3, <2>3 DEF OnTheWay
  <2> QED
    BY <2>1, <2>2, <2>3 DEF OnTheWay
<1> QED
  BY <1>4, <1>6, <1>7, <1>8, <1>9 DEF Inv

LEMMA CallInv ==
  ASSUME Inv, NEW t \in Threads,
         \/ \E op \in ModelOps : callModel(t, op)
         \/ \E op \in IteratorOps, id \in IteratorIds \cup {0} : callIterator(t, op, id)
  PROVE  Inv'
<1>1. Typed /\ ListsTyped
  BY DEF Inv, Typed
<1>2. /\ call[t].phase = "idle"
      /\ UNCHANGED <<handle, socketLock, socketError, m_openIterators, listLock, iterators, sent,
                     unfounded, serverVars>>
  BY DEF callModel, callIterator, MayCall, At
<1>3. PICK p \in {"send", "close"}, op \in Ops, id \in Nat : call' = [call EXCEPT ![t] = Call(p, op, id)]
  BY IdsAreNumbers DEF callModel, callIterator, Ops
<1> DEFINE c == Call(p, op, id)
<1>4. c \in CallRecords /\ c.phase = p /\ c.op = op
  BY CallRecord DEF Phases
<1> HIDE DEF c
<1>5. call' = [call EXCEPT ![t] = c]
  BY <1>3 DEF c
<1> QED
  BY <1>1, <1>2, <1>4, <1>5, ClientOnly DEF Typed, LocksTyped, ListsTyped, InRequest

LEMMA CloseIteratorInv ==
  ASSUME Inv, NEW t \in Threads, closeIterator(t)
  PROVE  Inv'
<1>1. Typed /\ ListsTyped /\ CallOK(t) /\ call[t] \in CallRecords
  BY DEF Inv, Typed
<1>2. /\ call[t].phase = "close" /\ call[t].op \in Ops
      /\ UNCHANGED <<handle, socketLock, socketError, m_openIterators, iterators, sent,
                     unfounded, serverVars>>
  BY <1>1 DEF closeIterator, At, CallOK, InRequest
<1>3. ListsTyped'
  BY <1>1, <1>2 DEF ListsTyped
<1>4. CASE call[t].id \in m_openIterators
  <2> DEFINE c == [call[t] EXCEPT !.phase = "send"]
  <2>1. c \in CallRecords /\ c.phase = "send" /\ c.op \in Ops
    BY <1>1, <1>2 DEF CallRecords, Phases
  <2>2. call' = [call EXCEPT ![t] = c] /\ listLock' = t
    BY <1>4 DEF closeIterator
  <2> HIDE DEF c
  <2> QED
    BY <1>2, <1>3, <2>1, <2>2, ClientOnly DEF InRequest
<1>5. CASE call[t].id \notin m_openIterators
  <2>1. Idle \in CallRecords /\ Idle.phase = "idle"
    BY CallRecord DEF Idle, Phases
  <2>2. call' = [call EXCEPT ![t] = Idle] /\ listLock' \in Threads \cup {NoThread}
    BY <1>1, <1>5 DEF closeIterator, Typed, LocksTyped
  <2> QED
    BY <1>2, <1>3, <2>1, <2>2, ClientOnly DEF InRequest
<1> QED
  BY <1>4, <1>5

LEMMA TrackIteratorInv ==
  ASSUME Inv, NEW t \in Threads, trackIterator(t)
  PROVE  Inv'
<1>1. Typed /\ ListsTyped /\ CallOK(t)
  BY DEF Inv, Typed
<1>2. /\ call[t].phase = "track" /\ call[t].id \in IteratorIds
      /\ m_openIterators' = m_openIterators \cup {call[t].id}
      /\ iterators' = IF call[t].failed THEN iterators ELSE iterators \cup {call[t].id}
      /\ call' = [call EXCEPT ![t] = Idle]
      /\ UNCHANGED <<handle, socketLock, socketError, listLock, sent, unfounded, serverVars>>
  BY <1>1 DEF trackIterator, At, CallOK, InRequest
<1>3. Idle \in CallRecords /\ Idle.phase = "idle"
  BY CallRecord DEF Idle, Phases
<1>4. ListsTyped' /\ listLock' \in Threads \cup {NoThread}
  BY <1>1, <1>2 DEF ListsTyped, Typed, LocksTyped
<1> QED
  BY <1>2, <1>3, <1>4, ClientOnly DEF InRequest
-----------------------------------------------------------------------------
(***************************************************************************)
(* What the end of a request leaves behind, however it ended: the id of a  *)
(* new iterator is on its way into the list, and the list loses only the   *)
(* iterator of an iteratorClose.                                           *)
(***************************************************************************)
LEMMA AfterRequestEffect ==
  ASSUME Typed, NEW t \in Threads, call[t].op \in Ops, NEW id \in IteratorIds \cup {0},
         NEW more \in BOOLEAN, NEW failed \in BOOLEAN, AfterRequest(t, id, more, failed)
  PROVE  /\ call' \in [Threads -> CallRecords] /\ \A u \in Threads \ {t} : call'[u] = call[u]
         /\ call'[t].phase \in {"idle", "close", "track"}
         /\ call'[t].phase = "close" => call'[t].op \in Ops
         /\ call'[t].phase = "track" => call'[t].id \in IteratorIds
         /\ id # 0 /\ call[t].op = "listStatements" => call'[t].phase = "track" /\ call'[t].id = id
         /\ ListsTyped' /\ listLock' \in Threads \cup {NoThread}
         /\ \A i \in m_openIterators :
              i \in m_openIterators' \/ (call[t].op = "iteratorClose" /\ i = call[t].id)
<1> DEFINE c == CASE call[t].op = "listStatements" /\ id > 0 ->
                       [Call("track", call[t].op, id) EXCEPT !.failed = failed]
                  [] call[t].op = "iteratorNext" /\ ~more -> Call("close", "iteratorClose", call[t].id)
                  [] OTHER -> Idle
<1>1. call[t] \in CallRecords /\ id \in Nat /\ call[t].id \in Nat
  BY IdsAssumption DEF Typed, CallRecords
<1>2. /\ c \in CallRecords /\ c.phase \in {"idle", "close", "track"}
      /\ c.phase = "close" => c.op \in Ops
      /\ c.phase = "track" => c.id \in IteratorIds
      /\ id # 0 /\ call[t].op = "listStatements" => c.phase = "track" /\ c.id = id
  <2>1. CASE call[t].op = "listStatements" /\ id > 0
    <3> DEFINE r == Call("track", call[t].op, id)
    <3>1. r \in CallRecords /\ r.phase = "track" /\ r.id = id
      BY <1>1, CallRecord DEF Phases
    <3>2. c = [r EXCEPT !.failed = failed]
      BY <2>1
    <3> HIDE DEF r, c
    <3>3. c \in CallRecords /\ c.phase = "track" /\ c.id = id
      BY <3>1, <3>2 DEF CallRecords
    <3> QED
      BY <2>1, <3>3
  <2>2. CASE ~(call[t].op = "listStatements" /\ id > 0) /\ call[t].op = "iteratorNext" /\ ~more
    <3>1. c = Call("close", "iteratorClose", call[t].id)
      BY <2>2
    <3>2. "iteratorClose" \in Ops /\ "close" \in Phases
      BY DEF Ops, IteratorOps, Phases
    <3> HIDE DEF c
    <3> QED
      BY <1>1, <2>2, <3>1, <3>2, CallRecord
  <2>3. CASE ~(call[t].op = "listStatements" /\ id > 0) /\ ~(call[t].op = "iteratorNext" /\ ~more)
    <3>1. c = Idle
      BY <2>3
    <3> HIDE DEF c
    <3>2. Idle \in CallRecords /\ Idle.phase = "idle"
      BY CallRecord DEF Idle, Phases
    <3>3. ~(id # 0 /\ call[t].op = "listStatements")
      <4>1. \A n \in Nat : n # 0 => n > 0
        OBVIOUS
      <4> QED
        BY <1>1, <2>3, <4>1
    <3> QED
      BY <3>1, <3>2, <3>3
  <2> QED
    BY <2>1, <2>2, <2>3
<1>3. call' = [call EXCEPT ![t] = c]
  BY DEF AfterRequest
<1>4. ListsTyped' /\ listLock' \in Threads \cup {NoThread}
  BY DEF AfterRequest, Typed, ListsTyped, LocksTyped
<1>5. \A i \in m_openIterators :
        i \in m_openIterators' \/ (call[t].op = "iteratorClose" /\ i = call[t].id)
  BY DEF AfterRequest
<1> HIDE DEF c
<1>6. call' \in [Threads -> CallRecords] /\ call'[t] = c /\ \A u \in Threads \ {t} : call'[u] = call[u]
  BY <1>2, <1>3, OneCallSet
<1> QED
  BY <1>2, <1>4, <1>5, <1>6

LEMMA SameServed ==
  ASSUME \A c \in Connections : conn'[c].state = conn[c].state
  PROVE  Served' = Served /\ \A c \in Connections : ServerClosed(c)' <=> ServerClosed(c)
  BY DEF Served, ServerClosed

LEMMA CallEnds ==
  ASSUME Inv, NEW t \in Threads, call[t].op \in Ops, NEW id \in IteratorIds \cup {0},
         NEW more \in BOOLEAN, NEW failed \in BOOLEAN, AfterRequest(t, id, more, failed),
         socketLock \in {t, NoThread}, socketLock' = NoThread, handle' \in {0, handle},
         socketError' \in SUBSET Threads, HistoryTyped', sent' >= sent, UNCHANGED <<serverUp, modelKnown>>,
         conn' \in [Connections -> ConnRecords],
         \A c \in Connections : conn'[c].state = conn[c].state /\ ConnOK(c)',
         handle' # 0 => Silent(handle)', IteratorsTracked'
  PROVE  Inv'
<1>1. Typed /\ Exchange /\ ThreadsBounded
  BY DEF Inv
<1>2. /\ call' \in [Threads -> CallRecords] /\ \A u \in Threads \ {t} : call'[u] = call[u]
      /\ call'[t].phase \in {"idle", "close", "track"}
      /\ call'[t].phase = "close" => call'[t].op \in Ops
      /\ call'[t].phase = "track" => call'[t].id \in IteratorIds
      /\ ListsTyped' /\ listLock' \in Threads \cup {NoThread}
  BY <1>1, AfterRequestEffect
<1>3. Typed'
  BY <1>1, <1>2 DEF Typed, LocksTyped
<1>4. CallOK(t)'
  BY <1>2, NamesAssumption DEF CallOK, InRequest
<1>5. \A u \in Threads : CallOK(u)'
  <2>1. \A u \in Threads \ {t} : call'[u] = call[u] /\ (socketLock' = u <=> socketLock = u)
    BY <1>2, NamesAssumption
  <2>2. sent' \in Nat
    BY DEF HistoryTyped
  <2> QED
    BY <1>4, <2>1, <2>2, OthersOK
<1>6. Exchange'
  <2>1. handle' # 0 => handle' \in Connections /\ handle' = handle
    BY <1>1 DEF Typed
  <2> QED
    BY <1>1, <2>1 DEF Exchange
<1>7. ThreadsBounded'
  BY <1>1, SameServed DEF ThreadsBounded
<1> QED
  BY <1>3, <1>5, <1>6, <1>7 DEF Inv
-----------------------------------------------------------------------------
(***************************************************************************)
(* The steps of a request at the client.                                   *)
(***************************************************************************)
LEMMA HolderWaits ==
  ASSUME Inv, NEW t \in Threads, InRequest(t)
  PROVE  /\ socketLock = t /\ handle \in Connections /\ InFlight(t, handle)
         /\ conn[handle] \in ConnRecords /\ ConnOK(handle)
         /\ call[t].op \in Ops /\ call[t].n \in 1..sent
<1>1. Typed /\ CallOK(t) /\ Exchange /\ \A c \in Connections : ConnOK(c)
  BY DEF Inv
<1>2. socketLock = t /\ call[t].op \in Ops /\ call[t].n \in 1..sent
  BY <1>1 DEF CallOK, InRequest
<1>3. handle \in Connections /\ InFlight(t, handle)
  BY <1>1, <1>2, NamesAssumption DEF Exchange, Typed
<1> QED
  BY <1>1, <1>2, <1>3 DEF Typed

LEMMA LockIsFree ==
  ASSUME Inv, \A t \in Threads : ~InRequest(t)
  PROVE  socketLock = NoThread
  BY DEF Inv, Typed, LocksTyped, CallOK, InRequest

LEMMA OnlyRequest ==
  ASSUME NEW t \in Threads, NEW r, UNCHANGED handle,
         conn'[handle].toServer = <<r>>, conn'[handle].toClient = <<>>,
         r.n = call'[t].n, r.op = call'[t].op, r.id = call'[t].id
  PROVE  InFlight(t, handle)'
<1>1. Len(<<r>>) = 1 /\ Head(<<r>>) = r /\ Len(<<>>) = 0
  OBVIOUS
<1>2. (Len(conn[handle].toServer) + Len(conn[handle].toClient) <= 1)'
  BY <1>1
<1> QED
  BY <1>1, <1>2 DEF InFlight

LEMMA SameOnTheWay ==
  ASSUME UNCHANGED handle, conn'[handle].toClient = conn[handle].toClient,
         \A u \in Threads : At(u, "track")' <=> At(u, "track"),
         \A u \in Threads : At(u, "track") => call'[u].id = call[u].id
  PROVE  OnTheWay(handle)' = OnTheWay(handle)
  BY DEF OnTheWay

LEMMA RequestSent ==
  ASSUME Inv, NEW t \in Threads, call[t].phase = "send", socketLock = NoThread, ~WriteFails(t),
         sent' = sent + 1, socketLock' = t,
         NEW p \in {"write", "wait"}, call' = [call EXCEPT ![t].phase = p, ![t].n = sent + 1],
         conn' = [conn EXCEPT ![handle].toServer =
                    Append(@, [n |-> sent + 1, op |-> call[t].op, id |-> call[t].id])],
         UNCHANGED <<handle, socketError, m_openIterators, listLock, iterators, unfounded,
                     serverUp, modelKnown, executed>>
  PROVE  Inv'
<1> DEFINE r == [n |-> sent + 1, op |-> call[t].op, id |-> call[t].id]
           c == [call[t] EXCEPT !.phase = p, !.n = sent + 1]
           k == [conn[handle] EXCEPT !.toServer = Append(@, r)]
<1>1. /\ Typed /\ CallOK(t) /\ (\A d \in Connections : ConnOK(d))
      /\ Exchange /\ IteratorsTracked /\ ThreadsBounded /\ HistoryTyped /\ LocksTyped
  BY DEF Inv, Typed
<1>2. handle \in Connections /\ ~ServerClosed(handle) /\ handle # 0
  BY DEF WriteFails, Writable, Connections
<1>3. Silent(handle) /\ conn[handle].state # "none" /\ conn[handle] \in ConnRecords
  BY <1>1, <1>2 DEF Exchange, Typed
<1>4. r \in Requests /\ r.n = sent + 1 /\ r.op = call[t].op /\ r.id = call[t].id
  <2>1. call[t] \in CallRecords /\ call[t].op \in Ops /\ sent + 1 \in Nat
    BY <1>1 DEF Typed, CallOK, HistoryTyped, InRequest
  <2> QED
    BY <2>1 DEF CallRecords, Requests
<1>5. /\ c \in CallRecords /\ c.phase = p /\ c.n = sent + 1 /\ c.op = call[t].op /\ c.id = call[t].id
  <2>1. call[t] \in CallRecords /\ sent + 1 \in Nat
    BY <1>1 DEF Typed, HistoryTyped
  <2> QED
    BY <2>1 DEF CallRecords, Phases
<1> HIDE DEF r
<1>6. /\ k \in ConnRecords /\ k.toServer = <<r>> /\ k.toClient = <<>> /\ k.state = conn[handle].state
      /\ k.iterators = conn[handle].iterators /\ k.busy = conn[handle].busy
  <2>1. Append(conn[handle].toServer, r) = <<r>> /\ <<r>> \in Seq(Requests)
    BY <1>3, <1>4 DEF Silent
  <2>2. k = [conn[handle] EXCEPT !.toServer = <<r>>]
    BY <2>1
  <2> HIDE DEF k
  <2> QED
    BY <1>3, <2>1, <2>2 DEF ConnRecords, Silent
<1>7. call' = [call EXCEPT ![t] = c] /\ conn' = [conn EXCEPT ![handle] = k]
  BY DEF r
<1> HIDE DEF c, k
<1>8. call' \in [Threads -> CallRecords] /\ call'[t] = c /\ \A u \in Threads \ {t} : call'[u] = call[u]
  BY <1>1, <1>5, <1>7, OneCallSet
<1>9. conn' \in [Connections -> ConnRecords] /\ conn'[handle] = k /\ \A d \in Connections \ {handle} : conn'[d] = conn[d]
  BY <1>1, <1>2, <1>6, <1>7 DEF Typed
<1>10. HistoryTyped'
  BY <1>1 DEF HistoryTyped
<1>11. Typed'
  BY <1>1, <1>8, <1>9, <1>10 DEF Typed, LocksTyped, ListsTyped
<1>12. \A u \in Threads : CallOK(u)'
  <2>1. sent' \in Nat /\ sent' >= sent /\ sent + 1 \in 1..sent'
    BY <1>1, <1>10 DEF HistoryTyped
  <2>2. CallOK(t)'
    BY <1>1, <1>5, <1>8, <2>1 DEF CallOK, InRequest
  <2>3. \A u \in Threads \ {t} : call'[u] = call[u] /\ (socketLock' = u <=> socketLock = u)
    BY <1>8, NamesAssumption
  <2> QED
    BY <2>1, <2>2, <2>3, OthersOK
<1>13. \A d \in Connections : ConnOK(d)'
  <2>1. ASSUME NEW d \in Connections, d # handle PROVE ConnOK(d)'
    BY <1>1, <1>9, <2>1 DEF ConnOK, ServerClosed
  <2>2. ConnOK(handle)'
    <3>1. ConnOK(handle) /\ <<r>> # <<>>
      BY <1>1, <1>2
    <3> QED
      BY <1>2, <1>3, <1>6, <1>9, <3>1 DEF ConnOK, ServerClosed
  <2> QED
    BY <2>1, <2>2
<1>14. Exchange'
  <2>1. InFlight(t, handle)'
    <3>1. /\ conn'[handle].toServer = <<r>> /\ conn'[handle].toClient = <<>>
          /\ r.n = call'[t].n /\ r.op = call'[t].op /\ r.id = call'[t].id
      BY <1>4, <1>5, <1>6, <1>8, <1>9
    <3> QED
      BY <3>1, OnlyRequest
  <2> QED
    BY <1>2, <1>3, <1>6, <1>9, <2>1, NamesAssumption DEF Exchange
<1>15. IteratorsTracked'
  <2>1. OnTheWay(handle)' = OnTheWay(handle)
    <3>1. conn'[handle].toClient = conn[handle].toClient
      BY <1>3, <1>6, <1>9 DEF Silent
    <3>2. \A u \in Threads : At(u, "track")' <=> At(u, "track")
      BY <1>2, <1>5, <1>8 DEF At
    <3>3. \A u \in Threads : At(u, "track") => call'[u].id = call[u].id
      BY <1>2, <1>5, <1>8 DEF At
    <3> QED
      BY <3>1, <3>2, <3>3, SameOnTheWay
  <2> QED
    BY <1>1, <1>6, <1>9, <2>1 DEF IteratorsTracked
<1>16. ThreadsBounded'
  <2>1. \A d \in Connections : conn'[d].state = conn[d].state
    BY <1>6, <1>9
  <2> QED
    BY <1>1, <2>1, SameServed DEF ThreadsBounded
<1> QED
  BY <1>11, <1>12, <1>13, <1>14, <1>15, <1>16 DEF Inv

LEMMA SendRequestInv ==
  ASSUME Inv, NEW t \in Threads, sendRequest(t)
  PROVE  Inv'
<1>1. /\ Typed /\ HistoryTyped /\ LocksTyped /\ CallOK(t) /\ (\A d \in Connections : ConnOK(d))
  BY DEF Inv, Typed
<1>2. call[t].phase = "send" /\ socketLock = NoThread /\ sent' = sent + 1
      /\ UNCHANGED <<unfounded, serverUp, modelKnown, executed>>
  BY DEF sendRequest, At
<1>3. CASE WriteError(t) /\ UNCHANGED <<socketLock, conn>>
  <2>1. HistoryTyped' /\ sent' >= sent
    BY <1>1, <1>2 DEF HistoryTyped
  <2>2. call[t].op \in Ops /\ socketError' \in SUBSET Threads
    BY <1>1, <1>2, <1>3 DEF CallOK, LocksTyped, WriteError, InRequest
  <2>3. conn' \in [Connections -> ConnRecords] /\ \A c \in Connections : conn'[c].state = conn[c].state
    BY <1>1, <1>3 DEF Typed
  <2>4. \A c \in Connections : ConnOK(c)'
    BY <1>1, <1>3 DEF ConnOK, ServerClosed
  <2>5. handle' = 0 /\ AfterRequest(t, 0, FALSE, TRUE)
    BY <1>3 DEF WriteError
  <2>6. IteratorsTracked'
    BY <2>5 DEF IteratorsTracked
  <2> QED
    BY <1>2, <1>3, <2>1, <2>2, <2>3, <2>4, <2>5, <2>6, CallEnds
<1>4. CASE ~(WriteError(t) /\ UNCHANGED <<socketLock, conn>>)
  <2>1. PICK p \in {"write", "wait"} : call' = [call EXCEPT ![t].phase = p, ![t].n = sent + 1]
    BY <1>4 DEF sendRequest
  <2>2. /\ socketLock' = t
        /\ conn' = [conn EXCEPT ![handle].toServer =
                      Append(@, [n |-> sent + 1, op |-> call[t].op, id |-> call[t].id])]
        /\ UNCHANGED <<handle, socketError, m_openIterators, listLock, iterators>>
        /\ ~WriteFails(t)
    BY <1>4 DEF sendRequest
  <2> QED
    BY <1>2, <2>1, <2>2, RequestSent
<1> QED
  BY <1>3, <1>4

(***************************************************************************)
(* The answer, the timeout and the end of file.                            *)
(***************************************************************************)
LEMMA OnlyMessage ==
  ASSUME NEW S, NEW s \in Seq(S), s # <<>>, Len(s) <= 1
  PROVE  Tail(s) = <<>> /\ Len(s) = 1 /\ Head(s) = s[1] /\ Head(s) \in S /\ DOMAIN s = {1}
<1>1. Len(s) \in Nat /\ Len(s) # 0 /\ DOMAIN s = 1..Len(s)
  BY EmptySeq, LenProperties
<1>2. Len(s) = 1
  BY <1>1
<1>3. Head(s) \in S /\ Head(s) = s[1] /\ Tail(s) \in Seq(S) /\ Len(Tail(s)) = 0
  BY <1>2, HeadTailProperties, ElementOfSeq
<1>4. Tail(s) = <<>>
  BY <1>3, EmptySeq
<1> QED
  BY <1>1, <1>2, <1>3, <1>4

LEMMA OneWay ==
  ASSUME NEW S, NEW T, NEW s \in Seq(S), NEW a \in Seq(T), Len(s) + Len(a) <= 1
  PROVE  (s # <<>> => a = <<>> /\ Len(s) <= 1) /\ (a # <<>> => s = <<>> /\ Len(a) <= 1)
<1>1. Len(s) \in Nat /\ Len(a) \in Nat /\ (Len(s) = 0 <=> s = <<>>) /\ (Len(a) = 0 <=> a = <<>>)
  BY EmptySeq, LenProperties
<1> QED
  BY <1>1

LEMMA AnswerRead ==
  ASSUME Inv, NEW t \in Threads, InRequest(t), Answers # <<>>
  PROVE  /\ conn[handle].toServer = <<>> /\ Tail(Answers) = <<>>
         /\ Answers \in Seq(GivenAnswers) /\ Head(Answers) \in GivenAnswers
         /\ DOMAIN Answers = {1} /\ Answers[1] = Head(Answers)
         /\ AnswerTo(t, handle, Head(Answers))
<1>1. handle \in Connections /\ InFlight(t, handle) /\ conn[handle] \in ConnRecords
  BY HolderWaits
<1>2. conn[handle].toServer \in Seq(Requests) /\ Answers \in Seq(GivenAnswers)
  BY <1>1 DEF ConnRecords, Answers
<1>3. conn[handle].toServer = <<>> /\ Len(Answers) <= 1
  BY <1>1, <1>2, OneWay DEF InFlight, Answers
<1> QED
  BY <1>1, <1>2, <1>3, OnlyMessage DEF InFlight, Answers

LEMMA ReturnedTyped ==
  ASSUME HistoryTyped, NEW t \in Threads, call[t].n \in 1..sent, NEW success \in BOOLEAN,
         Returned(t, success), sent' = sent
  PROVE  HistoryTyped' /\ sent' >= sent
<1>1. executed' \subseteq executed /\ unfounded' \subseteq unfounded \cup {call[t].n}
  BY DEF Returned
<1> QED
  BY <1>1 DEF HistoryTyped

LEMMA ReadAnswerInv ==
  ASSUME Inv, NEW t \in Threads, readAnswer(t)
  PROVE  Inv'
<1> DEFINE a == Head(Answers)
           k == [conn[handle] EXCEPT !.toClient = <<>>]
<1>1. /\ call[t].phase = "read" /\ InRequest(t) /\ Answers # <<>>
      /\ AfterRequest(t, a.id, a.more, a.error) /\ Returned(t, ~a.error)
      /\ conn' = [conn EXCEPT ![handle].toClient = Tail(Answers)]
      /\ socketLock' = NoThread
      /\ UNCHANGED <<handle, socketError, sent, serverUp, modelKnown>>
  BY DEF readAnswer, At, Answers, InRequest
<1>2. /\ Typed /\ LocksTyped /\ HistoryTyped /\ (\A d \in Connections : ConnOK(d)) /\ IteratorsTracked
  BY DEF Inv, Typed
<1>3. /\ socketLock = t /\ handle \in Connections /\ conn[handle] \in ConnRecords
      /\ call[t].op \in Ops /\ call[t].n \in 1..sent
  BY <1>1, HolderWaits
<1>4. /\ conn[handle].toServer = <<>> /\ Tail(Answers) = <<>> /\ a \in GivenAnswers
      /\ DOMAIN Answers = {1} /\ Answers[1] = a /\ AnswerTo(t, handle, a)
  BY <1>1, AnswerRead
<1> HIDE DEF a
<1>5. a.id \in IteratorIds \cup {0} /\ a.more \in BOOLEAN /\ a.error \in BOOLEAN /\ (~a.error) \in BOOLEAN
  BY <1>4 DEF GivenAnswers
<1>6. /\ k \in ConnRecords /\ k.toServer = <<>> /\ k.toClient = <<>> /\ k.state = conn[handle].state
      /\ k.iterators = conn[handle].iterators /\ k.busy = conn[handle].busy
  BY <1>3, <1>4 DEF ConnRecords
<1>7. conn' = [conn EXCEPT ![handle] = k]
  BY <1>1, <1>4
<1> HIDE DEF k
<1>8. conn' \in [Connections -> ConnRecords] /\ conn'[handle] = k /\ \A d \in Connections \ {handle} : conn'[d] = conn[d]
  BY <1>2, <1>3, <1>6, <1>7 DEF Typed
<1>9. \A c \in Connections : conn'[c].state = conn[c].state
  BY <1>6, <1>8
<1>10. \A c \in Connections : ConnOK(c)'
  <2>1. ASSUME NEW d \in Connections, d # handle PROVE ConnOK(d)'
    BY <1>2, <1>8, <2>1 DEF ConnOK, ServerClosed
  <2>2. ConnOK(handle)'
    <3>1. ConnOK(handle)
      BY <1>2, <1>3
    <3> QED
      BY <1>1, <1>4, <1>6, <1>8, <3>1 DEF ConnOK, ServerClosed
  <2> QED
    BY <1>1, <2>1, <2>2
<1>11. Silent(handle)'
  BY <1>1, <1>6, <1>8 DEF Silent
<1>12. HistoryTyped' /\ sent' >= sent
  BY <1>1, <1>2, <1>3, <1>5, ReturnedTyped
<1>13. IteratorsTracked'
  <2> SUFFICES ASSUME handle # 0, conn[handle].state = "open", NEW id \in conn[handle].iterators, id # 0
               PROVE  id \in m_openIterators' \/ \E u \in Threads : At(u, "track")' /\ id = call'[u].id
    BY <1>1, <1>6, <1>8 DEF IteratorsTracked, OnTheWay
  <2>1. \/ id \in m_openIterators \/ id = a.id
        \/ \E u \in Threads : At(u, "track") /\ id = call[u].id
    BY <1>2, <1>4 DEF IteratorsTracked, OnTheWay, Answers
  <2>2. /\ \A u \in Threads \ {t} : call'[u] = call[u]
        /\ a.id # 0 /\ call[t].op = "listStatements" => call'[t].phase = "track" /\ call'[t].id = a.id
        /\ \A i \in m_openIterators :
             i \in m_openIterators' \/ (call[t].op = "iteratorClose" /\ i = call[t].id)
    BY <1>1, <1>2, <1>3, <1>5, AfterRequestEffect
  <2>3. CASE id \in m_openIterators
    BY <1>4, <2>2, <2>3 DEF AnswerTo
  <2>4. CASE id = a.id
    BY <1>4, <2>2, <2>4 DEF AnswerTo, At
  <2>5. CASE \E u \in Threads : At(u, "track") /\ id = call[u].id
    <3>1. PICK u \in Threads : At(u, "track") /\ id = call[u].id
      BY <2>5
    <3>2. u # t
      BY <1>1, <3>1 DEF At
    <3> QED
      BY <2>2, <3>1, <3>2 DEF At
  <2> QED
    BY <2>1, <2>3, <2>4, <2>5
<1>14. socketError' \in SUBSET Threads
  BY <1>1, <1>2 DEF LocksTyped
<1> QED
  BY <1>1, <1>3, <1>5, <1>8, <1>9, <1>10, <1>11, <1>12, <1>13, <1>14, CallEnds

LEMMA NoAnswerInv ==
  ASSUME Inv, NEW t \in Threads, timeout(t) \/ writeBroken(t) \/ readEof(t)
  PROVE  Inv'
<1>1. /\ InRequest(t) /\ socketLock' = NoThread /\ UNCHANGED <<sent, serverUp, modelKnown>>
      /\ UNCHANGED conn \/ conn' = [conn EXCEPT ![handle].toClient = <<>>]
  BY DEF timeout, writeBroken, readEof, At, InRequest
<1>3. /\ Typed /\ LocksTyped /\ HistoryTyped /\ (\A d \in Connections : ConnOK(d))
  BY DEF Inv, Typed
<1>4. /\ socketLock = t /\ handle \in Connections /\ ConnOK(handle) /\ conn[handle] \in ConnRecords
      /\ call[t].op \in Ops /\ call[t].n \in 1..sent
  BY <1>1, HolderWaits
<1>2. PICK id \in IteratorIds \cup {0}, more \in BOOLEAN, failed \in BOOLEAN, success \in BOOLEAN :
        AfterRequest(t, id, more, failed) /\ Returned(t, success)
  <2>1. CASE readEof(t)
    <3>1. PICK id \in {0} \cup {Answers[i].id : i \in DOMAIN Answers}, more \in BOOLEAN, success \in BOOLEAN :
            AfterRequest(t, id, more, FALSE) /\ Returned(t, success)
      BY <2>1 DEF readEof
    <3>2. id \in IteratorIds \cup {0}
      <4>1. ASSUME NEW i \in DOMAIN Answers PROVE Answers[i].id \in IteratorIds \cup {0}
        <5>1. Answers # <<>>
          BY <4>1
        <5>2. Answers[i] \in GivenAnswers
          BY <1>1, <4>1, <5>1, AnswerRead
        <5> QED
          BY <5>2 DEF GivenAnswers
      <4> QED
        BY <4>1
    <3> QED
      BY <3>1, <3>2
  <2>2. CASE timeout(t) \/ writeBroken(t)
    BY <2>2 DEF timeout, writeBroken, WriteError
  <2> QED
    BY <2>1, <2>2
<1>5. HistoryTyped' /\ sent' >= sent
  BY <1>1, <1>2, <1>3, <1>4, ReturnedTyped
<1>6. \/ handle' = 0
      \/ handle' = handle /\ ServerClosed(handle) /\ conn' = [conn EXCEPT ![handle].toClient = <<>>]
  BY DEF timeout, writeBroken, WriteError, readEof
<1> DEFINE k == [conn[handle] EXCEPT !.toClient = <<>>]
<1>7. /\ k \in ConnRecords /\ k.toClient = <<>> /\ k.state = conn[handle].state
      /\ k.toServer = conn[handle].toServer /\ k.iterators = conn[handle].iterators
      /\ k.busy = conn[handle].busy
  BY <1>4, EmptySeq DEF ConnRecords
<1>8. UNCHANGED conn \/ conn' = [conn EXCEPT ![handle] = k]
  BY <1>1
<1> HIDE DEF k
<1>9. /\ conn' \in [Connections -> ConnRecords] /\ \A d \in Connections \ {handle} : conn'[d] = conn[d]
      /\ conn'[handle] = conn[handle] \/ conn'[handle] = k
  BY <1>3, <1>4, <1>7, <1>8 DEF Typed
<1>10. \A c \in Connections : conn'[c].state = conn[c].state /\ ConnOK(c)'
  <2>1. ASSUME NEW c \in Connections, c # handle PROVE conn'[c].state = conn[c].state /\ ConnOK(c)'
    BY <1>3, <1>9, <2>1 DEF ConnOK, ServerClosed
  <2>2. conn'[handle].state = conn[handle].state
    BY <1>7, <1>9
  <2>3. ASSUME NEW c \in Connections, c = handle PROVE ConnOK(c)'
    <3>1. ConnOK(c) /\ (conn'[c] = conn[c] \/ conn'[c] = k)
      BY <1>4, <1>9, <2>3
    <3>2. k.toClient = <<>> /\ k.state = conn[c].state /\ k.toServer = conn[c].toServer
          /\ k.iterators = conn[c].iterators /\ k.busy = conn[c].busy
      BY <1>7, <2>3
    <3> QED
      BY <3>1, <3>2 DEF ConnOK, ServerClosed
  <2> QED
    BY <2>1, <2>2, <2>3
<1>11. (handle' # 0 => Silent(handle)') /\ IteratorsTracked'
  <2>1. CASE handle' = 0
    BY <2>1 DEF IteratorsTracked
  <2>2. CASE handle' = handle /\ ServerClosed(handle) /\ conn' = [conn EXCEPT ![handle].toClient = <<>>]
    <3>1. conn'[handle] = k
      BY <1>3, <1>4, <2>2 DEF Typed, k
    <3>2. Silent(handle)'
      BY <1>4, <1>7, <2>2, <3>1 DEF Silent, ConnOK
    <3>3. conn'[handle'].state # "open"
      BY <1>7, <2>2, <3>1 DEF ServerClosed
    <3> QED
      BY <3>2, <3>3 DEF IteratorsTracked
  <2> QED
    BY <1>6, <2>1, <2>2
<1>12. socketError' \in SUBSET Threads
  BY <1>3 DEF LocksTyped, timeout, writeBroken, WriteError, readEof
<1> QED
  BY <1>1, <1>2, <1>4, <1>5, <1>6, <1>9, <1>10, <1>11, <1>12, CallEnds

\* The rest of a request is written, or an answer has begun: the call stays in its request.
LEMMA RequestGoesOnInv ==
  ASSUME Inv, NEW t \in Threads, writeRest(t) \/ waitForReadyRead(t)
  PROVE  Inv'
<1>1. PICK p \in {"wait", "read"} :
        /\ InRequest(t) /\ call' = [call EXCEPT ![t].phase = p]
        /\ UNCHANGED <<handle, socketLock, socketError, m_openIterators, listLock, iterators, sent,
                       unfounded, serverVars>>
  BY DEF writeRest, waitForReadyRead, At, InRequest
<1>2. /\ Typed /\ CallOK(t) /\ (\A d \in Connections : ConnOK(d))
      /\ Exchange /\ IteratorsTracked /\ ThreadsBounded /\ call[t] \in CallRecords
  BY DEF Inv, Typed
<1>3. UNCHANGED <<conn, serverUp, modelKnown, executed>>
  BY <1>1 DEF serverVars
<1> DEFINE c == [call[t] EXCEPT !.phase = p]
<1>4. c \in CallRecords /\ c.phase = p /\ c.op = call[t].op /\ c.id = call[t].id /\ c.n = call[t].n
  BY <1>2 DEF CallRecords, Phases
<1>5. call' = [call EXCEPT ![t] = c]
  BY <1>1
<1> HIDE DEF c
<1>6. call' \in [Threads -> CallRecords] /\ call'[t] = c /\ \A u \in Threads \ {t} : call'[u] = call[u]
  BY <1>2, <1>4, <1>5, OneCallSet
<1>7. Typed'
  BY <1>1, <1>2, <1>3, <1>6 DEF Typed, LocksTyped, ListsTyped, HistoryTyped
<1>8. \A u \in Threads : CallOK(u)'
  <2>1. CallOK(t)'
    BY <1>1, <1>2, <1>4, <1>6 DEF CallOK, InRequest
  <2>2. sent' \in Nat /\ sent' >= sent
    BY <1>1, <1>2 DEF Typed, HistoryTyped
  <2> QED
    BY <1>1, <1>6, <2>1, <2>2, OthersOK
<1>9. (\A d \in Connections : ConnOK(d)') /\ ThreadsBounded'
  BY <1>1, <1>2, <1>3, ConnFrame
<1>10. Exchange'
  <2>1. socketLock = t /\ handle # 0 /\ InFlight(t, handle)
    BY <1>1, <1>2, NamesAssumption DEF CallOK, Exchange, InRequest
  <2>2. InFlight(t, handle)'
    BY <1>1, <1>3, <1>4, <1>6, <2>1 DEF InFlight, AnswerTo
  <2> QED
    BY <1>1, <1>2, <1>3, <2>1, <2>2, NamesAssumption DEF Exchange
<1>11. IteratorsTracked'
  <2>1. \A u \in Threads : At(u, "track")' <=> At(u, "track")
    BY <1>1, <1>4, <1>6 DEF At, InRequest
  <2>2. \A u \in Threads : At(u, "track") => call'[u].id = call[u].id
    BY <1>4, <1>6
  <2>3. OnTheWay(handle)' = OnTheWay(handle)
    BY <1>1, <1>3, <2>1, <2>2, SameOnTheWay
  <2> QED
    BY <1>1, <1>2, <1>3, <2>3 DEF IteratorsTracked
<1> QED
  BY <1>7, <1>8, <1>9, <1>10, <1>11 DEF Inv

(***************************************************************************)
(* LocalSocketClient::connect and disconnect.                              *)
(***************************************************************************)
LEMMA DisconnectInv ==
  ASSUME Inv, disconnect
  PROVE  Inv'
<1>1. /\ Typed /\ (\A t \in Threads : CallOK(t)) /\ (\A d \in Connections : ConnOK(d)) /\ ThreadsBounded
  BY DEF Inv
<1>2. /\ \A t \in Threads : call[t].phase = "idle"
      /\ handle' = 0
      /\ UNCHANGED <<socketLock, socketError, m_openIterators, listLock, iterators, call, sent, unfounded>>
      /\ UNCHANGED <<conn, serverUp, modelKnown, executed>>
  BY DEF disconnect, AllIdle, At, serverVars
<1>3. socketLock = NoThread
  BY <1>2, LockIsFree DEF InRequest
<1>4. Typed'
  BY <1>1, <1>2 DEF Typed, LocksTyped, ListsTyped, HistoryTyped
<1>5. (\A t \in Threads : CallOK(t)') /\ \A d \in Connections : ConnOK(d)'
  BY <1>1, <1>2 DEF CallOK, ConnOK, ServerClosed, InRequest
<1>6. Exchange' /\ IteratorsTracked'
  BY <1>2, <1>3 DEF Exchange, IteratorsTracked
<1>7. ThreadsBounded'
  BY <1>1, <1>2 DEF ThreadsBounded, Served
<1> QED
  BY <1>4, <1>5, <1>6, <1>7 DEF Inv

LEMMA ConnectInv ==
  ASSUME Inv, NEW t \in Threads, connect(t)
  PROVE  Inv'
<1>1. /\ Typed /\ (\A u \in Threads : CallOK(u)) /\ (\A d \in Connections : ConnOK(d)) /\ ThreadsBounded
  BY DEF Inv
<1>2. /\ \A u \in Threads : call[u].phase = "idle"
      /\ handle = 0
      /\ UNCHANGED <<socketLock, m_openIterators, listLock, iterators, sent, unfounded, serverUp,
                     modelKnown, executed>>
  BY DEF connect, AllIdle, At
<1>3. socketLock = NoThread
  BY <1>2, LockIsFree DEF InRequest
<1>4. socketError' \in SUBSET Threads
  BY <1>1 DEF connect, Typed, LocksTyped
<1>5. CASE UNCHANGED <<handle, call, conn>>
  <2>1. Typed'
    BY <1>1, <1>2, <1>4, <1>5 DEF Typed, LocksTyped, ListsTyped, HistoryTyped
  <2>2. (\A u \in Threads : CallOK(u)') /\ \A d \in Connections : ConnOK(d)'
    BY <1>1, <1>2, <1>5 DEF CallOK, ConnOK, ServerClosed, InRequest
  <2>3. Exchange' /\ IteratorsTracked'
    BY <1>2, <1>3, <1>5 DEF Exchange, IteratorsTracked
  <2>4. ThreadsBounded'
    BY <1>1, <1>5 DEF ThreadsBounded, Served
  <2> QED
    BY <2>1, <2>2, <2>3, <2>4 DEF Inv
<1>6. CASE \E c \in Unused :
             /\ handle' = c /\ conn' = [conn EXCEPT ![c].state = "pending"]
             /\ call' = [call EXCEPT ![t].phase = "send", ![t].op = "checkProtocolVersion"]
  <2>1. PICK c \in Unused :
             /\ handle' = c /\ conn' = [conn EXCEPT ![c].state = "pending"]
             /\ call' = [call EXCEPT ![t].phase = "send", ![t].op = "checkProtocolVersion"]
    BY <1>6
  <2> DEFINE r == [call[t] EXCEPT !.phase = "send", !.op = "checkProtocolVersion"]
             k == [conn[c] EXCEPT !.state = "pending"]
  <2>2. c \in Connections /\ conn[c] \in ConnRecords /\ ConnOK(c) /\ conn[c].state = "none" /\ call[t] \in CallRecords
    BY <1>1 DEF Unused, Typed
  <2>3. r \in CallRecords /\ r.phase = "send" /\ r.op \in Ops
    BY <2>2 DEF CallRecords, Phases, Ops
  <2>4. k \in ConnRecords /\ k.state = "pending" /\ k.toServer = <<>> /\ k.toClient = <<>> /\ k.iterators = {} /\ ~k.busy
    BY <2>2 DEF ConnRecords, States, ConnOK
  <2>5. call' = [call EXCEPT ![t] = r] /\ conn' = [conn EXCEPT ![c] = k]
    BY <2>1
  <2> HIDE DEF r, k
  <2>6. call' \in [Threads -> CallRecords] /\ call'[t] = r /\ \A u \in Threads \ {t} : call'[u] = call[u]
    BY <1>1, <2>3, <2>5, OneCallSet
  <2>7. conn' \in [Connections -> ConnRecords] /\ conn'[c] = k /\ \A d \in Connections \ {c} : conn'[d] = conn[d]
    BY <1>1, <2>2, <2>4, <2>5 DEF Typed
  <2>8. Typed'
    BY <1>1, <1>2, <1>4, <2>1, <2>2, <2>6, <2>7 DEF Typed, LocksTyped, ListsTyped, HistoryTyped
  <2>9. \A u \in Threads : CallOK(u)'
    <3>1. sent' \in Nat /\ sent' >= sent
      BY <1>1, <1>2 DEF Typed, HistoryTyped
    <3>2. CallOK(t)'
      BY <1>2, <1>3, <2>3, <2>6, NamesAssumption DEF CallOK, InRequest
    <3> QED
      BY <1>2, <2>6, <3>1, <3>2, OthersOK
  <2>10. \A d \in Connections : ConnOK(d)'
    <3>1. ASSUME NEW d \in Connections, d # c PROVE ConnOK(d)'
      BY <1>1, <2>7, <3>1 DEF ConnOK, ServerClosed
    <3>2. ConnOK(c)'
      BY <2>4, <2>7 DEF ConnOK, ServerClosed
    <3> QED
      BY <3>1, <3>2
  <2>11. Exchange' /\ IteratorsTracked'
    BY <1>2, <1>3, <2>1, <2>4, <2>7 DEF Exchange, Silent, IteratorsTracked
  <2>12. ThreadsBounded'
    <3>1. Served' = Served
      BY <2>2, <2>4, <2>7 DEF Served
    <3> QED
      BY <1>1, <3>1 DEF ThreadsBounded
  <2> QED
    BY <2>8, <2>9, <2>10, <2>11, <2>12 DEF Inv
<1> QED
  BY <1>5, <1>6 DEF connect
-----------------------------------------------------------------------------
(***************************************************************************)
(* The server: a step on one connection, seen by the client's thread that  *)
(* holds the socket.                                                       *)
(***************************************************************************)
LEMMA ServerOnly ==
  ASSUME Inv, NEW c \in Connections, NEW k \in ConnRecords, conn' = [conn EXCEPT ![c] = k],
         UNCHANGED <<clientVars, serverUp, modelKnown>>, executed' \in SUBSET (1..sent),
         k.state # "none", k.state \in {"pending", "dropped"} => k.iterators = {} /\ k.toClient = <<>>,
         k.state \in {"closed", "finished", "gone"} => k.toServer = <<>>,
         k.busy => k.state = "open" /\ k.toServer # <<>>,
         handle = c /\ socketLock = NoThread => k.toServer = <<>> /\ k.toClient = <<>>,
         handle = c /\ socketLock # NoThread => InFlight(socketLock, handle)',
         handle = c => IteratorsTracked', ThreadsBounded'
  PROVE  Inv'
<1>1. /\ Typed /\ (\A t \in Threads : CallOK(t)) /\ (\A d \in Connections : ConnOK(d))
      /\ Exchange /\ IteratorsTracked
  BY DEF Inv
<1>2. UNCHANGED <<handle, socketLock, socketError, m_openIterators, listLock, iterators, call, sent, unfounded>>
  BY DEF clientVars
<1>3. conn' \in [Connections -> ConnRecords] /\ conn'[c] = k /\ \A d \in Connections \ {c} : conn'[d] = conn[d]
  BY <1>1 DEF Typed
<1>4. Typed'
  BY <1>1, <1>2, <1>3 DEF Typed, LocksTyped, ListsTyped, HistoryTyped
<1>5. \A t \in Threads : CallOK(t)'
  BY <1>1, <1>2 DEF CallOK, InRequest
<1>6. ASSUME NEW d \in Connections PROVE ConnOK(d)'
  <2>1. CASE d = c
    BY <1>3, <2>1 DEF ConnOK, ServerClosed
  <2>2. CASE d # c
    BY <1>1, <1>3, <2>2 DEF ConnOK, ServerClosed
  <2> QED
    BY <2>1, <2>2
<1>7. CASE handle = c
  <2>1. Exchange'
    BY <1>1, <1>2, <1>3, <1>7 DEF Exchange, Silent
  <2> QED
    BY <1>4, <1>5, <1>6, <1>7, <2>1 DEF Inv
<1>8. CASE handle # c
  <2>1. handle # 0 => handle \in Connections /\ conn'[handle] = conn[handle]
    BY <1>1, <1>3, <1>8 DEF Typed
  <2>2. handle # 0 /\ socketLock # NoThread => (InFlight(socketLock, handle)' <=> InFlight(socketLock, handle))
    BY <1>2, <2>1 DEF InFlight, AnswerTo
  <2>3. Exchange'
    BY <1>1, <1>2, <2>1, <2>2 DEF Exchange, Silent
  <2>4. handle # 0 => OnTheWay(handle)' = OnTheWay(handle)
    BY <1>2, <2>1 DEF OnTheWay, At
  <2>5. IteratorsTracked'
    BY <1>1, <1>2, <2>1, <2>4 DEF IteratorsTracked
  <2> QED
    BY <1>4, <1>5, <1>6, <2>3, <2>5 DEF Inv
<1> QED
  BY <1>7, <1>8

LEMMA LessInFlight ==
  ASSUME NEW t, InFlight(t, handle), UNCHANGED <<handle, call>>,
         conn[handle] \in ConnRecords, conn'[handle].toClient = conn[handle].toClient,
         conn'[handle].toServer \in {<<>>, conn[handle].toServer},
         conn'[handle].iterators \subseteq conn[handle].iterators
  PROVE  InFlight(t, handle)'
<1>1. /\ conn[handle].toServer \in Seq(Requests) /\ conn[handle].toClient \in Seq(GivenAnswers)
  BY DEF ConnRecords
<1>2. Len(conn[handle].toServer) \in Nat /\ Len(conn[handle].toClient) \in Nat /\ Len(<<>>) = 0
  BY <1>1, LenProperties
<1>3. (Len(conn[handle].toServer) + Len(conn[handle].toClient) <= 1)'
  <2>1. Len(conn[handle].toServer) + Len(conn[handle].toClient) <= 1
    BY DEF InFlight
  <2>2. CASE conn'[handle].toServer = <<>>
    <3>1. \A m, n \in Nat : m + n <= 1 => 0 + n <= 1
      OBVIOUS
    <3>2. Len(conn'[handle].toServer) = 0 /\ Len(conn'[handle].toClient) = Len(conn[handle].toClient)
      BY <1>2, <2>2
    <3>3. Len(conn'[handle].toServer) + Len(conn'[handle].toClient) <= 1
      BY <1>2, <2>1, <3>1, <3>2
    <3> QED
      BY <3>3
  <2>3. CASE conn'[handle].toServer = conn[handle].toServer
    BY <2>1, <2>3
  <2> QED
    BY <2>2, <2>3
<1>4. (conn[handle].toClient # <<>> => AnswerTo(t, handle, Head(conn[handle].toClient)))'
  BY DEF InFlight, AnswerTo
<1>5. (conn[handle].toServer # <<>> =>
         LET r == Head(conn[handle].toServer) IN r.n = call[t].n /\ r.op = call[t].op /\ r.id = call[t].id)'
  BY DEF InFlight
<1> QED
  BY <1>3, <1>4, <1>5 DEF InFlight

\* A connection that was not open opens or is left out, or an open one ends.
LEMMA ConnectionMoves ==
  ASSUME Inv, NEW c \in Connections, NEW k \in ConnRecords, conn' = [conn EXCEPT ![c] = k],
         UNCHANGED <<clientVars, serverUp, modelKnown, executed>>,
         k.state \notin {"none", "pending"}, ~k.busy, k.state = "dropped" => k.iterators = {} /\ k.toClient = <<>>,
         k.state \in {"closed", "finished", "gone"} => k.toServer = <<>>,
         k.toClient = conn[c].toClient, k.toServer \in {<<>>, conn[c].toServer},
         k.iterators \subseteq conn[c].iterators, k.state = "open" => k.iterators = {},
         ThreadsBounded'
  PROVE  Inv'
<1>1. Typed /\ HistoryTyped /\ Exchange
  BY DEF Inv, Typed
<1>2. UNCHANGED <<handle, socketLock, call, sent, executed>>
  BY DEF clientVars
<1>3. conn'[c] = k /\ conn[c] \in ConnRecords
  BY <1>1 DEF Typed
<1>4. handle = c => handle # 0
  BY DEF Connections
<1>5. handle = c /\ socketLock = NoThread => k.toServer = <<>> /\ k.toClient = <<>>
  BY <1>1, <1>4 DEF Exchange, Silent
<1>6. handle = c /\ socketLock # NoThread => InFlight(socketLock, handle)'
  <2> SUFFICES ASSUME handle = c, socketLock # NoThread PROVE InFlight(socketLock, handle)'
    OBVIOUS
  <2>1. InFlight(socketLock, handle)
    BY <1>1 DEF Exchange
  <2> QED
    BY <1>2, <1>3, <2>1, LessInFlight DEF InFlight, AnswerTo
<1>7. handle = c => IteratorsTracked'
  BY <1>2, <1>3 DEF IteratorsTracked
<1>8. executed' \in SUBSET (1..sent)
  BY <1>1, <1>2 DEF HistoryTyped
<1> QED
  BY <1>5, <1>6, <1>7, <1>8, ServerOnly

LEMMA ServedFinite == IsFiniteSet(Connections) /\ IsFiniteSet(Served) /\ Cardinality(Served) \in Nat
<1>1. IsFiniteSet(Connections)
  BY FS_Interval, BoundsAssumption DEF Connections
<1>2. Served \subseteq Connections
  BY DEF Served
<1> QED
  BY <1>1, <1>2, FS_Subset, FS_CardinalityType

LEMMA FewerServed ==
  ASSUME ThreadsBounded, Served' \subseteq Served
  PROVE  ThreadsBounded'
<1>1. Cardinality(Served') <= Cardinality(Served) /\ Cardinality(Served') \in Nat
  BY ServedFinite, FS_Subset, FS_CardinalityType
<1> QED
  BY <1>1, ServedFinite, BoundsAssumption DEF ThreadsBounded

LEMMA IncomingInv ==
  ASSUME Inv, NEW c \in Connections, incomingConnection(c)
  PROVE  Inv'
<1> DEFINE s == IF TooMany THEN "dropped" ELSE "open"
           k == [conn[c] EXCEPT !.state = s]
<1>1. /\ conn[c].state = "pending" /\ conn' = [conn EXCEPT ![c] = k]
      /\ UNCHANGED <<clientVars, serverUp, modelKnown, executed>>
  BY DEF incomingConnection
<1>2. Typed /\ ConnOK(c) /\ conn[c] \in ConnRecords /\ ThreadsBounded
  BY DEF Inv, Typed
<1>3. s \in {"dropped", "open"}
  OBVIOUS
<1>4. /\ k \in ConnRecords /\ k.state = s /\ k.toServer = conn[c].toServer
      /\ k.toClient = conn[c].toClient /\ k.iterators = conn[c].iterators /\ k.busy = conn[c].busy
  <2> HIDE DEF s
  <2> QED
    BY <1>2, <1>3 DEF ConnRecords, States
<1>5. conn[c].iterators = {} /\ conn[c].toClient = <<>> /\ ~conn[c].busy
  BY <1>1, <1>2 DEF ConnOK
<1> HIDE DEF k
<1>6. conn'[c] = k /\ \A d \in Connections \ {c} : conn'[d] = conn[d]
  BY <1>1, <1>2 DEF Typed
<1>7. ThreadsBounded'
  <2>1. CASE TooMany
    <3>1. Served' \subseteq Served
      BY <1>4, <1>6, <2>1 DEF Served
    <3> QED
      BY <1>2, <3>1, FewerServed
  <2>2. CASE ~TooMany /\ MaxConnectionCount > 0
    <3>1. Served' = Served \cup {c} /\ c \notin Served
      BY <1>1, <1>4, <1>6, <2>2 DEF Served
    <3>2. Cardinality(Served') = Cardinality(Served) + 1
      BY <3>1, ServedFinite, FS_AddElement
    <3>3. Cardinality(Served) < MaxConnectionCount
      BY <2>2, ServedFinite, BoundsAssumption DEF TooMany
    <3> QED
      BY <3>2, <3>3, ServedFinite, BoundsAssumption DEF ThreadsBounded
  <2>3. CASE ~(MaxConnectionCount > 0)
    BY <2>3 DEF ThreadsBounded
  <2> QED
    BY <2>1, <2>2, <2>3
<1> QED
  BY <1>1, <1>3, <1>4, <1>5, <1>7, ConnectionMoves

LEMMA ConnectionEndsInv ==
  ASSUME Inv, NEW c \in Connections,
         serverConnectionFinished(c) \/ unknownCommand(c) \/ runEnd(c)
  PROVE  Inv'
<1>1. Typed /\ ConnOK(c) /\ conn[c] \in ConnRecords /\ ThreadsBounded
  BY DEF Inv, Typed
<1>2. /\ conn[c].state \in {"open", "closed", "finished"} /\ ~conn[c].busy
      /\ UNCHANGED <<clientVars, serverUp, modelKnown, executed>>
  BY <1>1 DEF serverConnectionFinished, unknownCommand, runEnd, Disconnected, ConnOK
<1>3. PICK k \in ConnRecords :
        /\ conn' = [conn EXCEPT ![c] = k] /\ k.toServer = <<>> /\ k.toClient = conn[c].toClient
        /\ k.iterators \subseteq conn[c].iterators /\ k.state \in {"closed", "finished", "gone"}
        /\ k.busy = conn[c].busy
  <2>1. CASE serverConnectionFinished(c)
    <3> DEFINE k == [conn[c] EXCEPT !.state = "gone"]
    <3>1. conn[c].toServer = <<>> /\ conn' = [conn EXCEPT ![c] = k]
      BY <1>1, <2>1 DEF serverConnectionFinished, ConnOK, ServerClosed
    <3>2. k \in ConnRecords /\ k.state = "gone" /\ k.toServer = conn[c].toServer
          /\ k.toClient = conn[c].toClient /\ k.iterators = conn[c].iterators /\ k.busy = conn[c].busy
      BY <1>1 DEF ConnRecords, States
    <3> HIDE DEF k
    <3> QED
      BY <3>1, <3>2
  <2>2. CASE unknownCommand(c)
    <3> DEFINE k == [conn[c] EXCEPT !.state = "closed", !.toServer = <<>>, !.leftover = FALSE]
    <3>1. conn' = [conn EXCEPT ![c] = k]
      BY <2>2 DEF unknownCommand
    <3>2. k \in ConnRecords /\ k.state = "closed" /\ k.toServer = <<>>
          /\ k.toClient = conn[c].toClient /\ k.iterators = conn[c].iterators /\ k.busy = conn[c].busy
      BY <1>1, EmptySeq DEF ConnRecords, States
    <3> HIDE DEF k
    <3> QED
      BY <3>1, <3>2
  <2>3. CASE runEnd(c)
    <3> DEFINE k == [conn[c] EXCEPT !.state = "finished", !.toServer = <<>>, !.iterators = {}, !.leftover = FALSE]
    <3>1. conn' = [conn EXCEPT ![c] = k]
      BY <2>3 DEF runEnd
    <3>2. k \in ConnRecords /\ k.state = "finished" /\ k.toServer = <<>>
          /\ k.toClient = conn[c].toClient /\ k.iterators = {} /\ k.busy = conn[c].busy
      BY <1>1, EmptySeq DEF ConnRecords, States
    <3> HIDE DEF k
    <3> QED
      BY <3>1, <3>2
  <2> QED
    BY <2>1, <2>2, <2>3
<1>4. ThreadsBounded'
  <2>1. conn'[c] = k /\ \A d \in Connections \ {c} : conn'[d] = conn[d]
    BY <1>1, <1>3 DEF Typed
  <2>2. Served' \subseteq Served
    BY <1>2, <2>1 DEF Served
  <2> QED
    BY <1>1, <2>2, FewerServed
<1> QED
  BY <1>2, <1>3, <1>4, ConnectionMoves

(***************************************************************************)
(* A command is answered with its own number; an id above 0 is given to a  *)
(* listStatements only, and a closed iterator is gone when its answer is.  *)
(***************************************************************************)
LEMMA AnswerRecord ==
  ASSUME NEW r \in Requests, NEW id \in IteratorIds \cup {0}, NEW more \in BOOLEAN, NEW error \in BOOLEAN
  PROVE  Answer(r, id, more, error) \in GivenAnswers /\ Answer(r, id, more, error).n = r.n
         /\ Answer(r, id, more, error).id = id
  BY DEF Answer, GivenAnswers, Requests

Answered(c, r) ==
  \E a \in GivenAnswers, its \in SUBSET IteratorIds, left \in BOOLEAN :
    /\ Reply(c, a, its, left) /\ a.n = r.n
    /\ a.id # 0 => r.op = "listStatements"
    /\ its \subseteq conn[c].iterators \cup {a.id}
    /\ r.op = "iteratorClose" => r.id \notin its

LEMMA ProperReply ==
  ASSUME NEW c, NEW r \in Requests, NEW id \in IteratorIds \cup {0}, NEW more \in BOOLEAN,
         NEW error \in BOOLEAN, NEW its \in SUBSET IteratorIds, NEW left \in BOOLEAN,
         Reply(c, Answer(r, id, more, error), its, left), id # 0 => r.op = "listStatements",
         its \subseteq conn[c].iterators \cup {id}, r.op = "iteratorClose" => r.id \notin its
  PROVE  Answered(c, r)
<1> DEFINE a == Answer(r, id, more, error)
<1>1. a \in GivenAnswers /\ a.n = r.n /\ a.id = id
  BY AnswerRecord
<1> HIDE DEF a
<1>2. Reply(c, a, its, left)
  BY DEF a
<1> QED
  BY <1>1, <1>2 DEF Answered

LEMMA CommandAnswered ==
  ASSUME Inv, NEW c \in Connections, NEW r \in Requests,
         \/ invalidModel(c, r) \/ invalidIterator(c, r) \/ supportsProtocolVersion(c, r)
         \/ modelCommand(c, r) \/ listStatements(c, r) \/ iteratorNext(c, r) \/ iteratorClose(c, r)
  PROVE  Answered(c, r) /\ (CarriedOut(r) \/ UNCHANGED executed)
<1>1. conn[c].iterators \in SUBSET IteratorIds
  BY DEF Inv, Typed, ConnRecords
<1>2. CASE invalidModel(c, r)
  <2> DEFINE left == r.op \in {"addStatement", "listStatements"}
  <2>1. left \in BOOLEAN
    OBVIOUS
  <2>2. r.op # "iteratorClose" /\ UNCHANGED executed /\ Reply(c, Answer(r, 0, FALSE, TRUE), conn[c].iterators, left)
    BY <1>2 DEF invalidModel, ModelOps
  <2> HIDE DEF left
  <2>3. Answered(c, r)
    BY <1>1, <2>1, <2>2, ProperReply
  <2> QED
    BY <2>2, <2>3
<1>3. CASE modelCommand(c, r)
  <2>1. PICK error \in BOOLEAN : Reply(c, Answer(r, 0, FALSE, error), conn[c].iterators, FALSE)
    BY <1>3 DEF modelCommand
  <2>2. r.op # "iteratorClose" /\ CarriedOut(r)
    BY <1>3 DEF modelCommand
  <2> QED
    BY <1>1, <2>1, <2>2, ProperReply
<1>4. CASE listStatements(c, r)
  <2>1. r.op = "listStatements" /\ r.op # "iteratorClose" /\ CarriedOut(r)
    BY <1>4 DEF listStatements
  <2>2. PICK error \in BOOLEAN :
       \/ Reply(c, Answer(r, 0, FALSE, error), conn[c].iterators, FALSE)
       \/ \E id \in IteratorIds \ conn[c].iterators :
            Reply(c, Answer(r, id, FALSE, error), conn[c].iterators \cup {id}, FALSE)
    BY <1>4 DEF listStatements
  <2>3. CASE Reply(c, Answer(r, 0, FALSE, error), conn[c].iterators, FALSE)
    BY <1>1, <2>1, <2>3, ProperReply
  <2>4. CASE \E id \in IteratorIds \ conn[c].iterators :
               Reply(c, Answer(r, id, FALSE, error), conn[c].iterators \cup {id}, FALSE)
    <3>1. PICK id \in IteratorIds :
            Reply(c, Answer(r, id, FALSE, error), conn[c].iterators \cup {id}, FALSE)
      BY <2>4
    <3>2. conn[c].iterators \cup {id} \in SUBSET IteratorIds
      BY <1>1
    <3>3. Answered(c, r)
      BY <2>1, <3>1, <3>2, ProperReply
    <3> QED
      BY <2>1, <3>3
  <2> QED
    BY <2>2, <2>3, <2>4
<1>5. CASE iteratorNext(c, r)
  <2>1. r.op = "iteratorNext" /\ r.op # "iteratorClose" /\ (CarriedOut(r) \/ UNCHANGED executed)
    BY <1>5 DEF iteratorNext
  <2>2. PICK more \in BOOLEAN, error \in BOOLEAN :
          Reply(c, Answer(r, 0, more, error), conn[c].iterators, FALSE)
    BY <1>5 DEF iteratorNext
  <2> QED
    BY <1>1, <2>1, <2>2, ProperReply
<1>6. CASE iteratorClose(c, r)
  <2>1. r.op = "iteratorClose" /\ (CarriedOut(r) \/ UNCHANGED executed)
    BY <1>6 DEF iteratorClose
  <2>2. PICK error \in BOOLEAN : Reply(c, Answer(r, 0, FALSE, error), conn[c].iterators \ {r.id}, FALSE)
    BY <1>6 DEF iteratorClose
  <2>3. conn[c].iterators \ {r.id} \in SUBSET IteratorIds /\ r.id \notin conn[c].iterators \ {r.id}
    BY <1>1
  <2> QED
    BY <2>1, <2>2, <2>3, ProperReply
<1>7. CASE supportsProtocolVersion(c, r)
  <2>1. r.op # "iteratorClose" /\ CarriedOut(r) /\ Reply(c, Answer(r, 0, TRUE, FALSE), conn[c].iterators, FALSE)
    BY <1>7 DEF supportsProtocolVersion
  <2> QED
    BY <1>1, <2>1, ProperReply
<1>8. CASE invalidIterator(c, r)
  <2>1. /\ r.id \notin conn[c].iterators /\ UNCHANGED executed
        /\ Reply(c, Answer(r, 0, FALSE, TRUE), conn[c].iterators, FALSE)
    BY <1>8 DEF invalidIterator
  <2> QED
    BY <1>1, <2>1, ProperReply
<1> QED
  BY <1>2, <1>3, <1>4, <1>5, <1>6, <1>7, <1>8

LEMMA CarriedOutTyped ==
  ASSUME Inv, NEW r \in Requests, CarriedOut(r) \/ UNCHANGED executed
  PROVE  executed' \in SUBSET (1..sent)
<1>1. executed \in SUBSET (1..sent)
  BY DEF Inv, Typed, HistoryTyped
<1>2. CASE \E t \in Threads : At(t, "wait") /\ call[t].n = r.n
  <2>1. PICK t \in Threads : InRequest(t) /\ call[t].n = r.n
    BY <1>2 DEF At, InRequest
  <2>2. r.n \in 1..sent
    BY <2>1, HolderWaits
  <2> QED
    BY <1>1, <2>2 DEF CarriedOut
<1>3. CASE ~\E t \in Threads : At(t, "wait") /\ call[t].n = r.n
  BY <1>1, <1>3 DEF CarriedOut
<1> QED
  BY <1>2, <1>3

LEMMA OnlyAnswer ==
  ASSUME NEW t, NEW c, NEW a, conn'[c].toServer = <<>>, conn'[c].toClient = <<a>>,
         AnswerTo(t, c, a)'
  PROVE  InFlight(t, c)'
<1>1. Len(<<a>>) = 1 /\ Head(<<a>>) = a /\ Len(<<>>) = 0 /\ <<a>> # <<>>
  OBVIOUS
<1>2. (Len(conn[c].toServer) + Len(conn[c].toClient) <= 1)'
  BY <1>1
<1>3. (conn[c].toClient # <<>> => AnswerTo(t, c, Head(conn[c].toClient)))'
  BY <1>1
<1> QED
  BY <1>2, <1>3 DEF InFlight

LEMMA AnsweredInv ==
  ASSUME Inv, NEW c \in Connections, conn[c].state = "open", conn[c].toServer # <<>>,
         UNCHANGED <<clientVars, serverUp, modelKnown>>, NEW r, r = Head(conn[c].toServer),
         \/ invalidModel(c, r) \/ invalidIterator(c, r) \/ supportsProtocolVersion(c, r)
         \/ modelCommand(c, r) \/ listStatements(c, r) \/ iteratorNext(c, r) \/ iteratorClose(c, r)
  PROVE  Inv'
<1>2. Typed /\ Exchange /\ IteratorsTracked /\ ThreadsBounded /\ conn[c] \in ConnRecords
  BY DEF Inv, Typed
<1>3. conn[c].toServer \in Seq(Requests) /\ conn[c].toClient \in Seq(GivenAnswers)
  BY <1>2 DEF ConnRecords
<1>4. r \in Requests /\ Tail(conn[c].toServer) \in Seq(Requests)
  BY <1>3, EmptySeq, HeadTailProperties
<1>5. Answered(c, r) /\ (CarriedOut(r) \/ UNCHANGED executed)
  BY <1>4, CommandAnswered
<1>6. PICK a \in GivenAnswers, its \in SUBSET IteratorIds, left \in BOOLEAN :
        /\ Reply(c, a, its, left) /\ a.n = r.n
        /\ a.id # 0 => r.op = "listStatements"
        /\ its \subseteq conn[c].iterators \cup {a.id}
        /\ r.op = "iteratorClose" => r.id \notin its
  BY <1>5 DEF Answered
<1> DEFINE k == [conn[c] EXCEPT !.toServer = Tail(@), !.toClient = Append(@, a),
                                !.iterators = its, !.leftover = left, !.busy = FALSE]
<1>7. conn' = [conn EXCEPT ![c] = k]
  BY <1>6 DEF Reply
<1>8. Append(conn[c].toClient, a) \in Seq(GivenAnswers)
  BY <1>3, AppendProperties
<1>9. /\ k \in ConnRecords /\ k.state = "open" /\ k.toServer = Tail(conn[c].toServer)
      /\ k.toClient = Append(conn[c].toClient, a) /\ k.iterators = its /\ k.busy = FALSE
  BY <1>2, <1>4, <1>8 DEF ConnRecords
<1> HIDE DEF k
<1>10. conn'[c] = k /\ \A d \in Connections \ {c} : conn'[d] = conn[d]
  BY <1>2, <1>7 DEF Typed
<1>11. UNCHANGED <<handle, socketLock, call, m_openIterators, sent>>
  BY DEF clientVars
<1>12. executed' \in SUBSET (1..sent)
  BY <1>4, <1>5, CarriedOutTyped
<1>13. ThreadsBounded'
  <2>1. \A d \in Connections : conn'[d].state = conn[d].state
    BY <1>9, <1>10
  <2> QED
    BY <1>2, <2>1, SameServed DEF ThreadsBounded
<1>14. ASSUME handle = c
       PROVE  socketLock # NoThread /\ InFlight(socketLock, handle)' /\ IteratorsTracked'
  <2>1. socketLock # NoThread /\ InFlight(socketLock, c)
    BY <1>2, <1>14 DEF Exchange, Silent, Connections
  <2>2. conn[c].toClient = <<>> /\ Tail(conn[c].toServer) = <<>>
    <3>1. Len(conn[c].toServer) + Len(conn[c].toClient) <= 1
      BY <2>1 DEF InFlight
    <3>2. conn[c].toClient = <<>> /\ Len(conn[c].toServer) <= 1
      BY <1>3, <3>1, OneWay
    <3>3. Tail(conn[c].toServer) = <<>>
      BY <1>3, <3>2, OnlyMessage
    <3> QED
      BY <3>2, <3>3
  <2>3. k.toServer = <<>> /\ k.toClient = <<a>>
    BY <1>9, <2>2
  <2>4. r.n = call[socketLock].n /\ r.op = call[socketLock].op /\ r.id = call[socketLock].id
    BY <2>1 DEF InFlight
  <2>5. AnswerTo(socketLock, handle, a)'
    BY <1>6, <1>9, <1>10, <1>11, <1>14, <2>4 DEF AnswerTo
  <2>6. InFlight(socketLock, handle)'
    BY <1>10, <1>11, <1>14, <2>3, <2>5, OnlyAnswer
  <2>7. IteratorsTracked'
    <3> SUFFICES ASSUME NEW id \in its, id # 0
                 PROVE  id \in m_openIterators' \cup OnTheWay(handle)'
      BY <1>9, <1>10, <1>11, <1>14 DEF IteratorsTracked
    <3>1. conn[c].toClient = <<>> /\ conn'[c].toClient = <<a>>
      BY <1>10, <2>2, <2>3
    <3>2. CASE id = a.id
      <4>1. DOMAIN <<a>> = {1} /\ <<a>>[1] = a
        OBVIOUS
      <4> QED
        BY <1>11, <1>14, <3>1, <3>2, <4>1 DEF OnTheWay
    <3>3. CASE id \in conn[c].iterators
      <4>1. id \in m_openIterators \cup OnTheWay(handle)
        BY <1>2, <1>14, <3>3 DEF IteratorsTracked, Connections
      <4>2. DOMAIN conn[c].toClient = {}
        BY <3>1
      <4> QED
        BY <1>11, <1>14, <4>1, <4>2 DEF OnTheWay, At
    <3> QED
      BY <1>6, <3>2, <3>3
  <2> QED
    BY <2>1, <2>6, <2>7
<1> QED
  BY <1>7, <1>9, <1>12, <1>13, <1>14, ServerOnly

\* The thread enters the model: the request stays where it is.
LEMMA CommandBeginsInv ==
  ASSUME Inv, NEW c \in Connections, conn[c].state = "open", conn[c].toServer # <<>>,
         UNCHANGED <<clientVars, serverUp, modelKnown>>, conn' = [conn EXCEPT ![c].busy = TRUE],
         UNCHANGED executed
  PROVE  Inv'
<1> DEFINE k == [conn[c] EXCEPT !.busy = TRUE]
<1>1. Typed /\ HistoryTyped /\ Exchange /\ IteratorsTracked /\ ThreadsBounded /\ conn[c] \in ConnRecords
  BY DEF Inv, Typed
<1>2. /\ k \in ConnRecords /\ k.state = "open" /\ k.toServer = conn[c].toServer
      /\ k.toClient = conn[c].toClient /\ k.iterators = conn[c].iterators
  BY <1>1 DEF ConnRecords
<1>3. conn' = [conn EXCEPT ![c] = k]
  OBVIOUS
<1> HIDE DEF k
<1>4. conn'[c] = k /\ \A d \in Connections \ {c} : conn'[d] = conn[d]
  BY <1>1, <1>3 DEF Typed
<1>5. UNCHANGED <<handle, socketLock, call, m_openIterators, sent>>
  BY DEF clientVars
<1>6. ThreadsBounded'
  <2>1. \A d \in Connections : conn'[d].state = conn[d].state
    BY <1>2, <1>4
  <2> QED
    BY <1>1, <2>1, SameServed DEF ThreadsBounded
<1>7. ASSUME handle = c
      PROVE  socketLock # NoThread /\ InFlight(socketLock, handle)' /\ IteratorsTracked'
  <2>1. socketLock # NoThread /\ InFlight(socketLock, handle)
    BY <1>1, <1>7 DEF Exchange, Silent, Connections
  <2>2. InFlight(socketLock, handle)'
    BY <1>1, <1>2, <1>4, <1>5, <1>7, <2>1, LessInFlight
  <2>3. OnTheWay(handle)' = OnTheWay(handle)
    BY <1>2, <1>4, <1>5, <1>7 DEF OnTheWay, At
  <2> QED
    BY <1>1, <1>2, <1>4, <1>5, <1>7, <2>1, <2>2, <2>3 DEF IteratorsTracked
<1>8. executed' \in SUBSET (1..sent)
  BY <1>1 DEF HistoryTyped
<1> QED
  BY <1>2, <1>3, <1>6, <1>7, <1>8, ServerOnly

LEMMA CommandInv ==
  ASSUME Inv, NEW c \in Connections, _s_readNextCommand(c) \/ commandReturns(c)
  PROVE  Inv'
<1> DEFINE r == Head(conn[c].toServer)
<1>1. ConnOK(c)
  BY DEF Inv
<1>2. /\ conn[c].state = "open" /\ conn[c].toServer # <<>>
      /\ UNCHANGED <<clientVars, serverUp, modelKnown>>
  BY <1>1 DEF _s_readNextCommand, commandReturns, ConnOK
<1>3. \/ invalidModel(c, r) \/ invalidIterator(c, r) \/ supportsProtocolVersion(c, r)
      \/ modelCommand(c, r) \/ listStatements(c, r) \/ iteratorNext(c, r) \/ iteratorClose(c, r)
      \/ commandBegins(c, r)
  BY DEF _s_readNextCommand, commandReturns
<1>4. CASE commandBegins(c, r)
  BY <1>2, <1>4, CommandBeginsInv DEF commandBegins
<1>5. CASE ~commandBegins(c, r)
  <2> HIDE DEF r
  <2>1. r = Head(conn[c].toServer)
    BY DEF r
  <2> QED
    BY <1>2, <1>3, <1>5, <2>1, AnsweredInv
<1> QED
  BY <1>4, <1>5

(***************************************************************************)
(* ServerCore::stop, and another client's removeModel.                     *)
(***************************************************************************)
LEMMA StopInv ==
  ASSUME Inv, stop
  PROVE  Inv'
<1> DEFINE ended(c) == c \in Served \/ conn[c].state = "pending"
           e(c) == [conn[c] EXCEPT !.state = "gone", !.toServer = <<>>, !.iterators = {},
                                   !.leftover = FALSE]
           k(c) == IF ended(c) THEN e(c) ELSE conn[c]
<1>1. /\ Typed /\ HistoryTyped /\ (\A t \in Threads : CallOK(t)) /\ (\A c \in Connections : ConnOK(c))
      /\ Exchange /\ ThreadsBounded
  BY DEF Inv, Typed
<1>2. /\ UNCHANGED <<handle, socketLock, socketError, m_openIterators, listLock, iterators, call, sent,
                     unfounded, modelKnown, executed>>
      /\ serverUp' = FALSE
      /\ conn' = [c \in Connections |-> k(c)]
  BY DEF stop, clientVars
<1>3. ASSUME NEW c \in Connections
      PROVE  /\ k(c) \in ConnRecords /\ k(c).toClient = conn[c].toClient
             /\ k(c).toServer \in {<<>>, conn[c].toServer} /\ k(c).iterators \subseteq conn[c].iterators
             /\ k(c).state # "open" /\ (k(c).state = "none" => conn[c].state = "none")
             /\ k(c) = conn[c] \/ (k(c).state = "gone" /\ k(c).toServer = <<>> /\ ~k(c).busy)
  <2>1. conn[c] \in ConnRecords /\ ConnOK(c)
    BY <1>1 DEF Typed
  <2>2. CASE ended(c)
    <3>1. k(c) = e(c)
      BY <2>2
    <3>2. /\ e(c) \in ConnRecords /\ e(c).toClient = conn[c].toClient /\ e(c).state = "gone"
          /\ e(c).toServer = <<>> /\ e(c).iterators = {} /\ e(c).busy = conn[c].busy
      BY <2>1, EmptySeq DEF ConnRecords, States
    <3>3. ~conn[c].busy
      BY <2>1, <2>2 DEF stop, ConnOK
    <3> HIDE DEF e
    <3> QED
      BY <3>1, <3>2, <3>3
  <2>3. CASE ~ended(c)
    <3>1. k(c) = conn[c]
      BY <2>3
    <3>2. conn[c].state # "open"
      BY <2>3 DEF Served
    <3> HIDE DEF k
    <3> QED
      BY <2>1, <3>1, <3>2
  <2> QED
    BY <2>2, <2>3
<1> HIDE DEF k
<1>4. conn' \in [Connections -> ConnRecords] /\ \A c \in Connections : conn'[c] = k(c)
  BY <1>2, <1>3
<1>5. Typed'
  BY <1>1, <1>2, <1>4 DEF Typed, LocksTyped, ListsTyped, HistoryTyped
<1>6. \A t \in Threads : CallOK(t)'
  BY <1>1, <1>2 DEF CallOK, InRequest
<1>7. \A c \in Connections : ConnOK(c)'
  BY <1>1, <1>3, <1>4 DEF ConnOK, ServerClosed
<1>8. Exchange'
  <2>1. handle # 0 => handle \in Connections /\ conn[handle] \in ConnRecords /\ conn'[handle] = k(handle)
    BY <1>1, <1>4 DEF Typed
  <2>2. handle' # 0 => conn'[handle'].state # "none"
    BY <1>1, <1>2, <1>3, <2>1 DEF Exchange
  <2>3. ASSUME handle # 0, socketLock = NoThread
        PROVE  Silent(handle)'
    <3>1. conn[handle].toServer = <<>> /\ conn[handle].toClient = <<>>
      BY <1>1, <2>3 DEF Exchange, Silent
    <3>2. /\ k(handle).toServer \in {<<>>, conn[handle].toServer}
          /\ k(handle).toClient = conn[handle].toClient
      BY <1>3, <2>1, <2>3
    <3>3. conn'[handle].toServer = <<>> /\ conn'[handle].toClient = <<>>
      BY <2>1, <2>3, <3>1, <3>2
    <3> QED
      BY <1>2, <3>3 DEF Silent
  <2>4. ASSUME socketLock # NoThread
        PROVE  handle # 0 /\ InFlight(socketLock, handle)'
    <3>1. handle # 0 /\ InFlight(socketLock, handle)
      BY <1>1, <2>4 DEF Exchange
    <3>2. /\ conn'[handle].toClient = conn[handle].toClient
          /\ conn'[handle].toServer \in {<<>>, conn[handle].toServer}
          /\ conn'[handle].iterators \subseteq conn[handle].iterators
      BY <1>3, <2>1, <3>1
    <3>3. InFlight(socketLock, handle)'
      BY <1>2, <2>1, <3>1, <3>2, LessInFlight DEF InFlight, AnswerTo
    <3> QED
      BY <3>1, <3>3
  <2> QED
    BY <1>2, <2>2, <2>3, <2>4 DEF Exchange, Silent
<1>9. IteratorsTracked'
  BY <1>1, <1>2, <1>3, <1>4 DEF IteratorsTracked, Typed
<1>10. ThreadsBounded'
  <2>1. Served' \subseteq Served
    BY <1>3, <1>4 DEF Served
  <2> QED
    BY <1>1, <2>1, FewerServed
<1> QED
  BY <1>5, <1>6, <1>7, <1>8, <1>9, <1>10 DEF Inv

LEMMA UnchangedInv ==
  ASSUME Inv, modelKnown' \in BOOLEAN, UNCHANGED <<clientVars, conn, serverUp, executed>>
  PROVE  Inv'
<1>1. /\ Typed /\ (\A t \in Threads : CallOK(t)) /\ (\A c \in Connections : ConnOK(c))
      /\ Exchange /\ IteratorsTracked /\ ThreadsBounded
  BY DEF Inv
<1>2. UNCHANGED <<handle, socketLock, socketError, m_openIterators, listLock, iterators, call, sent,
                  unfounded, conn, serverUp, executed>>
  BY DEF clientVars
<1>3. Typed'
  BY <1>1, <1>2 DEF Typed, LocksTyped, ListsTyped, HistoryTyped
<1>4. (\A t \in Threads : CallOK(t)') /\ \A c \in Connections : ConnOK(c)'
  BY <1>1, <1>2 DEF CallOK, ConnOK, ServerClosed, InRequest
<1>5. Exchange'
  <2>1. CASE socketLock = NoThread
    BY <1>1, <1>2, <2>1 DEF Exchange, Silent
  <2>2. CASE socketLock # NoThread
    <3>1. handle # 0 /\ InFlight(socketLock, handle)
      BY <1>1, <2>2 DEF Exchange
    <3>2. InFlight(socketLock, handle)'
      BY <1>2, <3>1 DEF InFlight, AnswerTo
    <3> QED
      BY <1>1, <1>2, <2>2, <3>1, <3>2 DEF Exchange
  <2> QED
    BY <2>1, <2>2
<1>6. IteratorsTracked' /\ ThreadsBounded'
  BY <1>1, <1>2 DEF IteratorsTracked, OnTheWay, At, ThreadsBounded, Served
<1> QED
  BY <1>3, <1>4, <1>5, <1>6 DEF Inv
-----------------------------------------------------------------------------
LEMMA InitInv == Init => Inv
<1> SUFFICES ASSUME Init PROVE Inv
  OBVIOUS
<1>1. 1 \in Connections
  BY BoundsAssumption DEF Connections
<1> DEFINE open == [NoConnection EXCEPT !.state = "open"]
<1>2. Idle \in CallRecords /\ Idle.phase = "idle"
  BY CallRecord DEF Idle, Phases
<1>3. NoConnection \in ConnRecords /\ open \in ConnRecords /\ open.state = "open" /\ NoConnection.state = "none"
      /\ ~open.busy /\ ~NoConnection.busy
  BY EmptySeq DEF NoConnection, ConnRecords, States
<1>4. /\ open.toServer = <<>> /\ open.toClient = <<>> /\ open.iterators = {}
      /\ NoConnection.toServer = <<>> /\ NoConnection.toClient = <<>> /\ NoConnection.iterators = {}
  BY DEF NoConnection
<1>5. /\ handle = 1 /\ socketLock = NoThread /\ listLock = NoThread /\ socketError = {}
      /\ m_openIterators = {} /\ iterators = {} /\ call = [t \in Threads |-> Idle]
      /\ conn = [c \in Connections |-> IF c = 1 THEN open ELSE NoConnection]
      /\ serverUp = TRUE /\ modelKnown = TRUE /\ sent = 0 /\ executed = {} /\ unfounded = {}
  BY DEF Init
<1> HIDE DEF open
<1>6. Typed
  BY <1>1, <1>2, <1>3, <1>5 DEF Typed, LocksTyped, ListsTyped, HistoryTyped
<1>7. \A t \in Threads : CallOK(t)
  BY <1>2, <1>5, NamesAssumption DEF CallOK, InRequest
<1>8. \A c \in Connections : ConnOK(c)
  BY <1>3, <1>4, <1>5 DEF ConnOK, ServerClosed
<1>9. Exchange /\ IteratorsTracked
  BY <1>1, <1>3, <1>4, <1>5 DEF Exchange, Silent, IteratorsTracked
<1>10. ThreadsBounded
  <2>1. Served = {1}
    BY <1>1, <1>3, <1>5 DEF Served
  <2>2. Cardinality(Served) = 1
    BY <2>1, FS_Singleton
  <2> QED
    BY <2>2, BoundsAssumption DEF ThreadsBounded
<1> QED
  BY <1>6, <1>7, <1>8, <1>9, <1>10 DEF Inv

LEMMA NextInv == Inv /\ [Next]_vars => Inv'
<1> SUFFICES ASSUME Inv, [Next]_vars PROVE Inv'
  OBVIOUS
<1>1. ASSUME NEW t \in Threads,
             \/ \E op \in ModelOps : callModel(t, op)
             \/ \E op \in IteratorOps, id \in IteratorIds \cup {0} : callIterator(t, op, id)
      PROVE  Inv'
  BY <1>1, CallInv
<1>2. ASSUME NEW t \in Threads, ClientStep(t) PROVE Inv'
  BY <1>2, CloseIteratorInv, TrackIteratorInv, SendRequestInv, RequestGoesOnInv, NoAnswerInv DEF ClientStep
<1>7. ASSUME NEW t \in Threads, Transfer(t) PROVE Inv'
  BY <1>7, RequestGoesOnInv, ReadAnswerInv DEF Transfer
<1>3. ASSUME NEW t \in Threads, connect(t) PROVE Inv'
  BY <1>3, ConnectInv
<1>4. ASSUME NEW c \in Connections, ServerStep(c) PROVE Inv'
  BY <1>4, IncomingInv, ConnectionEndsInv, CommandInv DEF ServerStep
<1>5. CASE removeModel
  BY <1>5, UnchangedInv DEF removeModel
<1>6. CASE UNCHANGED vars
  <2>1. modelKnown \in BOOLEAN
    BY DEF Inv, Typed
  <2> QED
    BY <1>6, <2>1, UnchangedInv DEF vars, serverVars
<1> QED
  BY <1>1, <1>2, <1>3, <1>4, <1>5, <1>6, <1>7, DisconnectInv, StopInv DEF Next

LEMMA InvHolds == Spec => []Inv
  BY InitInv, NextInv, PTL DEF Spec
-----------------------------------------------------------------------------
(***************************************************************************)
(* A thread that waits owns the socket, and whatever is in the stream of   *)
(* its connection, in either direction, is its own request or the answer   *)
(* to it (SocketStream's mutex, and Socket::close after a timeout).        *)
(***************************************************************************)
THEOREM AnswersAreOwn == Spec => []OwnAnswer
<1>1. Inv => OwnAnswer
  <2> SUFFICES ASSUME Inv, NEW t \in Threads, InRequest(t)
               PROVE  /\ socketLock = t /\ handle # 0
                      /\ \A i \in DOMAIN Answers : Answers[i].n = call[t].n
                      /\ Len(conn[handle].toServer) + Len(Answers) <= 1
    BY DEF OwnAnswer
  <2>1. socketLock = t /\ handle \in Connections /\ InFlight(t, handle) /\ conn[handle] \in ConnRecords
    BY HolderWaits
  <2>2. Len(conn[handle].toServer) + Len(Answers) <= 1
    BY <2>1 DEF InFlight, Answers
  <2>3. ASSUME NEW i \in DOMAIN Answers PROVE Answers[i].n = call[t].n
    <3>1. Answers # <<>>
      BY <2>3
    <3>2. DOMAIN Answers = {1} /\ Answers[1] = Head(Answers) /\ AnswerTo(t, handle, Head(Answers))
      BY <3>1, AnswerRead
    <3> QED
      BY <2>3, <3>2 DEF AnswerTo
  <2>4. handle # 0
    BY <2>1 DEF Connections
  <2> QED
    BY <2>1, <2>2, <2>3, <2>4
<1> QED
  BY <1>1, InvHolds, PTL

(***************************************************************************)
(* Every iterator the server keeps for the client's connection is in       *)
(* ClientModel::m_openIterators or on its way there, and the server never  *)
(* runs more connection threads than setMaximumConnectionCount allows.     *)
(***************************************************************************)
THEOREM ServerBounded == Spec => []ResourcesBounded
<1>1. Inv => ResourcesBounded
  BY DEF Inv, ResourcesBounded
<1> QED
  BY <1>1, InvHolds, PTL

(***************************************************************************)
(* Type correctness.                                                       *)
(***************************************************************************)
THEOREM TypeCorrect == Spec => []TypeOK
<1>1. GivenAnswers \subseteq AnswerRecords
  BY IdsAreNumbers DEF GivenAnswers, AnswerRecords
<1>2. \A s \in Seq(GivenAnswers) : s \in Seq(AnswerRecords)
  BY <1>1, SeqMonotonic
<1>3. Inv => TypeOK
  BY <1>2 DEF Inv, Typed, LocksTyped, ListsTyped, HistoryTyped, TypeOK, CallRecords, Phases, ConnRecords, States
<1> QED
  BY <1>3, InvHolds, PTL
-----------------------------------------------------------------------------
\* sopranocmd.  What a step keeps that keeps the command line, ...
LEMMA LineKept ==
  ASSUME cmLine' = cmLine
  PROVE  /\ CmArgs' = CmArgs /\ command' = command /\ LineParses' = LineParses
         /\ \A s : hasSetting(s)' = hasSetting(s) /\ optionSet(s)' = optionSet(s)
         /\ OtherSetting' = OtherSetting /\ MixedParameters' = MixedParameters
<1>1. CmArgs' = CmArgs
  BY DEF CmArgs, IsArgument, IsValue, TakesValue
<1>2. command' = command
  BY <1>1 DEF command
<1>3. LineParses' = LineParses
  BY DEF LineParses, IsArgument, IsValue, TakesValue
<1>4. \A s : hasSetting(s)' = hasSetting(s) /\ optionSet(s)' = optionSet(s)
  BY DEF hasSetting, optionSet, TakesValue
<1>5. OtherSetting' = OtherSetting /\ MixedParameters' = MixedParameters
  BY <1>4 DEF OtherSetting, MixedParameters, ServerParameter
<1> QED
  BY <1>1, <1>2, <1>3, <1>4, <1>5

LEMMA ArgsCounted ==
  ASSUME cmLine \in CmLines
  PROVE  Len(CmArgs) \in Nat /\ DOMAIN CmArgs = 1..Len(CmArgs)
<1> DEFINE positions == {i \in DOMAIN cmLine : IsArgument(i)}
           n == Cardinality(positions)
           nth(k) == CHOOSE i \in positions : Cardinality({j \in positions : j <= i}) = k
           args == [k \in 1..n |-> cmLine[nth(k)].text]
<1>1. n \in Nat
  <2>1. IsFiniteSet(DOMAIN cmLine)
    BY CmLinesAssumption
  <2>2. IsFiniteSet(positions)
    BY <2>1, FS_Subset
  <2> QED
    BY <2>2, FS_CardinalityType
<1>2. CmArgs = args
  BY DEF CmArgs
<1> HIDE DEF n, nth
<1>3. args \in Seq({args[k] : k \in 1..n}) /\ DOMAIN args = 1..n
  BY <1>1
<1> HIDE DEF args
<1> QED
  BY <1>1, <1>2, <1>3

LEMMA ParsedEmpty == \A token : IsEmpty(parseNode(token)) => parseNode(token) = Empty
BY DEF IsEmpty, parseNode, Empty, Resource, Blank, Literal

\* ... and what it keeps of the nodes, which are read without the NRL model while a file is imported
LEMMA NodesKept ==
  ASSUME cmLine' = cmLine, cmPc # "fileimport", cmPc' # "fileimport"
  PROVE  /\ \A token : parseNode(token)' = parseNode(token)
         /\ StatementArgument' = StatementArgument
         /\ \A st : AskedFor(st)' <=> AskedFor(st)
<1>1. CmArgs' = CmArgs /\ (HasNrlModel' <=> HasNrlModel)
  BY LineKept DEF HasNrlModel
<1>2. \A token : parseNode(token)' = parseNode(token)
  BY <1>1 DEF parseNode
<1>3. StatementArgument' = StatementArgument
  BY <1>1, <1>2 DEF StatementArgument, NodeArgument
<1>4. \A st : AskedFor(st)' <=> AskedFor(st)
  BY <1>1, <1>2 DEF AskedFor, Allowed
<1> QED
  BY <1>2, <1>3, <1>4

\* An argument that is there allows the nodes that match the node it stands for, ...
LEMMA ArgumentAllows ==
  ASSUME cmLine \in CmLines, NEW st, NEW k \in 1..4, NEW node, node = <<st.s, st.p, st.o, st.c>>[k]
  PROVE  Allowed(st, k) <=> NodeMatches(node, NodeArgument(k))
<1>1. Len(CmArgs) \in Nat
  BY ArgsCounted
<1>2. CASE Len(CmArgs) > k
  <2>1. NodeArgument(k) = parseNode(CmArgs[k + 1])
    BY <1>2 DEF NodeArgument
  <2>2. Allowed(st, k) <=> parseNode(CmArgs[k + 1]) = Empty \/ NodeEquals(node, parseNode(CmArgs[k + 1]))
    BY <1>2 DEF Allowed
  <2>3. IsEmpty(parseNode(CmArgs[k + 1])) <=> parseNode(CmArgs[k + 1]) = Empty
    BY ParsedEmpty DEF IsEmpty, Empty
  <2> QED
    BY <2>1, <2>2, <2>3 DEF NodeMatches
<1>3. CASE ~(Len(CmArgs) > k)
  <2>1. NodeArgument(k) = Empty /\ Allowed(st, k)
    BY <1>3 DEF NodeArgument, Allowed
  <2> QED
    BY <2>1 DEF NodeMatches, IsEmpty, Empty
<1> QED
  BY <1>2, <1>3

\* ... so that what all of them allow is what matches the statement they stand for.
LEMMA AskedMatches ==
  ASSUME cmLine \in CmLines, NEW st
  PROVE  AskedFor(st) <=> StatementMatches(st, StatementArgument)
<1>1. /\ Allowed(st, 1) <=> NodeMatches(st.s, NodeArgument(1))
      /\ Allowed(st, 2) <=> NodeMatches(st.p, NodeArgument(2))
      /\ Allowed(st, 3) <=> NodeMatches(st.o, NodeArgument(3))
      /\ Allowed(st, 4) <=> NodeMatches(st.c, NodeArgument(4))
  <2>1. ASSUME NEW k \in 1..4, NEW node, node = <<st.s, st.p, st.o, st.c>>[k]
        PROVE  Allowed(st, k) <=> NodeMatches(node, NodeArgument(k))
    BY <2>1, ArgumentAllows
  <2> QED
    BY <2>1
<1>2. AskedFor(st) <=> Allowed(st, 1) /\ Allowed(st, 2) /\ Allowed(st, 3) /\ Allowed(st, 4)
  <2>1. 1..4 = {1, 2, 3, 4}
    OBVIOUS
  <2> QED
    BY <2>1 DEF AskedFor
<1> QED
  BY <1>1, <1>2 DEF StatementMatches, StatementArgument, Statement

LEMMA EqualAllowed == \A n, m : NodeEquals(n, m) => NodeMatches(n, m)
BY DEF NodeMatches
-----------------------------------------------------------------------------
CmPcs == {"start", "model", "fileimport", "command", "import", "monitor", "done"}

\* What main has seen to when there is a model
Ready == LineParses /\ ~MixedParameters /\ ~optionSet("version")

\* How a statement of the file is stored, and the store while importFile is at work
ImportAs(st) == SetContext(st, IF IsEmpty(st.c) /\ optionSet("nrl") /\ ~hasSetting("index")
                               THEN Resource(<<"new graph">>) ELSE st.c)
Importing ==
  /\ cmTodo \in Seq(ToSet(CmFile))
  /\ IsEmpty(cmGraph) \/ cmGraph = Resource(<<"new graph">>)
  /\ cmStart \subseteq cmContent /\ cmContent \subseteq cmStart \cup Imported
  /\ \A st \in ToSet(CmFile) : st \in ToSet(cmTodo) \/ ImportAs(st) \in cmContent

\* The store is still as it was, or it is the one main has made from a file.
Untouched == \/ cmContent = cmStart /\ IsEmpty(cmGraph)
             \/ hasSetting("file") /\ ~cmRemote

CmInv ==
  /\ cmLine \in CmLines /\ cmPc \in CmPcs
  /\ cmPc \in {"start", "model"} => cmContent = cmStart /\ IsEmpty(cmGraph) /\ ~cmRemote
  /\ cmPc \in {"start", "model", "fileimport", "command"} => cmOutput = {}
  /\ cmPc \in {"model", "fileimport", "command", "import", "monitor"} => Ready
  /\ cmPc = "fileimport" => hasSetting("file") /\ ~cmRemote
  /\ cmPc = "command" => CmArgs # <<>> /\ Untouched
  /\ cmPc = "import" => CmArgs # <<>> /\ command = "import" /\ (hasSetting("file") \/ Importing)
  /\ cmPc = "monitor" => CmArgs # <<>> /\ command = "monitor" /\ Monitored
  /\ CommandsExact

\* An end that changes nothing, and is no success of a command that should
LEMMA NothingDone ==
  ASSUME KeepLine, cmPc' = "done",
         cmContent' = cmStart \/ (hasSetting("file") /\ (~cmRemote' \/ command # "monitor")),
         CmArgs # <<>> /\ command = "list" => \A st \in cmOutput' : AskedFor(st)',
         \/ cmStatus' # 0 \/ ~Ready \/ CmArgs = <<>> \/ command \notin {"remove", "rm", "import"}
         \/ hasSetting("file") \/ (OtherSetting /\ command # "import")
  PROVE  CommandsExact'
<1>1. /\ CmArgs' = CmArgs /\ command' = command /\ LineParses' = LineParses
      /\ \A s : hasSetting(s)' = hasSetting(s) /\ optionSet(s)' = optionSet(s)
      /\ OtherSetting' = OtherSetting /\ MixedParameters' = MixedParameters
      /\ cmStart' = cmStart
  BY LineKept DEF KeepLine
<1>2. \A names : Is(names)' <=> LineParses /\ CmArgs # <<>> /\ command \in names
  BY <1>1 DEF Is
<1>3. ListExact'
  BY <1>2 DEF ListExact
<1>4. CASE cmContent' = cmStart
  <2>1. Gone' = {} /\ Added' = {}
    BY <1>1, <1>4 DEF Gone, Added
  <2>2. hasSetting("file")' \/ (~Is({"remove", "rm"})' /\ ~Is({"import"})') \/ ~Executed'
    BY <1>1, <1>2 DEF Executed, Ready
  <2>3. hasSetting("file")' \/ ChangesExact'
    BY <2>1, <2>2 DEF ChangesExact
  <2>4. Monitored'
    BY <2>1 DEF Monitored
  <2> QED
    BY <1>3, <2>3, <2>4 DEF CommandsExact
<1>5. CASE hasSetting("file") /\ (~cmRemote' \/ command # "monitor")
  BY <1>1, <1>2, <1>3, <1>5 DEF CommandsExact
<1> QED
  BY <1>4, <1>5

LEMMA CmBegins == CmInit => CmInv
BY DEF CmInit, CmInv, CmPcs, CommandsExact, Empty, IsEmpty

LEMMA CmParses ==
  ASSUME CmInv, cmParse
  PROVE  CmInv'
<1>1. /\ KeepLine /\ cmPc = "start" /\ UNCHANGED <<cmContent, cmRemote, cmGraph, cmOutput>>
      /\ \/ cmPc' = "done" /\ (cmStatus' # 0 \/ ~Ready)
         \/ cmPc' = "model" /\ Ready
  BY DEF cmParse, CmReturn, Ready, Usage, UsageWithError
<1>2. /\ cmLine \in CmLines /\ cmContent = cmStart /\ cmOutput = {} /\ IsEmpty(cmGraph) /\ ~cmRemote
  BY <1>1 DEF CmInv
<1>3. CASE cmPc' = "done"
  <2>1. CommandsExact'
    BY <1>1, <1>2, <1>3, NothingDone DEF KeepLine
  <2> QED
    BY <1>1, <1>2, <1>3, <2>1 DEF CmInv, CmPcs, KeepLine
<1>4. CASE cmPc' = "model" /\ Ready
  <2>1. Ready'
    BY <1>1, <1>4, LineKept DEF Ready, KeepLine
  <2>2. CommandsExact'
    BY <1>4 DEF CommandsExact
  <2> QED
    BY <1>1, <1>2, <1>4, <2>1, <2>2 DEF CmInv, CmPcs, KeepLine
<1> QED
  BY <1>1, <1>3, <1>4

LEMMA ModelIsCreated ==
  ASSUME KeepLine, cmLine \in CmLines, Ready, ModelCreated, cmOutput = {}, cmOutput' = {},
         \/ cmContent' = cmStart /\ IsEmpty(cmGraph')
         \/ hasSetting("file") /\ ~cmRemote'
  PROVE  CmInv'
<1>1. /\ cmLine' = cmLine /\ cmStart' = cmStart /\ CmArgs' = CmArgs /\ Ready'
      /\ hasSetting("file")' = hasSetting("file")
  BY LineKept DEF KeepLine, Ready
<1>2. CASE CmArgs = <<>>
  <2>1. cmPc' = "done" /\ cmStatus' # 0
    BY <1>2 DEF ModelCreated, CmReturn, Usage
  <2>2. CommandsExact'
    BY <1>2, <2>1, NothingDone
  <2> QED
    BY <1>1, <2>1, <2>2 DEF CmInv, CmPcs
<1>3. CASE CmArgs # <<>>
  <2>1. cmPc' = "command"
    BY <1>3 DEF ModelCreated
  <2>2. CommandsExact'
    BY <2>1 DEF CommandsExact
  <2>3. Untouched'
    BY <1>1 DEF Untouched
  <2> QED
    BY <1>1, <1>3, <2>1, <2>2, <2>3 DEF CmInv, CmPcs
<1> QED
  BY <1>2, <1>3

LEMMA CmCreates ==
  ASSUME CmInv, cmCreateModel
  PROVE  CmInv'
<1>1. /\ KeepLine /\ cmLine \in CmLines /\ Ready /\ cmContent = cmStart /\ IsEmpty(cmGraph) /\ ~cmRemote
      /\ cmOutput = {} /\ cmOutput' = {} /\ cmGraph' = cmGraph
  BY DEF cmCreateModel, CmInv
<1>2. \/ ModelCreated /\ cmContent' = cmContent
      \/ CmReturn(1) /\ cmContent' = cmContent
      \/ CmReturn(2) /\ cmContent' = cmContent
      \/ CmReturn(3) /\ cmContent' = cmContent
      \/ CmReturn(4) /\ cmContent' = cmContent
      \/ hasSetting("file") /\ cmRemote' = cmRemote /\ cmPc' = "fileimport"
  <2>1. createMemoryModel => \/ CmReturn(1) /\ cmContent' = cmContent
                             \/ CmReturn(2) /\ cmContent' = cmContent
                             \/ cmPc' = "fileimport"
    BY DEF createMemoryModel
  <2> HIDE DEF ModelCreated, CmReturn, createMemoryModel
  <2> QED
    BY <2>1 DEF cmCreateModel
<1>3. CASE ModelCreated /\ cmContent' = cmContent
  BY <1>1, <1>3, ModelIsCreated
<1>4. CASE cmPc' = "done" /\ cmStatus' # 0 /\ cmContent' = cmContent
  <2>1. CommandsExact'
    BY <1>1, <1>4, NothingDone
  <2> QED
    BY <1>1, <1>4, <2>1 DEF CmInv, CmPcs, KeepLine
<1>5. CASE hasSetting("file") /\ cmRemote' = cmRemote /\ cmPc' = "fileimport"
  <2>1. Ready' /\ hasSetting("file")' /\ cmLine' = cmLine
    BY <1>1, <1>5, LineKept DEF KeepLine, Ready
  <2>2. CommandsExact'
    BY <1>5 DEF CommandsExact
  <2> QED
    BY <1>1, <1>5, <2>1, <2>2 DEF CmInv, CmPcs
<1> QED
  BY <1>2, <1>3, <1>4, <1>5 DEF CmReturn
-----------------------------------------------------------------------------
LEMMA TakenFirst ==
  ASSUME NEW S, NEW q \in Seq(S), q # <<>>
  PROVE  /\ Head(q) \in S /\ Tail(q) \in Seq(S)
         /\ \A x \in ToSet(q) : x = Head(q) \/ x \in ToSet(Tail(q))
<1>1. Head(q) \in S /\ Tail(q) \in Seq(S)
  OBVIOUS
<1>2. ASSUME NEW i \in 1..Len(q) PROVE q[i] = Head(q) \/ \E j \in 1..Len(Tail(q)) : q[i] = Tail(q)[j]
  <2>1. CASE i = 1
    BY <2>1
  <2>2. CASE i # 1
    <3>1. i - 1 \in 1..Len(Tail(q)) /\ q[i] = Tail(q)[i - 1]
      BY <2>2
    <3> QED
      BY <3>1
  <2> QED
    BY <2>1, <2>2
<1>3. DOMAIN q = 1..Len(q) /\ DOMAIN Tail(q) = 1..Len(Tail(q))
  BY <1>1
<1> QED
  BY <1>1, <1>2, <1>3 DEF ToSet

LEMMA ImportedAre == Imported = {ImportAs(st) : st \in ToSet(CmFile)}
BY DEF Imported, ImportAs

LEMMA ImportDone ==
  ASSUME KeepLine, LineParses, CmArgs # <<>>, command = "import", cmPc' = "done",
         cmStart \subseteq cmContent', cmContent' \subseteq cmStart \cup Imported,
         cmStatus' = 0 => Imported \subseteq cmContent'
  PROVE  CommandsExact'
<1>1. /\ CmArgs' = CmArgs /\ command' = command /\ LineParses' = LineParses
      /\ \A s : hasSetting(s)' = hasSetting(s) /\ optionSet(s)' = optionSet(s)
      /\ cmStart' = cmStart
  BY LineKept DEF KeepLine
<1>2. Imported' = Imported
  BY <1>1 DEF Imported
<1>3. Gone' = {} /\ Added' \subseteq Imported'
  BY <1>1, <1>2 DEF Gone, Added
<1>4. /\ ~Is({"remove", "rm"})' /\ ~Is({"rmgraph"})' /\ ~Is({"add"})' /\ ~Is({"list"})' /\ ~Is({"monitor"})'
      /\ Is({"add", "import"})'
  BY <1>1 DEF Is
<1>5. Executed' => Imported' \subseteq cmContent'
  BY <1>2 DEF Executed
<1>6. ChangesExact'
  BY <1>3, <1>4, <1>5 DEF ChangesExact
<1> QED
  BY <1>4, <1>6 DEF CommandsExact, ListExact

LEMMA ImportsOne ==
  ASSUME CmInv, importOne
  PROVE  CmInv'
<1>1. /\ KeepLine /\ cmPc \in {"fileimport", "import"} /\ cmTodo # <<>> /\ cmLine \in CmLines /\ Ready
      /\ UNCHANGED <<cmRemote, cmOutput>>
      /\ \/ cmPc' = cmPc
         \/ cmPc' = "done" /\ cmStatus' # 0
  BY DEF importOne, CmReturn, CmInv
<1>2. /\ cmLine' = cmLine /\ cmStart' = cmStart /\ CmArgs' = CmArgs /\ command' = command /\ Ready'
      /\ \A s : hasSetting(s)' = hasSetting(s) /\ optionSet(s)' = optionSet(s)
  BY <1>1, LineKept DEF KeepLine, Ready
<1>3. CASE cmPc = "fileimport"
  <2>1. hasSetting("file") /\ ~cmRemote /\ cmOutput = {}
    BY <1>3 DEF CmInv
  <2>2. CASE cmPc' = "done" /\ cmStatus' # 0
    <3>1. CommandsExact'
      BY <1>1, <2>1, <2>2, NothingDone
    <3> QED
      BY <1>1, <1>2, <2>2, <3>1 DEF CmInv, CmPcs
  <2>3. CASE cmPc' = cmPc
    <3>1. CommandsExact'
      BY <1>3, <2>3 DEF CommandsExact
    <3> QED
      BY <1>1, <1>2, <1>3, <2>1, <2>3, <3>1 DEF CmInv, CmPcs
  <2> QED
    BY <1>1, <2>2, <2>3
<1>4. CASE cmPc = "import" /\ hasSetting("file")
  <2>1. CmArgs # <<>> /\ command = "import"
    BY <1>4 DEF CmInv
  <2>2. CommandsExact'
    <3>1. CASE cmPc' = "done"
      BY <1>1, <1>4, <2>1, <3>1, NothingDone
    <3>2. CASE cmPc' = cmPc
      BY <1>4, <3>2 DEF CommandsExact
    <3> QED
      BY <1>1, <3>1, <3>2
  <2> QED
    BY <1>1, <1>2, <1>4, <2>1, <2>2 DEF CmInv, CmPcs
<1>5. CASE cmPc = "import" /\ ~hasSetting("file")
  <2> DEFINE st == Head(cmTodo)
  <2>1. CmArgs # <<>> /\ command = "import" /\ Importing
    BY <1>5 DEF CmInv
  <2>2. st \in ToSet(CmFile) /\ \A x \in ToSet(cmTodo) : x = st \/ x \in ToSet(Tail(cmTodo))
    BY <1>1, <2>1, TakenFirst DEF Importing
  <2>3. Tail(cmTodo) \in Seq(ToSet(CmFile))
    BY <1>1, <2>1, TakenFirst DEF Importing
  <2> HIDE DEF st
  <2>4. HasNrlModel <=> optionSet("nrl") /\ ~hasSetting("index")
    BY <1>5 DEF HasNrlModel
  <2>5. SetContext(st, ImportContext(st)) = ImportAs(st)
    BY <2>1, <2>4 DEF Importing, ImportContext, ImportAs, IsEmpty, Resource, NoText
  <2>6. IsEmpty(cmGraph') \/ cmGraph' = Resource(<<"new graph">>)
    BY <2>1 DEF importOne, Importing, ImportContext, IsEmpty, st
  <2>7. ImportAs(st) \in Imported
    BY <2>2, ImportedAre
  <2>8. Imported' = Imported /\ \A x : ImportAs(x)' = ImportAs(x)
    BY <1>2 DEF Imported, ImportAs
  <2>9. CASE cmPc' = "done" /\ cmStatus' # 0 /\ cmContent' = cmContent
    <3>1. CommandsExact'
      BY <1>1, <2>1, <2>9, ImportDone DEF Importing, Ready
    <3> QED
      BY <1>1, <1>2, <2>9, <3>1 DEF CmInv, CmPcs
  <2>10. CASE cmPc' = cmPc /\ cmContent' = cmContent \cup {ImportAs(st)} /\ cmTodo' = Tail(cmTodo)
    <3>1. Importing'
      BY <1>2, <2>1, <2>2, <2>3, <2>6, <2>7, <2>8, <2>10 DEF Importing
    <3>2. CommandsExact'
      BY <1>5, <2>10 DEF CommandsExact
    <3> QED
      BY <1>1, <1>2, <1>5, <2>1, <2>10, <3>1, <3>2 DEF CmInv, CmPcs
  <2>11. \/ cmPc' = "done" /\ cmStatus' # 0 /\ cmContent' = cmContent
         \/ cmPc' = cmPc /\ cmContent' = cmContent \cup {ImportAs(st)} /\ cmTodo' = Tail(cmTodo)
    BY <2>5 DEF importOne, CmReturn, st
  <2> QED
    BY <2>9, <2>10, <2>11
<1> QED
  BY <1>1, <1>3, <1>4, <1>5

LEMMA ImportEnds ==
  ASSUME CmInv, importEnds
  PROVE  CmInv'
<1>1. /\ KeepLine /\ cmPc \in {"fileimport", "import"} /\ cmTodo = <<>> /\ cmLine \in CmLines /\ Ready
      /\ UNCHANGED <<cmContent, cmRemote, cmOutput>>
      /\ IF cmPc = "import" THEN CmReturn(0) ELSE ModelCreated
  BY DEF importEnds, CmInv
<1>2. CASE cmPc = "fileimport"
  <2>1. hasSetting("file") /\ ~cmRemote /\ cmOutput = {}
    BY <1>2 DEF CmInv
  <2> QED
    BY <1>1, <1>2, <2>1, ModelIsCreated
<1>3. CASE cmPc = "import"
  <2>1. CmArgs # <<>> /\ command = "import" /\ (hasSetting("file") \/ Importing) /\ cmPc' = "done"
    BY <1>1, <1>3 DEF CmInv, CmReturn
  <2>2. CommandsExact'
    <3>1. CASE hasSetting("file")
      <4> QED
        BY <1>1, <2>1, <3>1, NothingDone
    <3>2. CASE Importing
      <4>1. ToSet(cmTodo) = {}
        BY <1>1 DEF ToSet
      <4>2. Imported \subseteq cmContent
        BY <3>2, <4>1, ImportedAre DEF Importing
      <4> QED
        BY <1>1, <2>1, <3>2, <4>2, ImportDone DEF Importing, Ready
    <3> QED
      BY <2>1, <3>1, <3>2
  <2> QED
    BY <1>1, <2>1, <2>2 DEF CmInv, CmPcs, KeepLine
<1> QED
  BY <1>1, <1>2, <1>3
-----------------------------------------------------------------------------
\* A command that ends and leaves the store alone
LEMMA CommandEnds ==
  ASSUME CmInv, cmPc = "command", KeepLine, cmPc' = "done", UNCHANGED <<cmContent, cmRemote>>,
         command = "list" => \A st \in cmOutput' : AskedFor(st)',
         cmStatus' # 0 \/ command \notin {"remove", "rm", "import"} \/ (OtherSetting /\ command # "import")
  PROVE  CmInv'
<1>1. cmContent' = cmStart \/ (hasSetting("file") /\ ~cmRemote')
  BY DEF CmInv, Untouched
<1>2. CommandsExact'
  BY <1>1, NothingDone
<1> QED
  BY <1>2 DEF CmInv, CmPcs, KeepLine

LEMMA Imports ==
  ASSUME CmInv, cmImport
  PROVE  CmInv'
<1>1. /\ cmPc = "command" /\ KeepLine /\ command = "import" /\ UNCHANGED <<cmContent, cmRemote, cmGraph>>
      /\ \/ cmPc' = "done" /\ cmStatus' # 0
         \/ cmPc' = "import" /\ cmTodo' = CmFile
  BY DEF cmImport, InCommand, CmReturn, Usage
<1>2. CASE cmPc' = "done" /\ cmStatus' # 0
  BY <1>1, <1>2, CommandEnds
<1>3. CASE cmPc' = "import" /\ cmTodo' = CmFile
  <2>1. /\ cmLine' = cmLine /\ cmStart' = cmStart /\ CmArgs' = CmArgs /\ command' = command
        /\ \A s : hasSetting(s)' = hasSetting(s)
    BY <1>1, LineKept DEF KeepLine
  <2>2. Ready'
    BY <1>1, LineKept DEF KeepLine, Ready, CmInv
  <2>3. hasSetting("file")' \/ Importing'
    <3>1. CASE cmContent = cmStart /\ IsEmpty(cmGraph)
      BY <1>1, <1>3, <2>1, <3>1, CmFileAssumption DEF Importing
    <3>2. CASE hasSetting("file")
      BY <2>1, <3>2
    <3> QED
      BY <1>1, <3>1, <3>2 DEF CmInv, Untouched
  <2>4. CommandsExact'
    BY <1>3 DEF CommandsExact
  <2> QED
    BY <1>1, <1>3, <2>1, <2>2, <2>3, <2>4 DEF CmInv, CmPcs
<1> QED
  BY <1>1, <1>2, <1>3

LEMMA Exports ==
  ASSUME CmInv, cmExport
  PROVE  CmInv'
<1>1. /\ cmPc = "command" /\ KeepLine /\ command = "export" /\ UNCHANGED <<cmContent, cmRemote>>
      /\ cmPc' = "done"
  BY DEF cmExport, InCommand, CmReturn, SameModel
<1> QED
  BY <1>1, CommandEnds

LEMMA Queries ==
  ASSUME CmInv, cmQuery
  PROVE  CmInv'
<1>1. /\ cmPc = "command" /\ KeepLine /\ command = "query" /\ UNCHANGED <<cmContent, cmRemote>>
      /\ cmPc' = "done"
  BY DEF cmQuery, InCommand, CmReturn, SameModel, ExecutionEnds
<1> QED
  BY <1>1, CommandEnds

LEMMA Refuses ==
  ASSUME CmInv, cmRefuse
  PROVE  CmInv'
<1>1. /\ cmPc = "command" /\ KeepLine /\ UNCHANGED <<cmContent, cmRemote, cmOutput>> /\ cmPc' = "done"
      /\ cmStatus' # 0 \/ (OtherSetting /\ command # "import")
  BY DEF cmRefuse, CmReturn, SameModel, UsageWithError
<1>2. cmOutput' = {}
  BY <1>1 DEF CmInv
<1> QED
  BY <1>1, <1>2, CommandEnds

LEMMA Lists ==
  ASSUME CmInv, cmList
  PROVE  CmInv'
<1>1. /\ cmPc = "command" /\ KeepLine /\ command = "list" /\ UNCHANGED <<cmContent, cmRemote>> /\ cmPc' = "done"
      /\ cmLine \in CmLines
  BY DEF cmList, InCommand, CmReturn, SameModel, ExecutionEnds, CmInv
<1>2. cmOutput' \subseteq ListStatements(cmContent, StatementArgument)
  BY DEF cmList, printStatementList, serializeData, Printed
<1>3. \A st \in cmOutput' : AskedFor(st)
  BY <1>1, <1>2, AskedMatches DEF ListStatements
<1>4. \A st : AskedFor(st)' <=> AskedFor(st)
  BY <1>1, NodesKept DEF KeepLine
<1> QED
  BY <1>1, <1>3, <1>4, CommandEnds

LEMMA Adds ==
  ASSUME CmInv, cmAdd
  PROVE  CmInv'
<1>1. /\ cmPc = "command" /\ KeepLine /\ command = "add" /\ UNCHANGED <<cmRemote, cmOutput>> /\ cmPc' = "done"
      /\ cmLine \in CmLines /\ StatementValid(StatementArgument)
      /\ cmContent' = cmContent \/ cmContent' = cmContent \cup {StatementArgument}
  BY DEF cmAdd, InCommand, CmReturn, CmInv
<1>2. CASE cmContent' = cmContent
  BY <1>1, <1>2, CommandEnds
<1>3. CASE cmContent' = cmContent \cup {StatementArgument}
  <2>1. /\ CmArgs' = CmArgs /\ command' = command /\ LineParses' = LineParses /\ cmStart' = cmStart
        /\ \A s : hasSetting(s)' = hasSetting(s)
    BY <1>1, LineKept DEF KeepLine
  <2>2. ~Is({"remove", "rm"})' /\ ~Is({"rmgraph"})' /\ ~Is({"import"})' /\ ~Is({"list"})' /\ ~Is({"monitor"})'
    BY <1>1, <2>1 DEF Is
  <2>3. Is({"add", "import"})'
    BY <1>1, <2>1 DEF Is, CmInv, Ready
  <2>4. AskedFor(StatementArgument)
    <3>1. StatementMatches(StatementArgument, StatementArgument)
      BY DEF StatementMatches, NodeMatches, NodeEquals
    <3> QED
      BY <1>1, <3>1, AskedMatches
  <2>5. Len(CmArgs) >= 4
    <3>1. ~IsEmpty(NodeArgument(3))
      BY <1>1 DEF StatementValid, StatementArgument, Statement
    <3>2. Len(CmArgs) > 3
      BY <3>1 DEF NodeArgument, IsEmpty, Empty
    <3> QED
      BY <1>1, <3>2, ArgsCounted
  <2>6. \A st : AskedFor(st)' <=> AskedFor(st)
    BY <1>1, NodesKept DEF KeepLine
  <2>7. hasSetting("file")' \/ ChangesExact'
    <3>1. CASE cmContent = cmStart
      <4>1. Gone' = {} /\ Added' \subseteq {StatementArgument}
        BY <1>3, <2>1, <3>1 DEF Gone, Added
      <4>2. \A st \in Added' : AskedFor(st)' /\ Len(CmArgs') >= 4
        BY <2>1, <2>4, <2>5, <2>6, <4>1
      <4> QED
        BY <2>2, <2>3, <4>1, <4>2 DEF ChangesExact
    <3>2. CASE hasSetting("file")
      BY <2>1, <3>2
    <3> QED
      BY <1>1, <3>1, <3>2 DEF CmInv, Untouched
  <2>8. CommandsExact'
    BY <2>2, <2>7 DEF CommandsExact, ListExact
  <2> QED
    BY <1>1, <2>8 DEF CmInv, CmPcs, KeepLine
<1> QED
  BY <1>1, <1>2, <1>3

LEMMA Removes ==
  ASSUME CmInv, cmRemove
  PROVE  CmInv'
<1> DEFINE matching == ListStatements(cmContent, StatementArgument)
<1>1. /\ cmPc = "command" /\ KeepLine /\ command \in {"remove", "rm"} /\ UNCHANGED <<cmRemote, cmOutput>>
      /\ cmPc' = "done" /\ cmLine \in CmLines
      /\ \/ cmContent' = cmContent \ matching
         \/ cmStatus' = 2 /\ \E some \in SUBSET matching : cmContent' = cmContent \ some
  BY DEF cmRemove, InCommand, CmReturn, CmInv
<1>2. matching = {st \in cmContent : AskedFor(st)}
  BY <1>1, AskedMatches DEF ListStatements
<1> HIDE DEF matching
<1>3. \A st \in cmContent \ cmContent' : AskedFor(st)
  BY <1>1, <1>2
<1>4. cmContent' \subseteq cmContent /\ (cmStatus' = 0 => \A st \in cmContent' : ~AskedFor(st))
  BY <1>1, <1>2
<1>5. /\ CmArgs' = CmArgs /\ command' = command /\ LineParses' = LineParses /\ cmStart' = cmStart
      /\ \A s : hasSetting(s)' = hasSetting(s)
  BY <1>1, LineKept DEF KeepLine
<1>6. ~Is({"add"})' /\ ~Is({"rmgraph"})' /\ ~Is({"import"})' /\ ~Is({"list"})' /\ ~Is({"monitor"})'
  BY <1>1, <1>5 DEF Is
<1>7. Is({"remove", "rm", "rmgraph"})'
  BY <1>1, <1>5 DEF Is, CmInv, Ready
<1>8. \A st : AskedFor(st)' <=> AskedFor(st)
  BY <1>1, NodesKept DEF KeepLine
<1>9. hasSetting("file")' \/ ChangesExact'
  <2>1. CASE cmContent = cmStart
    <3>1. Added' = {} /\ Gone' = cmContent \ cmContent'
      BY <1>4, <1>5, <2>1 DEF Gone, Added
    <3>2. \A st \in Gone' : AskedFor(st)'
      BY <1>3, <1>8, <3>1
    <3>3. Executed' => \A st \in cmContent' : ~AskedFor(st)'
      BY <1>4, <1>8 DEF Executed
    <3> QED
      BY <1>6, <1>7, <3>1, <3>2, <3>3 DEF ChangesExact
  <2>2. CASE hasSetting("file")
    BY <1>5, <2>2
  <2> QED
    BY <1>1, <2>1, <2>2 DEF CmInv, Untouched
<1>10. CommandsExact'
  BY <1>6, <1>9 DEF CommandsExact, ListExact
<1> QED
  BY <1>1, <1>10 DEF CmInv, CmPcs, KeepLine

LEMMA RemovesGraphs ==
  ASSUME CmInv, cmRmgraph
  PROVE  CmInv'
<1> DEFINE nodes == [i \in 1..(Len(CmArgs) - 1) |-> parseNode(CmArgs[i + 1])]
           removed == {nodes[i] : i \in {j \in DOMAIN nodes : \A k \in 1..j : ~IsEmpty(nodes[k])}}
<1>1. /\ cmPc = "command" /\ KeepLine /\ command = "rmgraph" /\ UNCHANGED <<cmRemote, cmOutput>>
      /\ cmPc' = "done" /\ cmLine \in CmLines
  BY DEF cmRmgraph, InCommand, CmReturn, ExecutionEnds, CmInv
<1>2. cmContent' \subseteq cmContent /\ \A st \in cmContent \ cmContent' : st.c \in removed
  <2>1. \E failed \in SUBSET removed : cmContent' = {st \in cmContent : st.c \notin removed \ failed}
    BY DEF cmRmgraph
  <2> HIDE DEF removed
  <2> QED
    BY <2>1
<1>3. \A node \in removed : \E i \in 2..Len(CmArgs) : parseNode(CmArgs[i]) = node
  <2>1. Len(CmArgs) \in Nat
    BY <1>1, ArgsCounted
  <2>2. ASSUME NEW i \in 1..(Len(CmArgs) - 1)
        PROVE  nodes[i] = parseNode(CmArgs[i + 1]) /\ i + 1 \in 2..Len(CmArgs)
    BY <2>1
  <2>3. DOMAIN nodes = 1..(Len(CmArgs) - 1)
    OBVIOUS
  <2> HIDE DEF nodes
  <2> QED
    BY <2>2, <2>3
<1> HIDE DEF removed
<1>4. /\ CmArgs' = CmArgs /\ command' = command /\ LineParses' = LineParses /\ cmStart' = cmStart
      /\ \A s : hasSetting(s)' = hasSetting(s)
  BY <1>1, LineKept DEF KeepLine
<1>5. ~Is({"remove", "rm"})' /\ ~Is({"add"})' /\ ~Is({"import"})' /\ ~Is({"list"})' /\ ~Is({"monitor"})'
  BY <1>1, <1>4 DEF Is
<1>6. Is({"remove", "rm", "rmgraph"})'
  BY <1>1, <1>4 DEF Is, CmInv, Ready
<1>7. hasSetting("file")' \/ ChangesExact'
  <2>1. CASE cmContent = cmStart
    <3>1. Added' = {} /\ Gone' = cmContent \ cmContent'
      BY <1>2, <1>4, <2>1 DEF Gone, Added
    <3>2. \A token : parseNode(token)' = parseNode(token)
      BY <1>1, NodesKept DEF KeepLine
    <3>3. \A st \in Gone' : \E i \in 2..Len(CmArgs') : parseNode(CmArgs[i])' = st.c
      BY <1>2, <1>3, <1>4, <3>1, <3>2
    <3> QED
      BY <1>5, <1>6, <3>1, <3>3 DEF ChangesExact
  <2>2. CASE hasSetting("file")
    BY <1>4, <2>2
  <2> QED
    BY <1>1, <2>1, <2>2 DEF CmInv, Untouched
<1>8. CommandsExact'
  BY <1>5, <1>7 DEF CommandsExact, ListExact
<1> QED
  BY <1>1, <1>8 DEF CmInv, CmPcs, KeepLine
-----------------------------------------------------------------------------
\* What a monitor that goes on has printed is what the property asks for.
LEMMA MonitorGoesOn ==
  ASSUME KeepLine, cmLine \in CmLines, Ready, CmArgs # <<>>, command = "monitor", cmPc' = "monitor", Monitored'
  PROVE  CmInv'
<1>1. /\ CmArgs' = CmArgs /\ command' = command /\ cmLine' = cmLine /\ Ready'
  BY LineKept DEF KeepLine, Ready
<1>2. Is({"monitor"})' /\ ~Is({"list"})'
  BY <1>1 DEF Is, Ready
<1>3. CommandsExact'
  BY <1>2 DEF CommandsExact, ListExact
<1> QED
  BY <1>1, <1>3 DEF CmInv, CmPcs

LEMMA Monitors ==
  ASSUME CmInv, cmMonitor
  PROVE  CmInv'
<1>1. /\ cmPc = "command" /\ KeepLine /\ command = "monitor" /\ cmPc' = "monitor" /\ cmContent' = cmContent /\ cmRemote
      /\ cmLine \in CmLines /\ Ready /\ CmArgs # <<>> /\ Untouched
  BY DEF cmMonitor, InCommand, CmInv
<1>2. cmContent' = cmStart'
  BY <1>1 DEF Untouched, KeepLine
<1>3. Monitored'
  BY <1>2 DEF Monitored, Gone, Added
<1> QED
  BY <1>1, <1>3, MonitorGoesOn

LEMMA SignalsAdded ==
  ASSUME CmInv, NEW st \in CmSignals, slotStatementAdded(st)
  PROVE  CmInv'
<1>1. /\ cmPc = "monitor" /\ KeepLine /\ cmPc' = "monitor" /\ cmContent' = cmContent \cup {st}
      /\ cmLine \in CmLines /\ Ready /\ CmArgs # <<>> /\ command = "monitor" /\ Monitored
      /\ cmOutput \subseteq cmOutput'
  BY DEF slotStatementAdded, CmInv
<1>2. AskedFor(st) => st \in cmOutput'
  BY <1>1, AskedMatches DEF slotStatementAdded
<1>3. Gone' \subseteq Gone /\ Added' \subseteq Added \cup {st}
  BY <1>1 DEF Gone, Added, KeepLine
<1>4. \A x : AskedFor(x)' <=> AskedFor(x)
  BY <1>1, NodesKept DEF KeepLine
<1>5. Monitored'
  BY <1>1, <1>2, <1>3, <1>4 DEF Monitored
<1> QED
  BY <1>1, <1>5, MonitorGoesOn

\* A statement that matches two patterns ties them together.
LEMMA PatternsMeet ==
  ASSUME NEW st, NEW one, NEW other, StatementMatches(st, one), StatementMatches(st, other)
  PROVE  RemovedMatches(one, other)
<1>1. \A n, a, b : NodeMatches(n, a) /\ NodeMatches(n, b) => EitherMatches(a, b)
  BY DEF NodeMatches, EitherMatches, NodeEquals, IsEmpty
<1> QED
  BY <1>1 DEF StatementMatches, RemovedMatches

LEMMA SignalsRemoved ==
  ASSUME CmInv, NEW template \in CmSignals, slotStatementRemoved(template)
  PROVE  CmInv'
<1>1. /\ cmPc = "monitor" /\ KeepLine /\ cmPc' = "monitor"
      /\ cmContent' = cmContent \ ListStatements(cmContent, template)
      /\ cmLine \in CmLines /\ Ready /\ CmArgs # <<>> /\ command = "monitor" /\ Monitored
      /\ cmOutput \subseteq cmOutput'
  BY DEF slotStatementRemoved, CmInv
<1>2. ASSUME NEW x \in ListStatements(cmContent, template), AskedFor(x)
      PROVE  template \in cmOutput' /\ StatementMatches(x, template)
  <2>1. StatementMatches(x, template) /\ StatementMatches(x, StatementArgument)
    BY <1>1, <1>2, AskedMatches DEF ListStatements
  <2>2. RemovedMatches(template, StatementArgument)
    BY <2>1, PatternsMeet
  <2> QED
    BY <2>1, <2>2 DEF slotStatementRemoved
<1>3. Gone' \subseteq Gone \cup ListStatements(cmContent, template) /\ Added' \subseteq Added
  BY <1>1 DEF Gone, Added, KeepLine
<1>4. \A x : AskedFor(x)' <=> AskedFor(x)
  BY <1>1, NodesKept DEF KeepLine
<1>5. Monitored'
  BY <1>1, <1>2, <1>3, <1>4 DEF Monitored
<1> QED
  BY <1>1, <1>5, MonitorGoesOn

LEMMA MonitorStops ==
  ASSUME CmInv, stopMonitoring
  PROVE  CmInv'
<1>1. /\ cmPc = "monitor" /\ KeepLine /\ cmPc' = "done" /\ UNCHANGED <<cmContent, cmRemote, cmOutput>>
      /\ cmLine \in CmLines /\ command = "monitor" /\ Monitored
  BY DEF stopMonitoring, CmReturn, SameModel, CmInv
<1>2. command' = command
  BY <1>1, LineKept DEF KeepLine
<1>3. ~Is({"list"})'
  BY <1>1, <1>2 DEF Is
<1>4. Monitored'
  <2>1. Gone' = Gone /\ Added' = Added
    BY <1>1 DEF Gone, Added, KeepLine
  <2>2. \A x : AskedFor(x)' <=> AskedFor(x)
    BY <1>1, NodesKept DEF KeepLine
  <2> QED
    BY <1>1, <2>1, <2>2 DEF Monitored
<1>5. CommandsExact'
  <2>1. ~hasSetting("file")' /\ ~Is({"monitor"})' => ChangesExact'
    <3>1. hasSetting("file")' = hasSetting("file")
      BY <1>1, LineKept DEF KeepLine
    <3>2. Is({"monitor"})'
      BY <1>1, LineKept DEF KeepLine, Is, CmInv, Ready
    <3> QED
      BY <3>2
  <2> QED
    BY <1>3, <1>4, <2>1 DEF CommandsExact, ListExact
<1> QED
  BY <1>1, <1>5 DEF CmInv, CmPcs, KeepLine

LEMMA CmStutters ==
  ASSUME CmInv, UNCHANGED cmVars
  PROVE  CmInv'
<1>1. /\ CmArgs' = CmArgs /\ command' = command /\ LineParses' = LineParses
      /\ \A s : hasSetting(s)' = hasSetting(s) /\ optionSet(s)' = optionSet(s)
      /\ OtherSetting' = OtherSetting /\ MixedParameters' = MixedParameters
      /\ UNCHANGED <<cmLine, cmPc, cmStart, cmContent, cmRemote, cmTodo, cmGraph, cmOutput, cmStatus>>
  BY LineKept DEF cmVars
<1>2. (\A names : Is(names)' <=> Is(names)) /\ (Ready' <=> Ready) /\ (Executed' <=> Executed) /\ (Untouched' <=> Untouched)
  BY <1>1 DEF Is, Ready, Executed, Untouched
<1>3. Imported' = Imported /\ (\A st : ImportAs(st)' = ImportAs(st)) /\ Gone' = Gone /\ Added' = Added
  BY <1>1 DEF Imported, ImportAs, Gone, Added
<1>4. Importing' <=> Importing
  BY <1>1, <1>3 DEF Importing
<1>5. cmPc # "fileimport" => /\ ChangesExact' <=> ChangesExact
                             /\ ListExact' <=> ListExact
                             /\ Monitored' <=> Monitored
  <2> SUFFICES ASSUME cmPc # "fileimport"
               PROVE  /\ ChangesExact' <=> ChangesExact
                      /\ ListExact' <=> ListExact
                      /\ Monitored' <=> Monitored
    OBVIOUS
  <2>1. (\A token : parseNode(token)' = parseNode(token)) /\ (\A st : AskedFor(st)' <=> AskedFor(st))
    BY <1>1, NodesKept
  <2>2. ListExact' <=> ListExact
    BY <1>1, <1>2, <2>1 DEF ListExact
  <2>3. Monitored' <=> Monitored
    BY <1>1, <1>3, <2>1 DEF Monitored
  <2>4. ChangesExact' <=> ChangesExact
    BY <1>1, <1>2, <1>3, <2>1 DEF ChangesExact
  <2> QED
    BY <2>2, <2>3, <2>4
<1>6. CommandsExact'
  BY <1>1, <1>2, <1>5 DEF CommandsExact, CmInv
<1> QED
  BY <1>1, <1>2, <1>4, <1>5, <1>6 DEF CmInv

\* In every behaviour of the program and for every command line it is called with, every content
\* of the store and every file, a command has changed exactly what its arguments name when the
\* program ends, a list has printed only what was asked for, and a monitor has printed every
\* change of a statement its pattern allows (main, importFile, ModelMonitor).
THEOREM CommandsStayExact == CmInit /\ [][CmNext]_cmVars => []CommandsExact
<1>1. CmInv /\ [CmNext]_cmVars => CmInv'
  <2> SUFFICES ASSUME CmInv, [CmNext]_cmVars PROVE CmInv'
    OBVIOUS
  <2>1. CASE UNCHANGED cmVars
    BY <2>1, CmStutters
  <2>2. CASE CmNext
    <3>1. CASE cmParse \/ cmCreateModel \/ importOne \/ importEnds
      BY <3>1, CmParses, CmCreates, ImportsOne, ImportEnds
    <3>2. CASE cmImport \/ cmExport \/ cmQuery \/ cmRmgraph \/ cmRefuse
      BY <3>2, Imports, Exports, Queries, RemovesGraphs, Refuses
    <3>3. CASE cmList \/ cmAdd \/ cmRemove \/ cmMonitor
      BY <3>3, Lists, Adds, Removes, Monitors
    <3>4. CASE stopMonitoring \/ \E st \in CmSignals : slotStatementAdded(st) \/ slotStatementRemoved(st)
      BY <3>4, SignalsAdded, SignalsRemoved, MonitorStops
    <3> QED
      BY <2>2, <3>1, <3>2, <3>3, <3>4 DEF CmNext
  <2> QED
    BY <2>1, <2>2
<1>2. CmInv => CommandsExact
  BY DEF CmInv
<1> QED
  BY <1>1, <1>2, CmBegins, PTL
-----------------------------------------------------------------------------
(***************************************************************************)
(* Plugins.  What a name stands for is decided by the files of all the     *)
(* folders, the stubs know only those that have been read: StubsExact says *)
(* it of the places before the next one.                                   *)
(***************************************************************************)
Stub(t, n) == plStubs[t][n]

\* A plugin object is the one of the stub's own library.
StubsOK ==
  /\ DOMAIN plStubs = ToSet(ServiceTypes)
  /\ \A t \in PluginTypes : \A n \in DOMAIN plStubs[t] :
       /\ Stub(t, n) = [name |-> Stub(t, n).name, lib |-> Stub(t, n).lib, plugin |-> Stub(t, n).plugin]
       /\ Stub(t, n).lib # None
       /\ Stub(t, n).plugin # None =>
            Stub(t, n).plugin = Stub(t, n).lib /\ LibraryAt(Stub(t, n).lib).type \in PluginTypes

PlacesRead(t) == {p \in PlacesOf(t) : Before(p, plNext)}
IsFirst(p, t, n) == p \in PlacesNamed(t, n) /\ \A q \in PlacesNamed(t, n) : ~Before(q, p)

StubsExact ==
  \A t \in PluginTypes :
    /\ DOMAIN plStubs[t] = DOMAIN plCustom[t] \cup {StubAt(p).name : p \in PlacesRead(t)}
    /\ \A n \in DOMAIN plCustom[t] : Stub(t, n).lib = plCustom[t][n]
    /\ \A n \in DOMAIN plStubs[t] \ DOMAIN plCustom[t] :
         \E p \in PlacesRead(t) : IsFirst(p, t, n) /\ Stub(t, n).lib = StubAt(p).lib

SearchOK ==
  /\ plWorld \in PlWorlds /\ plLoaded \in BOOLEAN
  /\ IsSequence(plFrom) /\ IsSequence(plSearch.paths)
  /\ plNext \in Nat \X Nat
  /\ IF plNext = <<0, 0>> THEN plFrom = <<>> /\ ~plLoaded ELSE plNext[1] >= 1 /\ plNext[2] >= 1
  /\ plNext # <<0, 0>> /\ ~plLoaded => plAnswer.call = "loading"
  /\ plLoaded => plNext[1] \notin DOMAIN plFrom
  /\ DOMAIN plCustom = PluginTypes

PlInv == SearchOK /\ StubsOK /\ StubsExact

LEMMA PluginServices == PluginTypes \subseteq ToSet(ServiceTypes)
BY DEF PluginTypes, ServiceTypes, ToSet

\* Nothing of the search depends on what the stubs are.
LEMMA PlacesStay ==
  ASSUME plWorld' = plWorld, plFrom' = plFrom
  PROVE  /\ Places' = Places
         /\ \A p : StubAt(p)' = StubAt(p)
         /\ \A t : PlacesOf(t)' = PlacesOf(t)
         /\ \A lib : LibraryAt(lib)' = LibraryAt(lib)
<1>1. \A dir : FilesIn(dir)' = FilesIn(dir)
  BY DEF FilesIn
<1>2. \A lib, dirs : findLibraryPath(lib, dirs)' = findLibraryPath(lib, dirs)
  BY DEF findLibraryPath
<1>3. \A ini, dir : findPluginLib(ini, dir)' = findPluginLib(ini, dir)
  BY <1>2 DEF findPluginLib
<1>4. \A file, dir : StubOf(file, dir)' = StubOf(file, dir) /\ Usable(file, dir)' = Usable(file, dir)
  BY <1>3 DEF StubOf, Usable
<1>5. Places' = Places
  BY <1>1 DEF Places
<1>6. \A p : StubAt(p)' = StubAt(p)
  BY <1>1, <1>4 DEF StubAt
<1>7. \A t : PlacesOf(t)' = PlacesOf(t)
  BY <1>1, <1>4, <1>5 DEF PlacesOf
<1>8. \A lib : LibraryAt(lib)' = LibraryAt(lib)
  BY DEF LibraryAt
<1> QED
  BY <1>5, <1>6, <1>7, <1>8

LEMMA SequenceIsOne == ASSUME NEW S, NEW s \in Seq(S) PROVE IsSequence(s)
BY DEF IsSequence

LEMMA SequenceOfPlaces ==
  ASSUME NEW s, IsSequence(s) PROVE Len(s) \in Nat /\ DOMAIN s = 1..Len(s)
BY DEF IsSequence

LEMMA PlInitially == PlInit => PlInv
<1> SUFFICES ASSUME PlInit PROVE PlInv
  OBVIOUS
<1>1. SearchOK
  <2>1. IsSequence(<<>>)
    BY SequenceIsOne, <<>> \in Seq({})
  <2> QED
    BY <2>1 DEF PlInit, SearchOK
<1>2. StubsOK
  BY PluginServices DEF PlInit, StubsOK, NoStubs
<1>3. StubsExact
  <2>1. Places = {}
    BY DEF PlInit, Places
  <2>2. \A t \in PluginTypes : PlacesRead(t) = {}
    BY <2>1 DEF PlacesRead, PlacesOf
  <2> QED
    BY <2>2, PluginServices DEF PlInit, StubsExact, NoStubs
<1> QED
  BY <1>1, <1>2, <1>3 DEF PlInv

\* Loading a plugin leaves the library of a stub, and whatever else is known of it.
LEMMA StubsStay ==
  ASSUME PlInv, UNCHANGED <<plWorld, plFrom, plNext, plCustom>>,
         DOMAIN plStubs' = DOMAIN plStubs,
         \A t \in PluginTypes :
           /\ DOMAIN plStubs'[t] = DOMAIN plStubs[t]
           /\ \A n \in DOMAIN plStubs[t] : plStubs'[t][n] \in {Stub(t, n), StubPlugin(Stub(t, n)).stub}
  PROVE  /\ StubsOK' /\ StubsExact'
         /\ \A t \in PluginTypes : \A n \in DOMAIN plStubs[t] : plStubs'[t][n].lib = Stub(t, n).lib
<1>1. ASSUME NEW t \in PluginTypes, NEW n \in DOMAIN plStubs[t]
      PROVE  LET s == StubPlugin(Stub(t, n)).stub IN
             /\ s = [name |-> s.name, lib |-> s.lib, plugin |-> s.plugin]
             /\ s.lib = Stub(t, n).lib
             /\ s.plugin # None => s.plugin = s.lib /\ LibraryAt(s.lib).type \in PluginTypes
  <2>1. /\ Stub(t, n) = [name |-> Stub(t, n).name, lib |-> Stub(t, n).lib, plugin |-> Stub(t, n).plugin]
        /\ Stub(t, n).plugin # None =>
             Stub(t, n).plugin = Stub(t, n).lib /\ LibraryAt(Stub(t, n).lib).type \in PluginTypes
    BY <1>1 DEF PlInv, StubsOK
  <2>2. CASE Stub(t, n).plugin # None \/ LibraryAt(Stub(t, n).lib).type \notin PluginTypes
    BY <2>1, <2>2 DEF StubPlugin
  <2>3. CASE Stub(t, n).plugin = None /\ LibraryAt(Stub(t, n).lib).type \in PluginTypes
    BY <2>1, <2>3 DEF StubPlugin
  <2> QED
    BY <2>2, <2>3
<1>2. \A t \in PluginTypes : \A n \in DOMAIN plStubs[t] : plStubs'[t][n].lib = Stub(t, n).lib
  BY <1>1
<1>3. StubsOK'
  <2>1. ASSUME NEW t \in PluginTypes, NEW n \in DOMAIN plStubs'[t]
        PROVE  /\ plStubs'[t][n] = [name |-> plStubs'[t][n].name, lib |-> plStubs'[t][n].lib,
                                    plugin |-> plStubs'[t][n].plugin]
               /\ plStubs'[t][n].lib # None
               /\ plStubs'[t][n].plugin # None =>
                    plStubs'[t][n].plugin = plStubs'[t][n].lib /\ LibraryAt(plStubs'[t][n].lib).type \in PluginTypes
    <3>1. n \in DOMAIN plStubs[t]
      BY <2>1
    <3>2. CASE plStubs'[t][n] = Stub(t, n)
      BY <3>1, <3>2 DEF PlInv, StubsOK
    <3>3. CASE plStubs'[t][n] = StubPlugin(Stub(t, n)).stub
      <4>1. Stub(t, n).lib # None
        BY <3>1 DEF PlInv, StubsOK
      <4> QED
        BY <3>1, <3>3, <4>1, <1>1
    <3> QED
      BY <3>1, <3>2, <3>3
  <2> QED
    BY <2>1, PlacesStay DEF PlInv, StubsOK, Stub
<1>4. StubsExact'
  <2>1. Places' = Places /\ (\A p : StubAt(p)' = StubAt(p)) /\ (\A t : PlacesOf(t)' = PlacesOf(t))
    BY PlacesStay
  <2>2. \A t : PlacesRead(t)' = PlacesRead(t)
    BY <2>1 DEF PlacesRead
  <2>3. \A p, t, n : IsFirst(p, t, n)' = IsFirst(p, t, n)
    BY <2>1 DEF IsFirst, PlacesNamed
  <2>4. StubsExact
    BY DEF PlInv
  <2>5. ASSUME NEW t \in PluginTypes
        PROVE  /\ DOMAIN plStubs'[t] = DOMAIN plCustom[t] \cup {StubAt(p).name : p \in PlacesRead(t)}
               /\ \A n \in DOMAIN plCustom[t] : plStubs'[t][n].lib = plCustom[t][n]
               /\ \A n \in DOMAIN plStubs'[t] \ DOMAIN plCustom[t] :
                    \E p \in PlacesRead(t) : IsFirst(p, t, n) /\ plStubs'[t][n].lib = StubAt(p).lib
    BY <2>4, <2>5, <1>2 DEF StubsExact
  <2>6. \A t : {StubAt(p)'.name : p \in PlacesRead(t)'} = {StubAt(p).name : p \in PlacesRead(t)}
    BY <2>1, <2>2
  <2> QED
    BY <2>1, <2>2, <2>3, <2>5, <2>6 DEF StubsExact, Stub
<1> QED
  BY <1>2, <1>3, <1>4

\* When all has been read, a stub is what its name stands for.
LEMMA StubsAreNamed ==
  ASSUME PlInv, plLoaded, NEW t \in PluginTypes
  PROVE  /\ NamesOf(t) = DOMAIN plStubs[t]
         /\ \A n \in DOMAIN plStubs[t] : NamedPlugin(t, n) = Stub(t, n).lib /\ Stub(t, n).lib # None
         /\ \A n : n \notin DOMAIN plStubs[t] => NamedPlugin(t, n) = None
         /\ DOMAIN plCustom[t] \subseteq DOMAIN plStubs[t]
<1>1. ASSUME NEW p \in Places PROVE Before(p, plNext) /\ p[1] \in Nat /\ p[2] \in Nat
  <2>1. Len(plFrom) \in Nat /\ DOMAIN plFrom = 1..Len(plFrom)
    BY SequenceOfPlaces DEF PlInv, SearchOK
  <2>2. PICK i \in DOMAIN plFrom : p \in {i} \X DOMAIN FilesIn(plFrom[i])
    BY DEF Places
  <2>3. IsSequence(FilesIn(plFrom[i]))
    <3>1. IsSequence(<<>>)
      BY SequenceIsOne, <<>> \in Seq({})
    <3> QED
      BY <3>1, PlWorldsAssumption DEF PlInv, SearchOK, FilesIn
  <2>4. p[1] = i /\ p[2] \in Nat
    BY <2>2, <2>3, SequenceOfPlaces
  <2>5. plNext[1] \in Nat /\ plNext[1] >= 1 /\ plNext[1] \notin 1..Len(plFrom)
    BY <2>1 DEF PlInv, SearchOK
  <2> QED
    BY <2>1, <2>4, <2>5 DEF Before
<1>2. PlacesRead(t) = PlacesOf(t)
  BY <1>1 DEF PlacesRead, PlacesOf
<1>3. NamesOf(t) = DOMAIN plStubs[t] /\ DOMAIN plCustom[t] \subseteq DOMAIN plStubs[t]
  BY <1>2 DEF PlInv, StubsExact, NamesOf
<1>4. ASSUME NEW n \in DOMAIN plStubs[t] PROVE NamedPlugin(t, n) = Stub(t, n).lib /\ Stub(t, n).lib # None
  <2>1. Stub(t, n).lib # None
    BY DEF PlInv, StubsOK
  <2>2. CASE n \in DOMAIN plCustom[t]
    BY <2>1, <2>2 DEF PlInv, StubsExact, NamedPlugin
  <2>3. CASE n \notin DOMAIN plCustom[t]
    <3>1. PICK p \in PlacesRead(t) : IsFirst(p, t, n) /\ Stub(t, n).lib = StubAt(p).lib
      BY <2>3 DEF PlInv, StubsExact
    <3>2. First(PlacesNamed(t, n)) \in PlacesNamed(t, n)
          /\ \A q \in PlacesNamed(t, n) : ~Before(q, First(PlacesNamed(t, n)))
      BY <3>1 DEF First, IsFirst
    <3>3. \A q \in PlacesNamed(t, n) : q \in Places
      BY DEF PlacesNamed, PlacesOf
    <3>4. ASSUME NEW p1 \in Places, NEW p2 \in Places, ~Before(p1, p2), ~Before(p2, p1) PROVE p1 = p2
      <4>1. p1[1] \in Nat /\ p1[2] \in Nat /\ p2[1] \in Nat /\ p2[2] \in Nat
        BY <1>1
      <4>2. p1[1] = p2[1] /\ p1[2] = p2[2]
        BY <3>4, <4>1 DEF Before
      <4>3. p1 = <<p1[1], p1[2]>> /\ p2 = <<p2[1], p2[2]>>
        BY DEF Places
      <4> QED
        BY <4>2, <4>3
    <3>5. p = First(PlacesNamed(t, n))
      <4>1. p \in PlacesNamed(t, n)
        BY <3>1 DEF IsFirst
      <4>2. ~Before(First(PlacesNamed(t, n)), p) /\ ~Before(p, First(PlacesNamed(t, n)))
        BY <3>1, <3>2, <4>1 DEF IsFirst
      <4> QED
        BY <3>2, <3>3, <3>4, <4>1, <4>2
    <3> QED
      BY <2>1, <2>3, <3>1, <3>5 DEF NamedPlugin, IsFirst
  <2> QED
    BY <2>2, <2>3
<1>5. ASSUME NEW n, n \notin DOMAIN plStubs[t] PROVE NamedPlugin(t, n) = None
  <2>1. n \notin DOMAIN plCustom[t]
    BY <1>3, <1>5
  <2>2. PlacesNamed(t, n) = {}
    BY <1>2, <1>5 DEF PlInv, StubsExact, PlacesNamed
  <2> QED
    BY <2>1, <2>2 DEF NamedPlugin
<1> QED
  BY <1>3, <1>4, <1>5

\* What plugin() of a stub gives a caller who casts it to the type he asks for
LEMMA PluginOfStub ==
  ASSUME PlInv, NEW t \in PluginTypes, NEW n \in DOMAIN plStubs[t]
  PROVE  /\ PluginOf(plStubs, t, n) \in {None, Stub(t, n).lib}
         /\ PluginOf(plStubs, t, n) # None => LibraryAt(Stub(t, n).lib).type = t
         /\ LibraryAt(Stub(t, n).lib).type = t /\ LibraryAt(Stub(t, n).lib).available =>
              PluginOf(plStubs, t, n) = Stub(t, n).lib
<1>1. /\ Stub(t, n).lib # None
      /\ Stub(t, n).plugin # None =>
           Stub(t, n).plugin = Stub(t, n).lib /\ LibraryAt(Stub(t, n).lib).type \in PluginTypes
  BY DEF PlInv, StubsOK
<1>2. LET given == StubPlugin(Stub(t, n)).plugin IN
      /\ given \in {None, Stub(t, n).lib}
      /\ LibraryAt(Stub(t, n).lib).type = t /\ LibraryAt(Stub(t, n).lib).available => given = Stub(t, n).lib
  BY <1>1 DEF StubPlugin
<1> QED
  BY <1>1, <1>2 DEF PluginOf, CastTo, Stub

\* What the answers are measured by, as the stubs have it
KnownNames ==
  plLoaded =>
    \A t \in PluginTypes :
      /\ \A n \in DOMAIN plStubs[t] : NamedPlugin(t, n) = Stub(t, n).lib
      /\ \A n : n \notin DOMAIN plStubs[t] => NamedPlugin(t, n) = None
      /\ MayGive(t) = {p \in {Stub(t, n).lib : n \in DOMAIN plStubs[t]} : LibraryAt(p).type = t}

LEMMA NamesAreKnown == PlInv => KnownNames
<1> SUFFICES ASSUME PlInv, plLoaded, NEW t \in PluginTypes
             PROVE  /\ \A n \in DOMAIN plStubs[t] : NamedPlugin(t, n) = Stub(t, n).lib
                    /\ \A n : n \notin DOMAIN plStubs[t] => NamedPlugin(t, n) = None
                    /\ MayGive(t) = {p \in {Stub(t, n).lib : n \in DOMAIN plStubs[t]} : LibraryAt(p).type = t}
  BY DEF KnownNames
<1>1. {NamedPlugin(t, n) : n \in NamesOf(t)} = {Stub(t, n).lib : n \in DOMAIN plStubs[t]}
  BY StubsAreNamed
<1> QED
  BY <1>1, StubsAreNamed DEF MayGive

LEMMA NamesKnownNext == PlInv' => KnownNames'
BY NamesAreKnown, PTL

LEMMA LookupAnswers ==
  ASSUME PlInv, Lookup, UNCHANGED <<plSearch, plCustom>>,
         NEW t \in PluginTypes, NEW names, plStubs' = Touched(plStubs, t, names)
  PROVE  /\ PlInv'
         /\ \A n \in DOMAIN plStubs[t] : NamedPlugin(t, n)' = Stub(t, n).lib
         /\ \A n : n \notin DOMAIN plStubs[t] => NamedPlugin(t, n)' = None
         /\ MayGive(t)' = {p \in {Stub(t, n).lib : n \in DOMAIN plStubs[t]} : LibraryAt(p).type = t}
         /\ MustGive(t)' = {p \in {Stub(t, n).lib : n \in DOMAIN plStubs[t]} :
                              LibraryAt(p).type = t /\ LibraryAt(p).available}
         /\ \A lib : LibraryAt(lib)' = LibraryAt(lib)
<1>1. UNCHANGED <<plWorld, plFrom, plNext, plCustom, plLoaded>> /\ plLoaded
  BY DEF Lookup, PlCall
<1>2. DOMAIN plStubs' = DOMAIN plStubs /\ PluginTypes \subseteq DOMAIN plStubs
  BY PluginServices DEF Touched, PlInv, StubsOK
<1>3. ASSUME NEW u \in PluginTypes
      PROVE  /\ DOMAIN plStubs'[u] = DOMAIN plStubs[u]
             /\ \A n \in DOMAIN plStubs[u] : plStubs'[u][n] \in {Stub(u, n), StubPlugin(Stub(u, n)).stub}
  BY <1>2 DEF Touched, Stub
<1>4. /\ StubsOK' /\ StubsExact'
      /\ \A u \in PluginTypes : \A n \in DOMAIN plStubs[u] : plStubs'[u][n].lib = Stub(u, n).lib
  BY <1>1, <1>2, <1>3, StubsStay
<1>5. SearchOK'
  BY <1>1 DEF PlInv, SearchOK
<1>6. PlInv'
  BY <1>4, <1>5 DEF PlInv
<1>7. KnownNames'
  BY <1>6, NamesKnownNext
<1>8. \A lib : LibraryAt(lib)' = LibraryAt(lib)
  BY <1>1, PlacesStay
<1>9. /\ \A n \in DOMAIN plStubs'[t] : NamedPlugin(t, n)' = plStubs'[t][n].lib
      /\ \A n : n \notin DOMAIN plStubs'[t] => NamedPlugin(t, n)' = None
      /\ MayGive(t)' = {p \in {plStubs'[t][n].lib : n \in DOMAIN plStubs'[t]} : LibraryAt(p)'.type = t}
  BY <1>1, <1>7 DEF KnownNames, Stub
<1>10. MayGive(t)' = {p \in {Stub(t, n).lib : n \in DOMAIN plStubs[t]} : LibraryAt(p).type = t}
  BY <1>3, <1>4, <1>8, <1>9
<1>11. MustGive(t)' = {p \in MayGive(t)' : LibraryAt(p).available}
  BY <1>8 DEF MustGive
<1> QED
  BY <1>3, <1>4, <1>6, <1>8, <1>9, <1>10, <1>11

LEMMA LibrariesOfPlugins ==
  ASSUME PlInv, NEW p, LibraryAt(p).type \in PluginTypes PROVE p \in DOMAIN plWorld.libs /\ p # None
BY PlWorldsAssumption DEF PlInv, SearchOK, LibraryAt, PluginTypes, None

LEMMA ByNameFound ==
  ASSUME PlInv, NEW t \in PluginTypes, NEW name, discoverByName(t, name)
  PROVE  PlInv' /\ PluginsFound'
<1>0. PICK found : found = NameFound(plStubs, t, name)
  OBVIOUS
<1>1. plStubs' = Touched(plStubs, t, {found}) /\ Lookup /\ UNCHANGED <<plSearch, plCustom>>
      /\ plAnswer' = [call |-> "byName", type |-> t, name |-> name, plugin |-> ByName(plStubs, t, name)]
  BY <1>0 DEF discoverByName
<1>2. /\ PlInv'
      /\ \A n \in DOMAIN plStubs[t] : NamedPlugin(t, n)' = Stub(t, n).lib
      /\ \A n : n \notin DOMAIN plStubs[t] => NamedPlugin(t, n)' = None
      /\ MustGive(t)' = {p \in {Stub(t, n).lib : n \in DOMAIN plStubs[t]} :
                              LibraryAt(p).type = t /\ LibraryAt(p).available}
  BY <1>1, LookupAnswers
<1>3. \A n \in DOMAIN plStubs[t] : Stub(t, n).lib # None
  BY DEF PlInv, StubsOK
<1> DEFINE named == IF NamedPlugin(t, name)' # None \/ Last(name) = NameSuffix[t]
                    THEN NamedPlugin(t, name)' ELSE NamedPlugin(t, Append(name, NameSuffix[t]))'
<1>4. named = NamedPlugin(t, found)'
  <2>1. NamedPlugin(t, name)' # None <=> name \in DOMAIN plStubs[t]
    BY <1>2, <1>3
  <2> QED
    BY <1>0, <2>1 DEF NameFound
<1>5. IF named \in MustGive(t)' THEN plAnswer'.plugin = named ELSE plAnswer'.plugin \in {None, named}
  <2>1. CASE found \in DOMAIN plStubs[t]
    <3>1. plAnswer'.plugin = PluginOf(plStubs, t, found) /\ named = Stub(t, found).lib
      BY <1>0, <1>1, <1>2, <1>4, <2>1 DEF ByName
    <3>2. named \in MustGive(t)' => LibraryAt(named).type = t /\ LibraryAt(named).available
      BY <1>2
    <3> QED
      BY <2>1, <3>1, <3>2, PluginOfStub
  <2>2. CASE found \notin DOMAIN plStubs[t]
    <3>1. plAnswer'.plugin = None /\ named = None
      BY <1>0, <1>1, <1>2, <1>4, <2>2 DEF ByName
    <3>2. named \notin MustGive(t)'
      BY <1>2, <1>3, <3>1
    <3> QED
      BY <3>1, <3>2
  <2> QED
    BY <2>1, <2>2
<1>6. NamedAsAsked'
  BY <1>1, <1>5 DEF NamedAsAsked
<1>7. FittingAsAsked' /\ AllAsAsked' /\ CustomIsListed' /\ ModelAsChosen'
  BY <1>1 DEF FittingAsAsked, AllAsAsked, CustomIsListed, ModelAsChosen
<1> QED
  BY <1>2, <1>6, <1>7 DEF PluginsFound

LEMMA FittingFound ==
  ASSUME PlInv, NEW t \in PluginTypes, NEW suitable, NEW wanted, discoverFitting(t, suitable, wanted),
         suitable = {p \in DOMAIN plWorld.libs : Suits(t, wanted, p)}
  PROVE  PlInv' /\ PluginsFound'
<1> DEFINE fitting == {n \in DOMAIN plStubs[t] : PluginOf(plStubs, t, n) \in suitable}
<1>0. Lookup /\ UNCHANGED <<plSearch, plCustom>> /\ \E names : plStubs' = Touched(plStubs, t, names)
  BY DEF discoverFitting
<1>1. PICK plugin :
        /\ plAnswer' = [call |-> "fitting", type |-> t, wanted |-> wanted, plugin |-> plugin]
        /\ \/ fitting = {} /\ plugin = None
           \/ \E n \in fitting : plugin = PluginOf(plStubs, t, n)
  BY DEF discoverFitting
<1>2. /\ PlInv'
      /\ MayGive(t)' = {p \in {Stub(t, n).lib : n \in DOMAIN plStubs[t]} : LibraryAt(p).type = t}
      /\ MustGive(t)' = {p \in {Stub(t, n).lib : n \in DOMAIN plStubs[t]} :
                              LibraryAt(p).type = t /\ LibraryAt(p).available}
      /\ \A lib : LibraryAt(lib)' = LibraryAt(lib)
  BY <1>0, LookupAnswers
<1>3. \A p : Suits(t, wanted, p)' = Suits(t, wanted, p)
  BY <1>2 DEF Suits, supportsFeatures, supportsSerialization
<1>4. ASSUME NEW p \in MustGive(t)', plugin = None PROVE ~SuitsFully(t, wanted, p)
  <2>1. PICK n \in DOMAIN plStubs[t] : p = Stub(t, n).lib /\ LibraryAt(p).type = t /\ LibraryAt(p).available
    BY <1>2, <1>4
  <2>2. PluginOf(plStubs, t, n) = p /\ p \in DOMAIN plWorld.libs /\ p # None
    BY <2>1, PluginOfStub, LibrariesOfPlugins
  <2>3. CASE fitting = {}
    BY <2>2, <2>3 DEF SuitsFully
  <2>4. CASE \E m \in fitting : plugin = PluginOf(plStubs, t, m)
    BY <1>4, <2>4, PlWorldsAssumption DEF PlInv, SearchOK, None
  <2> QED
    BY <1>1, <2>3, <2>4
<1>5. ASSUME plugin # None
      PROVE  plugin \in MayGive(t)' /\ Suits(t, wanted, plugin)
  <2>1. PICK n \in fitting : plugin = PluginOf(plStubs, t, n)
    BY <1>1, <1>5
  <2>2. plugin = Stub(t, n).lib /\ LibraryAt(plugin).type = t
    BY <1>5, <2>1, PluginOfStub
  <2>3. plugin \in DOMAIN plWorld.libs
    BY <2>2, LibrariesOfPlugins
  <2> QED
    BY <1>2, <2>1, <2>2, <2>3
<1>6. FittingAsAsked'
  <2>1. \A p : SuitsFully(t, wanted, p)' = SuitsFully(t, wanted, p)
    BY <1>2, <1>3 DEF SuitsFully, HasAll
  <2> QED
    BY <1>1, <1>3, <1>4, <1>5, <2>1 DEF FittingAsAsked
<1>7. NamedAsAsked' /\ AllAsAsked' /\ CustomIsListed' /\ ModelAsChosen'
  BY <1>1 DEF NamedAsAsked, AllAsAsked, CustomIsListed, ModelAsChosen
<1> QED
  BY <1>2, <1>6, <1>7 DEF PluginsFound

LEMMA AllFound ==
  ASSUME PlInv, NEW t \in PluginTypes, allPlugins(t) PROVE PlInv' /\ PluginsFound'
<1>1. /\ Lookup /\ UNCHANGED <<plSearch, plCustom>> /\ plStubs' = Touched(plStubs, t, DOMAIN plStubs[t])
      /\ plAnswer' = [call |-> "all", type |-> t,
                      plugins |-> {PluginOf(plStubs, t, n) : n \in DOMAIN plStubs[t]} \ {None}]
  BY DEF allPlugins
<1>2. /\ PlInv'
      /\ MayGive(t)' = {p \in {Stub(t, n).lib : n \in DOMAIN plStubs[t]} : LibraryAt(p).type = t}
      /\ MustGive(t)' = {p \in {Stub(t, n).lib : n \in DOMAIN plStubs[t]} :
                              LibraryAt(p).type = t /\ LibraryAt(p).available}
  BY <1>1, LookupAnswers
<1>3. ASSUME NEW p \in MustGive(t)' PROVE p \in plAnswer'.plugins
  <2>1. PICK n \in DOMAIN plStubs[t] : p = Stub(t, n).lib /\ LibraryAt(p).type = t /\ LibraryAt(p).available
    BY <1>2, <1>3
  <2>2. PluginOf(plStubs, t, n) = p /\ p # None
    BY <2>1, PluginOfStub, LibrariesOfPlugins
  <2> QED
    BY <1>1, <2>2
<1>4. ASSUME NEW p \in plAnswer'.plugins PROVE p \in MayGive(t)'
  <2>1. PICK n \in DOMAIN plStubs[t] : p = PluginOf(plStubs, t, n) /\ p # None
    BY <1>1, <1>4
  <2> QED
    BY <1>2, <2>1, PluginOfStub
<1>5. AllAsAsked'
  BY <1>1, <1>3, <1>4 DEF AllAsAsked
<1>6. NamedAsAsked' /\ FittingAsAsked' /\ CustomIsListed' /\ ModelAsChosen'
  BY <1>1 DEF NamedAsAsked, FittingAsAsked, CustomIsListed, ModelAsChosen
<1> QED
  BY <1>2, <1>5, <1>6 DEF PluginsFound

\* The files of a folder have places from 1 on.
LEMMA PlacesAreNumbered ==
  ASSUME PlInv, NEW p \in Places
  PROVE  /\ p = <<p[1], p[2]>> /\ p[1] \in DOMAIN plFrom /\ p[1] \in Nat /\ p[1] >= 1
         /\ p[2] \in DOMAIN FilesIn(plFrom[p[1]]) /\ p[2] \in Nat /\ p[2] >= 1
<1>1. DOMAIN plFrom = 1..Len(plFrom) /\ Len(plFrom) \in Nat
  BY SequenceOfPlaces DEF PlInv, SearchOK
<1>2. \A dir : LET files == FilesIn(dir) IN DOMAIN files = 1..Len(files) /\ Len(files) \in Nat
  <2>1. IsSequence(<<>>)
    BY SequenceIsOne, <<>> \in Seq({})
  <2>2. \A dir : IsSequence(FilesIn(dir))
    BY <2>1, PlWorldsAssumption DEF PlInv, SearchOK, FilesIn
  <2> QED
    BY <2>2, SequenceOfPlaces
<1>3. PICK i \in DOMAIN plFrom : p \in {i} \X DOMAIN FilesIn(plFrom[i])
  BY DEF Places
<1>4. p = <<p[1], p[2]>> /\ p[1] = i /\ p[2] \in DOMAIN FilesIn(plFrom[i])
  BY <1>3
<1> QED
  BY <1>1, <1>2, <1>3, <1>4

LEMMA NothingAnswered ==
  ASSUME plAnswer'.call \in {"none", "loading"} PROVE PluginsFound'
BY DEF PluginsFound, NamedAsAsked, FittingAsAsked, AllAsAsked, CustomIsListed, ModelAsChosen

LEMMA SearchBegins == ASSUME PlInv, loadAllPlugins PROVE PlInv' /\ PluginsFound'
<1>1. /\ plNext = <<0, 0>> /\ plFrom' = SearchedDirs /\ plNext' = <<1, 1>> /\ plAnswer' = [call |-> "loading"]
      /\ UNCHANGED <<plWorld, plSearch, plLoaded, plStubs, plCustom>>
  BY DEF loadAllPlugins
<1>2. IsSequence(SearchedDirs)
  <2>1. ASSUME NEW s, NEW t, IsSequence(s), IsSequence(t) PROVE IsSequence(s \o t)
    <3> DEFINE S == {s[i] : i \in DOMAIN s} \cup {t[i] : i \in DOMAIN t}
    <3>1. DOMAIN s = 1..Len(s) /\ Len(s) \in Nat /\ DOMAIN t = 1..Len(t) /\ Len(t) \in Nat
          /\ s \in Seq({s[i] : i \in DOMAIN s}) /\ t \in Seq({t[i] : i \in DOMAIN t})
      BY <2>1, SequenceOfPlaces DEF IsSequence
    <3>2. s \in Seq(S) /\ t \in Seq(S)
      <4>1. s = [i \in 1..Len(s) |-> s[i]] /\ t = [i \in 1..Len(t) |-> t[i]]
        BY <3>1
      <4>2. (\A i \in 1..Len(s) : s[i] \in S) /\ \A i \in 1..Len(t) : t[i] \in S
        BY <3>1
      <4> HIDE DEF S
      <4>3. s \in [1..Len(s) -> S] /\ t \in [1..Len(t) -> S]
        BY <4>1, <4>2
      <4> QED
        BY <3>1, <4>3, SeqDef
    <3>3. s \o t \in Seq(S)
      BY <3>2
    <3> QED
      BY <3>3, SequenceIsOne
  <2>2. IsSequence(plSearch.paths) /\ IsSequence(plWorld.dataDirs)
    BY PlWorldsAssumption DEF PlInv, SearchOK
  <2>3. IsSequence(<<>>)
    BY SequenceIsOne, <<>> \in Seq({})
  <2>4. IsSequence(pluginFileSearchPaths)
    <3>1. DOMAIN plWorld.dataDirs = 1..Len(plWorld.dataDirs) /\ Len(plWorld.dataDirs) \in Nat
      BY <2>2, SequenceOfPlaces
    <3> DEFINE S == {pluginFileSearchPaths[i] : i \in DOMAIN pluginFileSearchPaths}
    <3>2. /\ pluginFileSearchPaths = [i \in 1..Len(plWorld.dataDirs) |-> pluginFileSearchPaths[i]]
          /\ \A i \in 1..Len(plWorld.dataDirs) : pluginFileSearchPaths[i] \in S
      BY <3>1 DEF pluginFileSearchPaths
    <3> HIDE DEF S
    <3>3. pluginFileSearchPaths \in Seq(S)
      BY <3>1, <3>2, SeqDef
    <3> QED
      BY <3>3, SequenceIsOne
  <2> QED
    BY <2>1, <2>2, <2>3, <2>4 DEF SearchedDirs
<1>3. SearchOK'
  BY <1>1, <1>2 DEF PlInv, SearchOK
<1>4. StubsOK'
  BY <1>1 DEF PlInv, StubsOK, Stub, LibraryAt
<1>5. StubsExact'
  <2>1. \A t : PlacesRead(t) = {}
    BY <1>1 DEF PlInv, SearchOK, PlacesRead, PlacesOf, Places
  <2>2. ASSUME NEW t, NEW p \in PlacesRead(t)' PROVE FALSE
    <3>1. p \in Places' /\ Before(p, <<1, 1>>)
      BY <1>1 DEF PlacesRead, PlacesOf, Before
    <3>2. DOMAIN plFrom' = 1..Len(plFrom') /\ Len(plFrom') \in Nat
      BY <1>1, <1>2, SequenceOfPlaces
    <3>3. \A dir : LET files == FilesIn(dir)' IN DOMAIN files = 1..Len(files) /\ Len(files) \in Nat
      <4>1. IsSequence(<<>>)
        BY SequenceIsOne, <<>> \in Seq({})
      <4>2. \A dir : IsSequence(FilesIn(dir)')
        BY <1>1, <4>1, PlWorldsAssumption DEF PlInv, SearchOK, FilesIn
      <4> QED
        BY <4>2, SequenceOfPlaces
    <3>4. PICK i \in DOMAIN plFrom' : p \in {i} \X DOMAIN FilesIn(plFrom[i])'
      BY <3>1 DEF Places
    <3> QED
      BY <3>1, <3>2, <3>3, <3>4 DEF Before
  <2>3. \A t : PlacesRead(t)' = {}
    BY <2>2
  <2>4. ASSUME NEW t \in PluginTypes
        PROVE  /\ DOMAIN plStubs[t] = DOMAIN plCustom[t]
               /\ \A n \in DOMAIN plCustom[t] : Stub(t, n).lib = plCustom[t][n]
    BY <2>1, <2>4 DEF PlInv, StubsExact
  <2> QED
    BY <1>1, <2>3, <2>4 DEF StubsExact, Stub
<1> QED
  BY <1>1, <1>3, <1>4, <1>5, NothingAnswered DEF PlInv

LEMMA SearchGoesOn == ASSUME PlInv, loadNext PROVE PlInv' /\ PluginsFound'
<1>1. PICK i \in Nat, j \in Nat : plNext = <<i, j>> /\ i >= 1 /\ j >= 1
  BY DEF PlInv, SearchOK, loadNext
<1>2. /\ plAnswer.call = "loading" /\ ~plLoaded /\ plNext # <<0, 0>>
      /\ UNCHANGED <<plWorld, plSearch, plFrom, plAnswer, plCustom>>
  BY DEF PlInv, SearchOK, loadNext
<1>3. Places' = Places /\ (\A p : StubAt(p)' = StubAt(p)) /\ (\A t : PlacesOf(t)' = PlacesOf(t))
      /\ \A lib : LibraryAt(lib)' = LibraryAt(lib)
  BY <1>2, PlacesStay
<1>4. \A p, t, n : IsFirst(p, t, n)' = IsFirst(p, t, n)
  BY <1>3 DEF IsFirst, PlacesNamed
<1>5. PluginsFound'
  BY <1>2, NothingAnswered
<1>6. ASSUME UNCHANGED plStubs, \A p \in Places : Before(p, plNext)' <=> Before(p, plNext)
      PROVE  StubsOK' /\ StubsExact'
  <2>1. \A t : PlacesRead(t)' = PlacesRead(t)
    BY <1>3, <1>6 DEF PlacesRead, PlacesOf
  <2>2. StubsOK'
    BY <1>3, <1>6 DEF PlInv, StubsOK, Stub
  <2>3. StubsExact'
    BY <1>2, <1>3, <1>4, <1>6, <2>1 DEF PlInv, StubsExact, Stub
  <2> QED
    BY <2>2, <2>3
<1>7. CASE /\ i \in DOMAIN plFrom /\ j \notin DOMAIN FilesIn(plFrom[i])
           /\ plNext' = <<i + 1, 1>> /\ UNCHANGED <<plStubs, plLoaded>>
  <2>1. SearchOK'
    BY <1>1, <1>2, <1>7 DEF PlInv, SearchOK
  <2>2. ASSUME NEW p \in Places PROVE Before(p, plNext)' <=> Before(p, plNext)
    <3>1. /\ p[1] \in Nat /\ p[2] \in Nat /\ p[2] >= 1 /\ p[2] \in DOMAIN FilesIn(plFrom[p[1]])
      BY PlacesAreNumbered
    <3>2. LET files == FilesIn(plFrom[i]) IN DOMAIN files = 1..Len(files) /\ Len(files) \in Nat
      <4>1. IsSequence(<<>>)
        BY SequenceIsOne, <<>> \in Seq({})
      <4>2. IsSequence(FilesIn(plFrom[i]))
        BY <4>1, PlWorldsAssumption DEF PlInv, SearchOK, FilesIn
      <4> QED
        BY <4>2, SequenceOfPlaces
    <3>3. p[1] = i => p[2] < j
      BY <1>1, <1>7, <3>1, <3>2
    <3> QED
      BY <1>1, <1>7, <3>1, <3>3 DEF Before
  <2> QED
    BY <1>5, <1>6, <1>7, <2>1, <2>2 DEF PlInv
<1>8. CASE i \notin DOMAIN plFrom /\ plLoaded' = TRUE /\ UNCHANGED <<plStubs, plNext>>
  <2>1. SearchOK'
    BY <1>1, <1>2, <1>8 DEF PlInv, SearchOK
  <2>2. \A p \in Places : Before(p, plNext)' <=> Before(p, plNext)
    BY <1>8 DEF Before
  <2> QED
    BY <1>5, <1>6, <1>8, <2>1, <2>2 DEF PlInv
<1>9. CASE /\ i \in DOMAIN plFrom /\ j \in DOMAIN FilesIn(plFrom[i])
           /\ plStubs' = loadPlugin(plStubs, FilesIn(plFrom[i])[j], plFrom[i])
           /\ plNext' = <<i, j + 1>> /\ UNCHANGED plLoaded
  <2> DEFINE here == <<i, j>>
             file == FilesIn(plFrom[i])[j]
  <2>1. SearchOK'
    BY <1>1, <1>2, <1>9 DEF PlInv, SearchOK
  <2>2. here \in Places /\ StubAt(here) = StubOf(file, plFrom[i])
    BY <1>1, <1>9 DEF Places, StubAt
  <2>3. \A p \in Places : Before(p, plNext)' <=> Before(p, plNext) \/ p = here
    BY <1>1, <1>9, PlacesAreNumbered DEF Before
  <2>4. ~Before(here, plNext)
    BY <1>1 DEF Before
  <2>5. \A t : here \in PlacesOf(t) <=> Usable(file, plFrom[i]) /\ IsOfType(file, t)
    BY <2>2 DEF PlacesOf
  <2>6. \A t : PlacesRead(t)' = PlacesRead(t) \cup ({here} \cap PlacesOf(t))
    <3>1. \A t : \A p : p \in PlacesOf(t) => p \in Places
      BY DEF PlacesOf
    <3> QED
      BY <1>3, <2>3, <3>1 DEF PlacesRead
  <2> HIDE DEF here, file
  <2> DEFINE stub == StubOf(file, plFrom[i])
  <2>7. /\ stub = [name |-> stub.name, lib |-> stub.lib, plugin |-> None]
        /\ Usable(file, plFrom[i]) => stub.lib # None
    BY DEF StubOf, PluginStub, Usable
  <2>8. DOMAIN plStubs' = DOMAIN plStubs /\ PluginTypes \subseteq DOMAIN plStubs
    BY <1>9, PluginServices DEF file, loadPlugin, PlInv, StubsOK
  <2>9. \A t \in PluginTypes :
          plStubs'[t] = IF here \in PlacesOf(t) /\ stub.name \notin DOMAIN plStubs[t]
                        THEN Insert(plStubs[t], stub.name, stub) ELSE plStubs[t]
    BY <1>9, <2>5, <2>8 DEF file, loadPlugin
  <2> HIDE DEF stub
  <2>10. StubsOK'
    <3>1. ASSUME NEW t \in PluginTypes, NEW n \in DOMAIN plStubs'[t]
          PROVE  \/ n \in DOMAIN plStubs[t] /\ plStubs'[t][n] = Stub(t, n)
                 \/ plStubs'[t][n] = stub /\ Usable(file, plFrom[i])
      BY <2>5, <2>9 DEF Insert, Stub
    <3>2. ASSUME NEW t \in PluginTypes, NEW n \in DOMAIN plStubs'[t]
          PROVE  LET s == plStubs'[t][n] IN
                 /\ s = [name |-> s.name, lib |-> s.lib, plugin |-> s.plugin]
                 /\ s.lib # None
                 /\ s.plugin # None => s.plugin = s.lib /\ LibraryAt(s.lib).type \in PluginTypes
      <4>1. CASE n \in DOMAIN plStubs[t] /\ plStubs'[t][n] = Stub(t, n)
        BY <4>1 DEF PlInv, StubsOK
      <4>2. CASE plStubs'[t][n] = stub /\ Usable(file, plFrom[i])
        BY <2>7, <4>2
      <4> QED
        BY <3>1, <4>1, <4>2
    <3> QED
      BY <1>3, <2>8, <3>2 DEF PlInv, StubsOK, Stub
  <2>11. StubsExact'
    <3>1. ASSUME NEW t \in PluginTypes
          PROVE  /\ DOMAIN plStubs'[t] = DOMAIN plCustom[t] \cup {StubAt(p).name : p \in PlacesRead(t)'}
                 /\ \A n \in DOMAIN plCustom[t] : plStubs'[t][n].lib = plCustom[t][n]
                 /\ \A n \in DOMAIN plStubs'[t] \ DOMAIN plCustom[t] :
                      \E p \in PlacesRead(t)' : IsFirst(p, t, n) /\ plStubs'[t][n].lib = StubAt(p).lib
      <4>1. /\ DOMAIN plStubs[t] = DOMAIN plCustom[t] \cup {StubAt(p).name : p \in PlacesRead(t)}
            /\ \A n \in DOMAIN plCustom[t] : Stub(t, n).lib = plCustom[t][n]
            /\ \A n \in DOMAIN plStubs[t] \ DOMAIN plCustom[t] :
                 \E p \in PlacesRead(t) : IsFirst(p, t, n) /\ Stub(t, n).lib = StubAt(p).lib
        BY DEF PlInv, StubsExact
      <4>2. StubAt(here) = stub
        BY <2>2 DEF stub
      <4>3. CASE here \notin PlacesOf(t)
        BY <2>6, <2>9, <4>1, <4>3 DEF Stub
      <4>4. CASE here \in PlacesOf(t) /\ stub.name \in DOMAIN plStubs[t]
        BY <2>6, <2>9, <4>1, <4>2, <4>4 DEF Stub
      <4>5. CASE here \in PlacesOf(t) /\ stub.name \notin DOMAIN plStubs[t]
        <5>1. /\ DOMAIN plStubs'[t] = DOMAIN plStubs[t] \cup {stub.name}
              /\ plStubs'[t][stub.name] = stub
              /\ \A n \in DOMAIN plStubs[t] : plStubs'[t][n] = Stub(t, n)
          BY <2>9, <4>5 DEF Insert, Stub
        <5>2. PlacesRead(t)' = PlacesRead(t) \cup {here}
          BY <2>6, <4>5
        <5>3. IsFirst(here, t, stub.name)
          <6>1. here \in PlacesNamed(t, stub.name)
            BY <4>2, <4>5 DEF PlacesNamed
          <6>2. ASSUME NEW q \in PlacesNamed(t, stub.name), Before(q, here) PROVE FALSE
            <7>1. q \in PlacesOf(t) /\ StubAt(q).name = stub.name
              BY DEF PlacesNamed
            <7>2. q \in PlacesRead(t)
              BY <1>1, <6>2, <7>1 DEF PlacesRead, here
            <7> QED
              BY <4>1, <4>5, <7>1, <7>2
          <6> QED
            BY <6>1, <6>2 DEF IsFirst
        <5>4. DOMAIN plStubs'[t] = DOMAIN plCustom[t] \cup {StubAt(p).name : p \in PlacesRead(t)'}
          BY <4>1, <4>2, <5>1, <5>2
        <5>5. \A n \in DOMAIN plCustom[t] : plStubs'[t][n].lib = plCustom[t][n]
          BY <4>1, <5>1
        <5>6. ASSUME NEW n \in DOMAIN plStubs'[t] \ DOMAIN plCustom[t]
              PROVE  \E p \in PlacesRead(t)' : IsFirst(p, t, n) /\ plStubs'[t][n].lib = StubAt(p).lib
          <6>1. CASE n = stub.name
            BY <4>2, <5>1, <5>2, <5>3, <6>1
          <6>2. CASE n # stub.name
            BY <4>1, <5>1, <5>2, <6>2
          <6> QED
            BY <6>1, <6>2
        <5> QED
          BY <5>4, <5>5, <5>6
      <4> QED
        BY <4>3, <4>4, <4>5
    <3>2. \A t : {StubAt(p)'.name : p \in PlacesRead(t)'} = {StubAt(p).name : p \in PlacesRead(t)'}
      BY <1>3
    <3> QED
      BY <1>2, <1>3, <1>4, <3>1, <3>2 DEF StubsExact, Stub
  <2> QED
    BY <1>5, <2>1, <2>10, <2>11 DEF PlInv
<1> QED
  BY <1>1, <1>7, <1>8, <1>9 DEF loadNext

\* A call that touches no plugin
LEMMA OthersKeep ==
  ASSUME PlInv, UNCHANGED <<plWorld, plLoaded, plFrom, plNext, plStubs, plCustom>>, IsSequence(plSearch.paths)',
         plAnswer.call # "loading"
  PROVE  PlInv'
<1>1. Places' = Places /\ (\A p : StubAt(p)' = StubAt(p)) /\ (\A t : PlacesOf(t)' = PlacesOf(t))
      /\ \A lib : LibraryAt(lib)' = LibraryAt(lib)
  BY PlacesStay
<1>2. (\A p, t, n : IsFirst(p, t, n)' = IsFirst(p, t, n)) /\ \A t : PlacesRead(t)' = PlacesRead(t)
  BY <1>1 DEF IsFirst, PlacesNamed, PlacesRead
<1>3. SearchOK'
  BY DEF PlInv, SearchOK
<1>4. StubsOK'
  BY <1>1 DEF PlInv, StubsOK, Stub
<1>5. StubsExact'
  BY <1>1, <1>2 DEF PlInv, StubsExact, Stub
<1> QED
  BY <1>3, <1>4, <1>5 DEF PlInv

\* A custom plugin replaces the one of its name, and is then what the name stands for.
LEMMA CustomAdded ==
  ASSUME PlInv, OtherCall, UNCHANGED plSearch, plAnswer'.call # "loading",
         NEW stub, addPlugin(stub),
         stub = [name |-> stub.name, lib |-> stub.lib, plugin |-> stub.plugin],
         stub.plugin # None => stub.plugin = stub.lib /\ LibraryAt(stub.lib).type \in PluginTypes
  PROVE  /\ PlInv'
         /\ LET s == StubPlugin(stub)
                type == LibraryAt(stub.lib).type
            IN s.plugin # None => s.stub.name \in DOMAIN plCustom'[type]
         /\ \A lib : LibraryAt(lib)' = LibraryAt(lib)
<1>1. UNCHANGED <<plWorld, plLoaded, plFrom, plNext>> /\ plAnswer.call # "loading"
  BY DEF OtherCall, PlCall
<1>2. Places' = Places /\ (\A p : StubAt(p)' = StubAt(p)) /\ (\A t : PlacesOf(t)' = PlacesOf(t))
      /\ \A lib : LibraryAt(lib)' = LibraryAt(lib)
  BY <1>1, PlacesStay
<1>3. (\A p, t, n : IsFirst(p, t, n)' = IsFirst(p, t, n)) /\ \A t : PlacesRead(t)' = PlacesRead(t)
  BY <1>1, <1>2 DEF IsFirst, PlacesNamed, PlacesRead
<1> DEFINE s == StubPlugin(stub)
           type == LibraryAt(stub.lib).type
<1>4. CASE s.plugin = None
  <2>1. UNCHANGED <<plStubs, plCustom>>
    BY <1>4 DEF addPlugin
  <2>2. PlInv'
    BY <1>1, <2>1, OthersKeep DEF PlInv, SearchOK
  <2> QED
    BY <1>2, <1>4, <2>2
<1>5. CASE s.plugin # None
  <2>1. /\ s.plugin = stub.lib /\ type \in PluginTypes
        /\ s.stub = [name |-> s.stub.name, lib |-> stub.lib, plugin |-> stub.lib]
    <3>1. CASE stub.plugin # None
      BY <1>5, <3>1 DEF StubPlugin
    <3>2. CASE stub.plugin = None
      BY <1>5, <3>2 DEF StubPlugin
    <3> QED
      BY <3>1, <3>2
  <2>2. PICK name : name = s.stub.name
    OBVIOUS
  <2>3. PICK new : new = s.stub
    OBVIOUS
  <2>4. new = [name |-> name, lib |-> stub.lib, plugin |-> stub.lib] /\ stub.lib # None
    BY <1>5, <2>1, <2>2, <2>3
  <2>5. /\ plStubs' = [plStubs EXCEPT ![type] = Insert(@, name, new)]
        /\ plCustom' = [plCustom EXCEPT ![type] = Insert(@, name, stub.lib)]
    BY <1>5, <2>1, <2>2, <2>3 DEF addPlugin
  <2>6. PICK t \in PluginTypes : t = type
    BY <2>1
  <2> HIDE DEF s, type
  <2>7. DOMAIN plStubs' = DOMAIN plStubs /\ PluginTypes \subseteq DOMAIN plStubs
        /\ DOMAIN plCustom' = PluginTypes /\ DOMAIN plCustom = PluginTypes
    BY <2>5, PluginServices DEF PlInv, StubsOK, SearchOK
  <2>8. \A u \in PluginTypes : u # t => plStubs'[u] = plStubs[u] /\ plCustom'[u] = plCustom[u]
    BY <2>5, <2>6, <2>7
  <2>9. /\ DOMAIN plStubs'[t] = DOMAIN plStubs[t] \cup {name} /\ plStubs'[t][name] = new
        /\ DOMAIN plCustom'[t] = DOMAIN plCustom[t] \cup {name} /\ plCustom'[t][name] = stub.lib
        /\ \A n \in DOMAIN plStubs[t] : n # name => plStubs'[t][n] = Stub(t, n)
        /\ \A n \in DOMAIN plCustom[t] : n # name => plCustom'[t][n] = plCustom[t][n]
    BY <2>5, <2>6, <2>7 DEF Insert, Stub
  <2>10. SearchOK'
    BY <1>1, <2>7 DEF PlInv, SearchOK
  <2>11. StubsOK'
    <3>1. ASSUME NEW u \in PluginTypes, NEW n \in DOMAIN plStubs'[u]
          PROVE  LET x == plStubs'[u][n] IN
                 /\ x = [name |-> x.name, lib |-> x.lib, plugin |-> x.plugin]
                 /\ x.lib # None
                 /\ x.plugin # None => x.plugin = x.lib /\ LibraryAt(x.lib).type \in PluginTypes
      <4>1. CASE u = t /\ n = name
        BY <2>1, <2>4, <2>6, <2>9, <4>1 DEF type
      <4>2. CASE ~(u = t /\ n = name)
        <5>1. n \in DOMAIN plStubs[u] /\ plStubs'[u][n] = Stub(u, n)
          BY <2>8, <2>9, <4>2 DEF Stub
        <5> QED
          BY <5>1 DEF PlInv, StubsOK
      <4> QED
        BY <4>1, <4>2
    <3> QED
      BY <1>2, <2>7, <3>1 DEF PlInv, StubsOK, Stub
  <2>12. StubsExact'
    <3>1. ASSUME NEW u \in PluginTypes
          PROVE  /\ DOMAIN plStubs'[u] = DOMAIN plCustom'[u] \cup {StubAt(p).name : p \in PlacesRead(u)}
                 /\ \A n \in DOMAIN plCustom'[u] : plStubs'[u][n].lib = plCustom'[u][n]
                 /\ \A n \in DOMAIN plStubs'[u] \ DOMAIN plCustom'[u] :
                      \E p \in PlacesRead(u) : IsFirst(p, u, n) /\ plStubs'[u][n].lib = StubAt(p).lib
      <4>1. /\ DOMAIN plStubs[u] = DOMAIN plCustom[u] \cup {StubAt(p).name : p \in PlacesRead(u)}
            /\ \A n \in DOMAIN plCustom[u] : Stub(u, n).lib = plCustom[u][n]
            /\ \A n \in DOMAIN plStubs[u] \ DOMAIN plCustom[u] :
                 \E p \in PlacesRead(u) : IsFirst(p, u, n) /\ Stub(u, n).lib = StubAt(p).lib
        BY DEF PlInv, StubsExact
      <4>2. CASE u # t
        BY <2>8, <4>1, <4>2 DEF Stub
      <4>3. CASE u = t
        BY <2>4, <2>9, <4>1, <4>3
      <4> QED
        BY <4>2, <4>3
    <3>2. \A u : {StubAt(p)'.name : p \in PlacesRead(u)'} = {StubAt(p).name : p \in PlacesRead(u)}
      BY <1>2, <1>3
    <3> QED
      BY <1>2, <1>3, <3>1, <3>2 DEF StubsExact, Stub
  <2>13. s.stub.name \in DOMAIN plCustom'[type]
    BY <2>2, <2>6, <2>9
  <2> QED
    BY <1>2, <2>10, <2>11, <2>12, <2>13 DEF PlInv, s, type
<1> QED
  BY <1>4, <1>5

\* What a fresh stub of a path gives
LEMMA FreshStub ==
  ASSUME NEW path
  PROVE  LET stub == PluginStub(<<>>, path)
             s == StubPlugin(stub)
         IN /\ stub = [name |-> stub.name, lib |-> path, plugin |-> None]
            /\ s.plugin \in {None, path}
            /\ s.stub = [name |-> s.stub.name, lib |-> path, plugin |-> s.stub.plugin]
            /\ s.stub.plugin # None => s.stub.plugin = path /\ LibraryAt(path).type \in PluginTypes
            /\ s.plugin # None =>
                 /\ LibraryAt(path).type \in PluginTypes
                 /\ s.stub.name = LibraryAt(path).name /\ s.stub.plugin = path
                 /\ StubPlugin(s.stub).plugin = path /\ StubPlugin(s.stub).stub = s.stub
<1>1. PICK stub : stub = PluginStub(<<>>, path)
  OBVIOUS
<1>2. stub = [name |-> <<>>, lib |-> path, plugin |-> None]
  BY <1>1 DEF PluginStub
<1> DEFINE s == StubPlugin(stub)
<1>3. CASE LibraryAt(path).type \notin PluginTypes
  <2>1. s = [stub |-> stub, plugin |-> None]
    BY <1>2, <1>3 DEF StubPlugin
  <2> QED
    BY <1>1, <1>2, <2>1
<1>4. CASE LibraryAt(path).type \in PluginTypes
  <2>1. /\ s.stub = [name |-> LibraryAt(path).name, lib |-> path, plugin |-> path]
        /\ s.plugin \in {None, path}
    BY <1>2, <1>4 DEF StubPlugin
  <2>2. PICK loaded : loaded = s.stub
    OBVIOUS
  <2>3. loaded.plugin = path /\ loaded.plugin # None => StubPlugin(loaded) = [stub |-> loaded, plugin |-> path]
    <3>1. loaded.plugin = path
      BY <2>1, <2>2
    <3> HIDE DEF s
    <3>2. loaded.plugin # None => StubPlugin(loaded) = [stub |-> loaded, plugin |-> loaded.plugin]
      BY DEF StubPlugin
    <3> QED
      BY <3>1, <3>2
  <2> QED
    BY <1>1, <1>2, <1>4, <2>1, <2>2, <2>3
<1> QED
  BY <1>3, <1>4

LEMMA CustomAnswered ==
  ASSUME plAnswer'.call = "custom", CustomIsListed' PROVE PluginsFound'
BY DEF PluginsFound, NamedAsAsked, FittingAsAsked, AllAsAsked, ModelAsChosen

LEMMA CustomPluginLoaded ==
  ASSUME PlInv, NEW path, loadCustomPlugin(path) PROVE PlInv' /\ PluginsFound'
<1> DEFINE stub == PluginStub(<<>>, path)
           s == StubPlugin(stub)
<1>1. /\ OtherCall /\ addPlugin(stub) /\ UNCHANGED plSearch
      /\ plAnswer' = [call |-> "custom", type |-> LibraryAt(path).type, lib |-> path, plugin |-> s.plugin]
  BY DEF loadCustomPlugin
<1>2. /\ stub = [name |-> stub.name, lib |-> stub.lib, plugin |-> stub.plugin]
      /\ stub.lib = path /\ stub.plugin = None
  BY DEF PluginStub
<1>3. /\ PlInv' /\ \A lib : LibraryAt(lib)' = LibraryAt(lib)
      /\ s.plugin # None => s.stub.name \in DOMAIN plCustom'[LibraryAt(path).type]
  <2> HIDE DEF stub, s
  <2>1. PlInv' /\ (\A lib : LibraryAt(lib)' = LibraryAt(lib))
        /\ LET x == StubPlugin(stub)
               type == LibraryAt(stub.lib).type
           IN x.plugin # None => x.stub.name \in DOMAIN plCustom'[type]
    BY <1>1, <1>2, CustomAdded
  <2> QED
    BY <1>2, <2>1 DEF s
<1>4. s.plugin # None => s.plugin = path /\ s.stub.name = LibraryAt(path).name
  BY FreshStub
<1>5. CustomIsListed'
  BY <1>1, <1>3, <1>4 DEF CustomIsListed
<1> QED
  BY <1>1, <1>3, <1>5, CustomAnswered

LEMMA CustomLoaded ==
  ASSUME PlInv, NEW type \in PluginTypes, NEW path, loadCustom(type, path) PROVE PlInv' /\ PluginsFound'
<1> DEFINE s == StubPlugin(PluginStub(<<>>, path))
<1>1. /\ OtherCall /\ UNCHANGED plSearch
      /\ IF CastTo(type, s.plugin) # None THEN addPlugin(s.stub) ELSE UNCHANGED <<plStubs, plCustom>>
      /\ plAnswer' = [call |-> "custom", type |-> type, lib |-> path, plugin |-> CastTo(type, s.plugin)]
  BY DEF loadCustom
<1>2. /\ s.plugin \in {None, path}
      /\ s.stub = [name |-> s.stub.name, lib |-> path, plugin |-> s.stub.plugin]
      /\ s.stub.plugin # None => s.stub.plugin = path /\ LibraryAt(path).type \in PluginTypes
      /\ s.plugin # None =>
           /\ s.stub.name = LibraryAt(path).name
           /\ StubPlugin(s.stub).plugin = path /\ StubPlugin(s.stub).stub = s.stub
  BY FreshStub
<1> HIDE DEF s
<1>3. CASE CastTo(type, s.plugin) # None
  <2>1. s.plugin = path /\ path # None /\ LibraryAt(path).type = type /\ CastTo(type, s.plugin) = path
    BY <1>2, <1>3 DEF CastTo
  <2>2. PICK stub : stub = s.stub
    OBVIOUS
  <2>3. /\ stub = [name |-> stub.name, lib |-> stub.lib, plugin |-> stub.plugin] /\ stub.lib = path
        /\ stub.plugin # None => stub.plugin = stub.lib /\ LibraryAt(stub.lib).type \in PluginTypes
        /\ addPlugin(stub)
    BY <1>1, <1>2, <1>3, <2>2
  <2>4. /\ PlInv' /\ \A lib : LibraryAt(lib)' = LibraryAt(lib)
        /\ StubPlugin(stub).plugin # None => StubPlugin(stub).stub.name \in DOMAIN plCustom'[type]
    <3>1. PlInv' /\ (\A lib : LibraryAt(lib)' = LibraryAt(lib))
          /\ LET x == StubPlugin(stub)
                 t == LibraryAt(stub.lib).type
             IN x.plugin # None => x.stub.name \in DOMAIN plCustom'[t]
      BY <1>1, <2>3, CustomAdded
    <3> QED
      BY <2>1, <2>3, <3>1
  <2>5. CustomIsListed'
    BY <1>1, <1>2, <2>1, <2>2, <2>4 DEF CustomIsListed
  <2> QED
    BY <1>1, <2>4, <2>5, CustomAnswered
<1>4. CASE CastTo(type, s.plugin) = None
  <2>1. UNCHANGED <<plStubs, plCustom, plWorld, plLoaded, plFrom, plNext, plSearch>> /\ plAnswer.call # "loading"
    BY <1>1, <1>4 DEF OtherCall, PlCall
  <2>2. PlInv'
    BY <2>1, OthersKeep DEF PlInv, SearchOK
  <2>3. CustomIsListed'
    BY <1>1, <1>4 DEF CustomIsListed
  <2> QED
    BY <1>1, <2>2, <2>3, CustomAnswered
<1> QED
  BY <1>3, <1>4

\* The settings have one entry for each option that was set, with its last value.
SettingRecords == [option : {"StorageDir", "User"}, user : {"a", "b"}, value : {"x", "y"}]
OptionOf(setting) == <<setting.option, setting.user>>
Options == {<<"StorageDir", "a">>, <<"User", "a">>, <<"User", "b">>}

SettingsOK ==
  /\ plSettings \in Seq(SettingRecords)
  /\ \A i \in DOMAIN plSettings : OptionOf(plSettings[i]) \in Options
  /\ \A i, j \in DOMAIN plSettings : OptionOf(plSettings[i]) = OptionOf(plSettings[j]) => i = j
  /\ DOMAIN plSet \subseteq Options /\ plSet = [o \in DOMAIN plSet |-> plSet[o]]
  /\ \A o \in DOMAIN plSet : \E i \in DOMAIN plSettings : OptionOf(plSettings[i]) = o /\ plSettings[i].value = plSet[o]

LEMMA SettingFound ==
  ASSUME SettingsOK, NEW option, NEW user, <<option, user>> \in Options
  PROVE  LET i == settingIndex(plSettings, option, user) IN
         /\ i = 0 => \A j \in DOMAIN plSettings : OptionOf(plSettings[j]) # <<option, user>>
         /\ i # 0 => i \in DOMAIN plSettings /\ OptionOf(plSettings[i]) = <<option, user>>
<1>1. DOMAIN plSettings = 1..Len(plSettings) /\ Len(plSettings) \in Nat
  BY DEF SettingsOK
<1>2. \A j \in DOMAIN plSettings :
        SameOption(plSettings[j], option, user) <=> OptionOf(plSettings[j]) = <<option, user>>
  BY DEF SettingsOK, SameOption, OptionOf, Options
<1> DEFINE found == {j \in DOMAIN plSettings : SameOption(plSettings[j], option, user)}
<1>3. CASE found = {}
  BY <1>2, <1>3 DEF settingIndex
<1>4. CASE found # {}
  <2>1. PICK j \in found : TRUE
    BY <1>4
  <2>2. \A k \in found : j <= k
    BY <1>1, <1>2 DEF SettingsOK
  <2>3. settingIndex(plSettings, option, user) \in found
    BY <1>4, <2>1, <2>2 DEF settingIndex
  <2> QED
    BY <1>1, <1>2, <2>3
<1> QED
  BY <1>3, <1>4

LEMMA SettingSet ==
  ASSUME SettingsOK, NEW option \in {"StorageDir", "User"}, NEW user \in {"a", "b"}, NEW value \in {"x", "y"},
         option = "StorageDir" => user = "a", setSetting(option, user, value)
  PROVE  SettingsOK'
<1>1. <<option, user>> \in Options
  BY DEF Options
<1>2. PICK key : key = <<option, user>>
  OBVIOUS
<1>3. PICK i : i = settingIndex(plSettings, option, user)
  OBVIOUS
<1>4. PICK new : new = BackendSetting(option, user, value)
  OBVIOUS
<1>5. new \in SettingRecords /\ OptionOf(new) = key /\ new.value = value /\ key \in Options
  BY <1>1, <1>2, <1>4 DEF BackendSetting, SettingRecords, OptionOf
<1>6. plSet' = Insert(plSet, key, value)
      /\ plSettings' = IF i = 0 THEN Append(plSettings, new) ELSE [plSettings EXCEPT ![i].value = value]
  BY <1>2, <1>3, <1>4 DEF setSetting
<1>7. /\ DOMAIN plSet' = DOMAIN plSet \cup {key} /\ plSet'[key] = value
      /\ plSet' = [o \in DOMAIN plSet' |-> plSet'[o]]
      /\ \A o \in DOMAIN plSet : o # key => plSet'[o] = plSet[o]
  BY <1>6 DEF Insert
<1>8. CASE i = 0
  <2>1. \A j \in DOMAIN plSettings : OptionOf(plSettings[j]) # key
    BY <1>1, <1>2, <1>3, <1>8, SettingFound
  <2>2. /\ plSettings' \in Seq(SettingRecords)
        /\ DOMAIN plSettings' = DOMAIN plSettings \cup {Len(plSettings) + 1}
        /\ plSettings'[Len(plSettings) + 1] = new
        /\ \A j \in DOMAIN plSettings : plSettings'[j] = plSettings[j]
    BY <1>5, <1>6, <1>8 DEF SettingsOK
  <2> QED
    BY <1>5, <1>7, <2>1, <2>2 DEF SettingsOK
<1>9. CASE i # 0
  <2>1. i \in DOMAIN plSettings /\ OptionOf(plSettings[i]) = key
    BY <1>1, <1>2, <1>3, <1>9, SettingFound
  <2>2. plSettings[i] \in SettingRecords
    BY <2>1 DEF SettingsOK
  <2>3. [plSettings[i] EXCEPT !.value = value] \in SettingRecords
        /\ OptionOf([plSettings[i] EXCEPT !.value = value]) = key
    BY <2>1, <2>2 DEF SettingRecords, OptionOf
  <2>4. /\ plSettings' \in Seq(SettingRecords) /\ DOMAIN plSettings' = DOMAIN plSettings
        /\ plSettings'[i] = [plSettings[i] EXCEPT !.value = value]
        /\ \A j \in DOMAIN plSettings : j # i => plSettings'[j] = plSettings[j]
    BY <1>6, <1>9, <2>1, <2>3 DEF SettingsOK
  <2>5. plSettings'[i].value = value /\ OptionOf(plSettings'[i]) = key
    BY <2>2, <2>3, <2>4 DEF SettingRecords
  <2>6. \A j \in DOMAIN plSettings : OptionOf(plSettings'[j]) = OptionOf(plSettings[j])
    BY <2>1, <2>4, <2>5
  <2>7. \A j \in DOMAIN plSettings : OptionOf(plSettings[j]) # key => plSettings'[j].value = plSettings[j].value
    BY <2>1, <2>4
  <2>8. ASSUME NEW o \in DOMAIN plSet'
        PROVE  \E j \in DOMAIN plSettings' : OptionOf(plSettings'[j]) = o /\ plSettings'[j].value = plSet'[o]
    <3>1. CASE o = key
      BY <1>7, <2>1, <2>4, <2>5, <3>1
    <3>2. CASE o # key
      <4>1. PICK j \in DOMAIN plSettings : OptionOf(plSettings[j]) = o /\ plSettings[j].value = plSet[o]
        BY <1>7, <3>2 DEF SettingsOK
      <4> QED
        BY <1>7, <2>4, <2>6, <2>7, <3>2, <4>1
    <3> QED
      BY <3>1, <3>2
  <2> QED
    BY <1>5, <1>7, <2>4, <2>6, <2>8 DEF SettingsOK
<1> QED
  BY <1>8, <1>9

LEMMA SettingsGiven ==
  ASSUME SettingsOK, NEW o \in DOMAIN plSet PROVE valueInSettings(plSettings, o[1], o[2], "default") = plSet[o]
<1>1. o = <<o[1], o[2]>> /\ o \in Options
  BY DEF SettingsOK, Options
<1>2. PICK i \in DOMAIN plSettings : OptionOf(plSettings[i]) = o /\ plSettings[i].value = plSet[o]
  BY DEF SettingsOK
<1>3. PICK j : j = settingIndex(plSettings, o[1], o[2])
  OBVIOUS
<1>4. j # 0 /\ j \in DOMAIN plSettings /\ OptionOf(plSettings[j]) = o
  BY <1>1, <1>2, <1>3, SettingFound
<1>5. j = i
  BY <1>2, <1>4 DEF SettingsOK
<1> QED
  BY <1>2, <1>3, <1>4, <1>5 DEF valueInSettings

LEMMA ModelMade == ASSUME PlInv, SettingsOK, createModelOf PROVE PlInv' /\ PluginsFound'
<1>1. PICK chosen :
        /\ plUsed # None => chosen = plUsed
        /\ plAnswer' = [call |-> "model", chosen |-> plUsed, plugin |-> chosen,
                        settings |-> [o \in DOMAIN plSet |-> valueInSettings(plSettings, o[1], o[2], "default")]]
  BY DEF createModelOf
<1>2. UNCHANGED <<plSearch, plCustom, plSet>>
  BY DEF createModelOf
<1>3. PlInv'
  <2>1. CASE plUsed # None
    <3>1. UNCHANGED <<plWorld, plLoaded, plFrom, plNext, plStubs>> /\ plAnswer.call # "loading"
      BY <2>1 DEF createModelOf, OtherCall, PlCall
    <3> QED
      BY <1>2, <3>1, OthersKeep DEF PlInv, SearchOK
  <2>2. CASE plUsed = None
    <3>1. PICK names : Lookup /\ plStubs' = Touched(plStubs, "Backend", names)
      BY <2>2 DEF createModelOf
    <3> QED
      BY <1>2, <3>1, LookupAnswers DEF PluginTypes
  <2> QED
    BY <2>1, <2>2
<1>4. plAnswer'.settings = plSet'
  <2>1. plSet = [o \in DOMAIN plSet |-> plSet[o]]
    BY DEF SettingsOK
  <2>2. [o \in DOMAIN plSet |-> valueInSettings(plSettings, o[1], o[2], "default")] = plSet
    BY <2>1, SettingsGiven
  <2> QED
    BY <1>1, <1>2, <2>2
<1>5. ModelAsChosen'
  BY <1>1, <1>4 DEF ModelAsChosen
<1>6. NamedAsAsked' /\ FittingAsAsked' /\ AllAsAsked' /\ CustomIsListed'
  BY <1>1 DEF NamedAsAsked, FittingAsAsked, AllAsAsked, CustomIsListed
<1> QED
  BY <1>3, <1>5, <1>6 DEF PluginsFound

\* setPluginSearchPath, settings and setUsedBackend answer nothing.
LEMMA OptionsChosen ==
  ASSUME PlInv, OtherCall, UNCHANGED <<plStubs, plCustom>>, IsSequence(plSearch.paths)', plAnswer'.call = "none"
  PROVE  PlInv' /\ PluginsFound'
BY OthersKeep, NothingAnswered DEF OtherCall, PlCall

\* In any installation, and whatever is loaded before, a lookup by name gives the plugin of that
\* name, and no lookup misses a plugin that can be used and has all that was asked for; a model has
\* the options that were set (PluginManager, PluginStub::plugin, settingInSettings, createModel).
THEOREM PluginsAreFound == PlInit /\ [][PlNext]_plVars => []PluginsFound
<1>1. PlInit => PlInv /\ SettingsOK /\ PluginsFound
  <2> SUFFICES ASSUME PlInit PROVE PlInv /\ SettingsOK /\ PluginsFound
    OBVIOUS
  <2>1. SettingsOK
    BY DEF PlInit, SettingsOK
  <2>2. PluginsFound
    BY DEF PlInit, PluginsFound, NamedAsAsked, FittingAsAsked, AllAsAsked, CustomIsListed, ModelAsChosen
  <2> QED
    BY <2>1, <2>2, PlInitially
<1>2. PlInv /\ SettingsOK /\ PluginsFound /\ [PlNext]_plVars => (PlInv /\ SettingsOK /\ PluginsFound)'
  <2> SUFFICES ASSUME PlInv, SettingsOK, PluginsFound, [PlNext]_plVars
               PROVE  PlInv' /\ SettingsOK' /\ PluginsFound'
    OBVIOUS
  <2>1. ASSUME UNCHANGED <<plSettings, plSet>> PROVE SettingsOK'
    BY <2>1 DEF SettingsOK
  <2>2. CASE loadAllPlugins \/ loadNext
    BY <2>1, <2>2, SearchBegins, SearchGoesOn DEF loadAllPlugins, loadNext
  <2>3. ASSUME NEW type \in PluginTypes, NEW name, discoverByName(type, name)
        PROVE  PlInv' /\ SettingsOK' /\ PluginsFound'
    BY <2>1, <2>3, ByNameFound DEF discoverByName
  <2>4. ASSUME NEW features, NEW user, discoverBackendByFeatures(features, user)
        PROVE  PlInv' /\ SettingsOK' /\ PluginsFound'
    <3> DEFINE wanted == [all |-> features, user |-> user]
               suitable == {p \in DOMAIN plWorld.libs : supportsFeatures(p, features, user)}
    <3>1. discoverFitting("Backend", suitable, wanted)
      BY <2>4 DEF discoverBackendByFeatures
    <3>2. suitable = {p \in DOMAIN plWorld.libs : Suits("Backend", wanted, p)}
      BY DEF Suits
    <3>3. PICK s, w : s = suitable /\ w = wanted
      OBVIOUS
    <3> HIDE DEF suitable, wanted
    <3>4. discoverFitting("Backend", s, w) /\ s = {p \in DOMAIN plWorld.libs : Suits("Backend", w, p)}
      BY <3>1, <3>2, <3>3
    <3>5. UNCHANGED <<plSettings, plSet>>
      BY <3>4 DEF discoverFitting
    <3>6. PlInv' /\ PluginsFound'
      BY <3>4, FittingFound DEF PluginTypes
    <3> QED
      BY <2>1, <3>5, <3>6
  <2>5. ASSUME NEW type \in PluginTypes, NEW s, NEW user, discoverForSerialization(type, s, user)
        PROVE  PlInv' /\ SettingsOK' /\ PluginsFound'
    <3> DEFINE wanted == [all |-> {s}, user |-> {user}]
               suitable == {p \in DOMAIN plWorld.libs : supportsSerialization(p, s, user)}
    <3>1. discoverFitting(type, suitable, wanted) /\ type # "Backend"
      BY <2>5 DEF discoverForSerialization
    <3>2. suitable = {p \in DOMAIN plWorld.libs : Suits(type, wanted, p)}
      BY <3>1 DEF Suits
    <3>3. PICK t, w : t = suitable /\ w = wanted
      OBVIOUS
    <3> HIDE DEF suitable, wanted
    <3>4. discoverFitting(type, t, w) /\ t = {p \in DOMAIN plWorld.libs : Suits(type, w, p)}
      BY <3>1, <3>2, <3>3
    <3>5. UNCHANGED <<plSettings, plSet>>
      BY <3>4 DEF discoverFitting
    <3>6. PlInv' /\ PluginsFound'
      BY <3>4, FittingFound
    <3> QED
      BY <2>1, <3>5, <3>6
  <2>6. ASSUME NEW type \in PluginTypes, allPlugins(type) PROVE PlInv' /\ SettingsOK' /\ PluginsFound'
    BY <2>1, <2>6, AllFound DEF allPlugins
  <2>7. ASSUME NEW paths \in PlPaths, NEW defaults, setPluginSearchPath(paths, defaults)
        PROVE  PlInv' /\ SettingsOK' /\ PluginsFound'
    <3>1. IsSequence(plSearch.paths)'
      BY <2>7, PlPathsAssumption DEF setPluginSearchPath
    <3> QED
      BY <2>1, <2>7, <3>1, OptionsChosen DEF setPluginSearchPath
  <2>8. ASSUME NEW path, loadCustomPlugin(path) PROVE PlInv' /\ SettingsOK' /\ PluginsFound'
    BY <2>1, <2>8, CustomPluginLoaded DEF loadCustomPlugin
  <2>9. ASSUME NEW path, NEW type \in PluginTypes, loadCustom(type, path)
        PROVE  PlInv' /\ SettingsOK' /\ PluginsFound'
    BY <2>1, <2>9, CustomLoaded DEF loadCustom
  <2>10. IsSequence(plSearch.paths)
    BY DEF PlInv, SearchOK
  <2>11. ASSUME NEW option \in {"StorageDir", "User"}, NEW user \in {"a", "b"}, NEW value \in {"x", "y"},
                option = "StorageDir" => user = "a", setSetting(option, user, value)
         PROVE  PlInv' /\ SettingsOK' /\ PluginsFound'
    <3>1. OtherCall /\ plAnswer'.call = "none" /\ UNCHANGED <<plStubs, plCustom, plSearch>>
      BY <2>11 DEF setSetting
    <3> QED
      BY <2>10, <2>11, <3>1, SettingSet, OptionsChosen
  <2>12. ASSUME NEW lib, setUsedBackend(lib) PROVE PlInv' /\ SettingsOK' /\ PluginsFound'
    <3>1. OtherCall /\ plAnswer'.call = "none" /\ UNCHANGED <<plStubs, plCustom, plSearch, plSettings, plSet>>
      BY <2>12 DEF setUsedBackend
    <3> QED
      BY <2>1, <2>10, <3>1, OptionsChosen
  <2>13. CASE createModelOf
    BY <2>1, <2>13, ModelMade DEF createModelOf
  <2>14. CASE UNCHANGED plVars
    <3>1. Places' = Places /\ (\A p : StubAt(p)' = StubAt(p)) /\ (\A t : PlacesOf(t)' = PlacesOf(t))
          /\ \A lib : LibraryAt(lib)' = LibraryAt(lib)
      BY <2>14, PlacesStay DEF plVars
    <3>2. (\A p, t, n : IsFirst(p, t, n)' = IsFirst(p, t, n)) /\ \A t : PlacesRead(t)' = PlacesRead(t)
      BY <2>14, <3>1 DEF IsFirst, PlacesNamed, PlacesRead, plVars
    <3>3. PlInv'
      <4>1. SearchOK'
        BY <2>14 DEF PlInv, SearchOK, plVars
      <4>2. StubsOK'
        BY <2>14, <3>1 DEF PlInv, StubsOK, Stub, plVars
      <4>3. StubsExact'
        BY <2>14, <3>1, <3>2 DEF PlInv, StubsExact, Stub, plVars
      <4> QED
        BY <4>1, <4>2, <4>3 DEF PlInv
    <3>4. PluginsFound'
      <4>1. \A t, n : PlacesNamed(t, n)' = PlacesNamed(t, n)
        BY <3>1 DEF PlacesNamed
      <4>2. \A t, n : NamedPlugin(t, n)' = NamedPlugin(t, n)
        BY <2>14, <3>1, <4>1 DEF NamedPlugin, plVars
      <4>3. \A t : NamesOf(t)' = NamesOf(t)
        BY <2>14, <3>1 DEF NamesOf, plVars
      <4>4. \A t : MayGive(t)' = MayGive(t)
        BY <3>1, <4>2, <4>3 DEF MayGive
      <4>5. \A t : MustGive(t)' = MustGive(t)
        BY <3>1, <4>4 DEF MustGive
      <4>6. \A t, w, p : Suits(t, w, p)' = Suits(t, w, p) /\ SuitsFully(t, w, p)' = SuitsFully(t, w, p)
        BY <3>1 DEF Suits, SuitsFully, HasAll, supportsFeatures, supportsSerialization
      <4>7. plAnswer' = plAnswer /\ plCustom' = plCustom /\ plSet' = plSet
        BY <2>14 DEF plVars
      <4> QED
        BY <3>1, <4>2, <4>4, <4>5, <4>6, <4>7
        DEF PluginsFound, NamedAsAsked, FittingAsAsked, AllAsAsked, CustomIsListed, ModelAsChosen
    <3> QED
      BY <2>1, <2>14, <3>3, <3>4 DEF plVars
  <2> QED
    BY <2>2, <2>3, <2>4, <2>5, <2>6, <2>7, <2>8, <2>9, <2>11, <2>12, <2>13, <2>14 DEF PlNext
<1> QED
  BY <1>1, <1>2, PTL
=============================================================================
