----------------------------- MODULE Iterators -----------------------------
(***************************************************************************)
(* soprano/iterator.h, statementiterator.cpp, queryresultiterator.cpp,     *)
(* graph.cpp and util/simple*iterator.cpp: iterators are handles that share*)
(* a Private, which owns a backend.  A backend reads a list, a Graph or a  *)
(* query result, or wraps another iterator and shows a part of it.         *)
(*                                                                         *)
(* Handles, Privates and backends are numbered.  A Private lives as long as*)
(* a handle, or the iterator in a live wrapper, refers to it.              *)
(***************************************************************************)
EXTENDS Rdf, Integers, FiniteSets, SequencesExt

CONSTANTS
  Handles,
  ItStatements,   \* statements of the graph
  ItTemplates,    \* templates that callers list
  MaxBackends     \* bound on the backends that are created

ASSUME ItStatementsAssumption == IsFiniteSet(ItStatements)

VARIABLES
  itGraph,        \* a Graph: Graph::Private::statements
  itHandles,      \* the Private of each handle, 0 for a handle that is not in use
  itPriv,         \* Private::backend by Private, 0 for an invalid iterator
  itBackends,     \* the backends
  itShown,        \* per backend: what next() has shown (for the properties)
  itReplaced,     \* backends that setBackend has replaced (for the properties)
  itError         \* per handle: its last error

itVars == <<itGraph, itHandles, itPriv, itBackends, itShown, itReplaced, itError>>

InvalidIterator == "Invalid iterator."

\* kind is list, nodes (a list of them), graph or wrapper, whose iterator has the Private inner.
ListBackend(s) ==
  [kind |-> "list", todo |-> s, filter |-> EmptyStatement, pos |-> 1, first |-> TRUE,
   closed |-> FALSE, deleted |-> FALSE, inner |-> 0, which |-> "all"]
GraphBackend(s, filter) == [ListBackend(s) EXCEPT !.kind = "graph", !.filter = filter]
WrapperBackend(p, which) == [ListBackend(<<>>) EXCEPT !.kind = "wrapper", !.inner = p, !.which = which]
Deleted == [ListBackend(<<>>) EXCEPT !.deleted = TRUE, !.closed = TRUE]

ItInit ==
  /\ itGraph = {}
  /\ itHandles = [h \in Handles |-> 0]
  /\ itPriv = <<>> /\ itBackends = <<>> /\ itShown = <<>>
  /\ itReplaced = {}
  /\ itError = [h \in Handles |-> "none"]
-----------------------------------------------------------------------------
\* The Privates that something refers to: a wrapper is made after what it
\* wraps, so going down from the last Private reaches all.
LivePrivs(handles, privs, backends) ==
  LET fromHandles == {handles[h] : h \in Handles} \ {0}
      ofWrapper(p) == IF p # 0 /\ privs[p] # 0 /\ backends[privs[p]].kind = "wrapper"
                      THEN {backends[privs[p]].inner} ELSE {}
      up(S) == S \cup UNION {ofWrapper(p) : p \in S}
  IN up(up(up(fromHandles)))

\* The backend that does the work of a Private in the end, or 0
BackendOf(p) ==
  LET down(b) == IF b # 0 /\ itBackends[b].kind = "wrapper" THEN itPriv[itBackends[b].inner] ELSE b
  IN down(down(down(itPriv[p])))

\* ~Private closes and deletes its backend; closing a wrapper closes what it wraps.
Release(handles, privs, backends) ==
  LET gone == LivePrivs(itHandles, privs, backends) \ LivePrivs(handles, privs, backends)
      dead == {privs[p] : p \in gone} \ {0}
      closing == dead \cup ({BackendOf(p) : p \in gone} \ {0})
  IN [b \in DOMAIN backends |->
        IF b \in dead THEN Deleted ELSE [backends[b] EXCEPT !.closed = @ \/ b \in closing]]

ShownAfter(backends) ==
  [b \in DOMAIN backends |-> IF backends[b].deleted THEN <<>> ELSE itShown[b]]

Room == Len(itBackends) < MaxBackends
NewBackend(h, backend) ==
  /\ itHandles[h] = 0 /\ Room
  /\ itBackends' = Append(itBackends, backend)
  /\ itShown' = Append(itShown, <<>>)
  /\ itPriv' = Append(itPriv, Len(itBackends'))
  /\ itHandles' = [itHandles EXCEPT ![h] = Len(itPriv')]
  /\ UNCHANGED <<itGraph, itReplaced, itError>>

\* A new handle on what a handle refers to; assignment drops what it referred to.
copyIterator(h, g) ==
  /\ h # g /\ itHandles[h] # 0
  /\ itHandles' = [itHandles EXCEPT ![g] = itHandles[h]]
  /\ itBackends' = Release(itHandles', itPriv, itBackends)
  /\ itShown' = ShownAfter(itBackends')
  /\ UNCHANGED <<itGraph, itPriv, itReplaced, itError>>

destroyIterator(h) ==
  /\ itHandles[h] # 0
  /\ itHandles' = [itHandles EXCEPT ![h] = 0]
  /\ itBackends' = Release(itHandles', itPriv, itBackends)
  /\ itShown' = ShownAfter(itBackends')
  /\ itError' = [itError EXCEPT ![h] = "none"]
  /\ UNCHANGED <<itGraph, itPriv, itReplaced>>

\* The iterator of the default constructor has no backend.
invalidIterator(h) ==
  /\ itHandles[h] = 0 /\ Len(itPriv) < MaxBackends
  /\ itPriv' = Append(itPriv, 0)
  /\ itHandles' = [itHandles EXCEPT ![h] = Len(itPriv')]
  /\ UNCHANGED <<itGraph, itBackends, itShown, itReplaced, itError>>

IsValid(h) == itPriv[itHandles[h]] # 0

\* operator=( QList ) of the simple iterators.  The access of setBackend is not
\* const: a Private that is shared is copied first, together with its pointer.
setBackend(h, s) ==
  /\ itHandles[h] # 0 /\ Room
  /\ IsValid(h) => itBackends[itPriv[itHandles[h]]].kind = "list"
  /\ LET p == itHandles[h]
         shared == \/ \E g \in Handles \ {h} : itHandles[g] = p
                   \/ \E b \in DOMAIN itBackends : ~itBackends[b].deleted /\ itBackends[b].inner = p
         b == Len(itBackends) + 1
     IN /\ itBackends' = Append(itBackends, ListBackend(s))
        /\ itShown' = Append(itShown, <<>>)
        /\ IF shared
           THEN /\ itPriv' = Append(itPriv, b)
                /\ itHandles' = [itHandles EXCEPT ![h] = Len(itPriv')]
                /\ UNCHANGED itReplaced
           ELSE /\ itPriv' = [itPriv EXCEPT ![p] = b]
                /\ itReplaced' = itReplaced \cup ({itPriv[p]} \ {0})
                /\ UNCHANGED itHandles
  /\ UNCHANGED <<itGraph, itError>>
-----------------------------------------------------------------------------
\* Graph: a set; its iterators hold a copy of the graph as it was.
graphAddStatements(sts) ==
  /\ itGraph' = itGraph \cup sts
  /\ UNCHANGED <<itHandles, itPriv, itBackends, itShown, itReplaced, itError>>

graphRemoveStatements(sts) ==
  /\ itGraph' = itGraph \ sts
  /\ UNCHANGED <<itHandles, itPriv, itBackends, itShown, itReplaced, itError>>

graphRemoveAllStatements(template) ==
  graphRemoveStatements(ListStatements(itGraph, template))

\* The first next() on an empty graph compares the statement at end(): the program
\* crashes, and does nothing any more, or m_it stays at end() whatever it compared.
graphListStatements(h, template) ==
  LET s == SetToSeq(itGraph) IN NewBackend(h, GraphBackend(s, template))

GraphContexts == {st.c : st \in itGraph} \ {Empty}

graphListContexts(h) == LET s == SetToSeq(GraphContexts) IN NewBackend(h, [ListBackend(s) EXCEPT !.kind = "nodes"])

\* iterateSubjects and the others, iterateStatements, iterateBindings: a node
\* iterator can be made of an invalid statement iterator, the others cannot.
Parts == {"subject", "context"}
iterate(h, g, which) ==
  /\ itHandles[h] # 0
  /\ IsValid(h) => itBackends[itPriv[itHandles[h]]].kind \in {"list", "graph"}
  /\ NewBackend(g, WrapperBackend(itHandles[h], which))
-----------------------------------------------------------------------------
\* next of a list goes to the first element, then on; next of a graph also
\* skips what does not match.
AtEnd(b) == b.pos > Len(b.todo)
Fits(b, x) == b.kind # "graph" \/ StatementMatches(x, b.filter)
FittingFrom(b, i) == {j \in i..Len(b.todo) : Fits(b, b.todo[j])}
Skip(b, i) == IF FittingFrom(b, i) = {} THEN Len(b.todo) + 1
              ELSE CHOOSE j \in FittingFrom(b, i) : \A k \in FittingFrom(b, i) : j <= k
Advance_SkipFirst(b) ==
  [b EXCEPT !.first = FALSE, !.pos = IF AtEnd(b) THEN @ ELSE Skip(b, @ + 1)]

Advance(b) ==
  [b EXCEPT !.first = FALSE, !.pos = IF AtEnd(b) THEN @ ELSE Skip(b, IF b.first THEN @ ELSE @ + 1)]

\* The backends whose next and close a call of the handle runs through
Wrapping(h, b) == {itPriv[itHandles[h]], b}

Next(h) ==
  /\ itHandles[h] # 0
  /\ LET b == BackendOf(itHandles[h])
         moved == Advance(itBackends[b])
     IN IF b = 0
        THEN /\ itError' = [itError EXCEPT ![h] = InvalidIterator]
             /\ UNCHANGED <<itBackends, itShown>>
        ELSE /\ itBackends' = [x \in DOMAIN itBackends |->
                                 IF x = b THEN [moved EXCEPT !.closed = @ \/ AtEnd(moved)]
                                 ELSE IF x \in Wrapping(h, b)
                                 THEN [itBackends[x] EXCEPT !.closed = @ \/ AtEnd(moved)]
                                 ELSE itBackends[x]]
             /\ itShown' = IF AtEnd(moved) THEN itShown
                           ELSE [itShown EXCEPT ![b] = Append(@, moved.todo[moved.pos])]
             /\ itError' = [itError EXCEPT ![h] = "none"]
  /\ UNCHANGED <<itGraph, itHandles, itPriv, itReplaced>>

\* What a handle shows of an element, and the element its list stands at
Part(which, x) == IF which = "subject" THEN x.s ELSE IF which = "context" THEN x.c ELSE x

CurrentOf(h) ==
  LET b == BackendOf(itHandles[h])
  IN IF b = 0 \/ AtEnd(itBackends[b]) THEN Empty
     ELSE Part(itBackends[itPriv[itHandles[h]]].which, itBackends[b].todo[itBackends[b].pos])

Close(h) ==
  /\ itHandles[h] # 0 /\ IsValid(h)
  /\ itBackends' = [x \in DOMAIN itBackends |->
       IF x \in Wrapping(h, BackendOf(itHandles[h])) THEN [itBackends[x] EXCEPT !.closed = TRUE]
       ELSE itBackends[x]]
  /\ UNCHANGED <<itGraph, itHandles, itPriv, itShown, itReplaced, itError>>

\* next until the end, and a close
allElements(h) ==
  /\ itHandles[h] # 0 /\ IsValid(h)
  /\ LET b == BackendOf(itHandles[h])
         end == Len(itBackends[b].todo) + 1
         from == IF itBackends[b].first THEN 1 ELSE itBackends[b].pos + 1
         rest == Elements(itBackends[b].todo, FittingFrom(itBackends[b], from))
     IN /\ b # 0
        /\ itBackends' = [x \in DOMAIN itBackends |->
             IF x = b THEN [itBackends[x] EXCEPT !.pos = end, !.first = FALSE, !.closed = TRUE]
             ELSE IF x \in Wrapping(h, b) THEN [itBackends[x] EXCEPT !.closed = TRUE]
             ELSE itBackends[x]]
        /\ itShown' = [itShown EXCEPT ![b] = @ \o rest]
  /\ UNCHANGED <<itGraph, itHandles, itPriv, itReplaced, itError>>
-----------------------------------------------------------------------------
ItNext ==
  \/ graphAddStatements(ItStatements)
  \/ \E st \in ItStatements : graphAddStatements({st}) \/ graphRemoveStatements({st})
  \/ \E x \in ItTemplates : graphRemoveAllStatements(x)
  \/ \E h \in Handles :
       \/ \E x \in ItTemplates : graphListStatements(h, x)
       \/ graphListContexts(h) \/ invalidIterator(h) \/ destroyIterator(h)
       \/ \E g \in Handles : copyIterator(h, g) \/ \E w \in Parts : iterate(h, g, w)
       \/ setBackend(h, SetToSeq(ItStatements))
       \/ Next(h) \/ Close(h) \/ allElements(h)
-----------------------------------------------------------------------------
Owners(b) == {p \in LivePrivs(itHandles, itPriv, itBackends) : itPriv[p] = b}

(***************************************************************************)
(* Iterators are shared objects: however handles were copied, wrapped and  *)
(* assigned, a backend has at most one live owner, so it is never deleted  *)
(* twice; what is deleted has none, so it is not used after that; and when *)
(* the last handle or wrapper drops its Private, the backend goes with it. *)
(* The backends that setBackend has replaced are left out: iterator.h says *)
(* they are deleted when nobody else uses them, and the code deletes none. *)
(***************************************************************************)
BackendsOwnedOnce ==
  \A b \in DOMAIN itBackends :
    /\ Cardinality(Owners(b)) <= 1
    /\ itBackends[b].deleted => Owners(b) = {}
    /\ Owners(b) = {} => itBackends[b].deleted \/ b \in itReplaced

(***************************************************************************)
(* Whoever calls next(), through whichever copy or wrapper, the elements   *)
(* come in order and once; when the end is reached, every matching element *)
(* of the graph as it was listed has been shown, and the backend is closed;*)
(* until then every handle stands at the element shown last.               *)
(***************************************************************************)
ElementsShownOnce ==
  \A b \in DOMAIN itBackends :
    LET x == itBackends[b]
        matching == Elements(x.todo, FittingFrom(x, 1))
    IN x.kind # "wrapper" =>
         /\ IsPrefix(itShown[b], matching)
         /\ AtEnd(x) /\ ~x.first => itShown[b] = matching /\ x.closed
         /\ \A h \in Handles :
              /\ itHandles[h] # 0 /\ BackendOf(itHandles[h]) = b /\ ~AtEnd(x) /\ ~x.first
              => CurrentOf(h) = Part(itBackends[itPriv[itHandles[h]]].which, Last(itShown[b]))

(***************************************************************************)
(* Handles that share a backend neither free it twice nor lose or repeat   *)
(* an element of it.                                                       *)
(***************************************************************************)
HandlesShare == BackendsOwnedOnce /\ ElementsShownOnce
=============================================================================
