-------------------------- MODULE RedlandIterators --------------------------
(***************************************************************************)
(* What the three iterators of the Redland backend return: they walk a     *)
(* librdf stream, iterator or query result, each in its own way, and close *)
(* themselves at the end.  A graph result moves on in currentStatement().  *)
(*                                                                         *)
(* External: a librdf stream is at an element or at its end, and stays     *)
(* there; a row of a query result is known before the first next.          *)
(***************************************************************************)
EXTENDS RedlandModel

CONSTANT RiMaxElements   \* bound on the elements, and on the next() of a graph result that does not move

ASSUME RiMaxElementsAssumption == RiMaxElements \in Nat

VARIABLES
  riKind,       \* "statements", "nodes", "bindings", "graph" or "bool"
  riElements,   \* how many there are
  riPos,        \* where the librdf object is: an element, or riElements + 1
  riFirst,      \* first, or not m_initialized
  riOpen,       \* m_stream, m_iterator or result is set
  riReleased,   \* how often the model was told that the iterator is gone
  riYielded,    \* how often next() was true
  riNext,       \* what the last next() returned
  riValue,      \* what the last current() returned since, 0 if it was empty
  riReads,      \* current() calls since the last next(), up to 2
  riOnce        \* each element was read exactly once before the next (for the property)

riVars == <<riKind, riElements, riPos, riFirst, riOpen, riReleased, riYielded, riNext, riValue,
            riReads, riOnce>>

\* Each constructor asks librdf once what it has.
RiInit ==
  /\ riKind \in {"statements", "nodes", "bindings", "graph", "bool"}
  /\ riElements \in 0..RiMaxElements
  /\ riPos = 1 /\ riFirst = TRUE /\ riOpen = TRUE /\ riReleased = 0
  /\ riYielded = 0 /\ riNext = "none" /\ riValue = 0 /\ riReads = 0 /\ riOnce = TRUE
-----------------------------------------------------------------------------
\* close(): the model forgets the iterator, and its read lock, once.
RiClose ==
  /\ riReleased' = IF riReleased = 0 THEN 1 ELSE riReleased
  /\ riOpen' = FALSE

RiReturns(value, pos) ==
  /\ riNext' = value /\ riPos' = pos /\ riFirst' = FALSE
  /\ riYielded' = IF value = "true" THEN riYielded + 1 ELSE riYielded
  /\ riReads' = 0 /\ riValue' = 0
  /\ riOnce' = (riOnce /\ riReads = (IF riNext = "true" THEN 1 ELSE 0))
  /\ IF value = "false" /\ riKind # "bool" THEN RiClose ELSE UNCHANGED <<riOpen, riReleased>>
  /\ UNCHANGED <<riKind, riElements>>

\* The end of what librdf has is looked at after the step, but before the first.
NextPos == IF riFirst THEN riPos ELSE IF riPos <= riElements THEN riPos + 1 ELSE riPos
AtEnd(pos) == pos > riElements

statementsNext ==
  /\ riKind = "statements" /\ riOpen
  /\ RiReturns(IF AtEnd(NextPos) THEN "false" ELSE "true", NextPos)

nodesNext ==
  /\ riKind = "nodes" /\ riOpen
  /\ RiReturns(IF AtEnd(NextPos) THEN "false" ELSE "true", NextPos)

bindingsNext ==
  /\ riKind = "bindings" /\ riOpen
  /\ RiReturns(IF AtEnd(NextPos) THEN "false" ELSE "true", NextPos)

\* The stream is made by the first next() and not moved.
graphNext ==
  /\ riKind = "graph" /\ riOpen /\ riYielded <= RiMaxElements
  /\ RiReturns(IF AtEnd(riPos) THEN "false" ELSE "true", riPos)

boolNext == riKind = "bool" /\ riOpen /\ RiReturns("false", riPos)

closedNext == ~riOpen /\ RiReturns("false", riPos)
-----------------------------------------------------------------------------
Reads(value, pos) ==
  /\ riValue' = value /\ riPos' = pos
  /\ riReads' = IF riReads < 2 THEN riReads + 1 ELSE riReads
  /\ UNCHANGED <<riKind, riElements, riFirst, riOpen, riReleased, riYielded, riNext, riOnce>>

Element == IF riOpen /\ ~AtEnd(riPos) THEN riPos ELSE 0

statementsCurrent == riKind = "statements" /\ Reads(Element, riPos)
nodesCurrent == riKind = "nodes" /\ Reads(Element, riPos)
binding == riKind = "bindings" /\ Reads(Element, riPos)

\* Only next() makes the stream.
graphCurrent ==
  /\ riKind = "graph"
  /\ LET v == IF riFirst THEN 0 ELSE Element IN Reads(v, IF v = 0 THEN riPos ELSE riPos + 1)

riClose ==
  /\ RiClose
  /\ UNCHANGED <<riKind, riElements, riPos, riFirst, riYielded, riNext, riValue, riReads, riOnce>>

RiNext ==
  \/ statementsNext \/ nodesNext \/ bindingsNext \/ graphNext \/ boolNext \/ closedNext
  \/ statementsCurrent \/ nodesCurrent \/ binding \/ graphCurrent \/ riClose

-----------------------------------------------------------------------------
(***************************************************************************)
(* The k-th next() that is true makes the k-th element the current one,    *)
(* next() is false only when all were returned or the iterator is closed,  *)
(* and the model's lock is released exactly when the iterator is closed,   *)
(* which the end does too.  A graph result keeps this as long as each      *)
(* element is read exactly once.                                           *)
(***************************************************************************)
EachElementOnce ==
  /\ riNext = "true" /\ riReads > 0 /\ riOpen /\ (riKind # "graph" \/ (riOnce /\ riReads = 1)) =>
       riValue = riYielded
  /\ riKind # "graph" \/ riOnce => riYielded <= riElements
  /\ riReleased = IF riOpen THEN 0 ELSE 1
  /\ riKind # "bool" /\ riNext = "false" => ~riOpen

(***************************************************************************)
(* The Redland backend: RedlandModel and the iterators over what librdf    *)
(* reports (RedlandSound, EachElementOnce).                                *)
(***************************************************************************)
RedlandExact == RedlandSound /\ []EachElementOnce
=============================================================================
