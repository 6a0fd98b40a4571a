----------------------------- MODULE QueryTree -----------------------------
(***************************************************************************)
(* Soprano::Query: queries as trees of expressions.  Each object shares    *)
(* its data (a Private) with its copies until one of them is changed; the  *)
(* data owns the expressions below it through plain pointers.              *)
(*                                                                         *)
(* Own data (a name, a value, a pattern, the prefixes) is "a" or "b".      *)
(***************************************************************************)
EXTENDS Naturals, Sequences, FiniteSets

CONSTANTS
  QtKinds,     \* the sets of kinds of objects a user may make
  MaxObjects,  \* how many objects live at once (a bound); as many data
  MaxHeld      \* how many of them the user holds (a bound)

VARIABLES
  qtMakes,     \* the kinds this user makes
  qtObjects,   \* the objects: their kind and their data
  qtData,      \* the data: what is theirs and the objects below
  qtUser,      \* the objects the user holds
  qtWant,      \* what the user's objects would be if every copy were a deep one
  qtLeaked     \* objects nobody owns any more

qtVars == <<qtMakes, qtObjects, qtData, qtUser, qtWant, qtLeaked>>

NoObject == 0
Ids == 1..MaxObjects

Terms == {"Variable", "Node"}
Leaves == Terms \cup {"Numerical", "String"}
DateTimeComparisons ==
  {"DateTimeEqual", "DateTimeNotEqual", "DateTimeLessThan", "DateTimeGreaterThan",
   "DateTimeLessThanEqual", "DateTimeGreaterThanEqual"}
TermTests == {"IsIRI", "IsBlank", "IsLiteral"}
TermStrings == {"StringValue", "LangValue", "DataTypeValue"}
NumericalComparisons ==
  {"NumericalEqual", "NumericalNotEqual", "NumericalLessThan", "NumericalGreaterThan",
   "NumericalLessThanEqual", "NumericalGreaterThanEqual"}
StringComparisons ==
  {"StringEqual", "StringNotEqual", "StringLessThan", "StringGreaterThan",
   "StringLessThanEqual", "StringGreaterThanEqual", "LangMatches"}
Arithmetic == {"NumericalMultiply", "NumericalDivide", "NumericalAdd", "NumericalSubtract"}
TermComparisons == {"RTermEqual", "RTermNotEqual"}
SetExpressions == {"LogicAnd", "LogicOr"}
Binary == NumericalComparisons \cup StringComparisons \cup Arithmetic \cup TermComparisons

\* The class an object of the kind derives from
BaseClass(kind) ==
  CASE kind \in Terms -> "RTerm"
    [] kind \in {"Numerical", "Negate", "NumericalValue"} \cup Arithmetic -> "NumericalExpression"
    [] kind \in {"String"} \cup TermStrings -> "StringExpression"
    [] kind \in {"Query", "QueryTerms"} -> kind
    [] OTHER -> "BooleanExpression"

\* The classes of the objects below
Below(kind) ==
  CASE kind \in Leaves \cup DateTimeComparisons \cup SetExpressions \cup {"QueryTerms"} -> <<>>
    [] kind = "Not" -> <<"BooleanExpression">>
    [] kind = "Negate" -> <<"NumericalExpression">>
    [] kind = "Regexp" -> <<"StringExpression">>
    [] kind \in TermTests \cup TermStrings \cup {"NumericalValue", "IsBound"} -> <<"RTerm">>
    [] kind \in NumericalComparisons \cup Arithmetic -> <<"NumericalExpression", "NumericalExpression">>
    [] kind \in StringComparisons -> <<"StringExpression", "StringExpression">>
    [] kind \in TermComparisons -> <<"RTerm", "RTerm">>
    [] kind = "TriplePattern" -> <<"RTerm", "RTerm", "RTerm">>
    [] kind = "Query" -> <<"BooleanExpression", "QueryTerms">>

\* Kinds whose setters delete what was there; those of Leaking do not; the
\* others have none (UnaryRTermExpressionBase is a private base).
Deleting == {"Not", "Negate", "Regexp", "TriplePattern", "Query"}
Leaking == Binary \cup {"IsBound"}

\* The class of what can be appended
Appended(kind) == IF kind \in SetExpressions THEN {"BooleanExpression"}
                  ELSE IF kind = "QueryTerms" THEN {"RTerm"} ELSE {}

QtInit ==
  /\ qtMakes \in QtKinds
  /\ qtObjects = [i \in {} |-> 0] /\ qtData = [i \in {} |-> 0]
  /\ qtUser = {} /\ qtWant = [i \in {} |-> 0] /\ qtLeaked = {}
-----------------------------------------------------------------------------
Free(used, n) == {i \in Ids \ used : Cardinality({j \in 1..(i - 1) : j \notin used}) < n}
Nth(set, n) == CHOOSE i \in set : Cardinality({j \in set : j < i}) = n - 1
Sharing(objects, d) == {o \in DOMAIN objects : objects[o].d = d}
\* A function with some values set, or added
Updated(f, g) == [i \in DOMAIN f \cup DOMAIN g |-> IF i \in DOMAIN g THEN g[i] ELSE f[i]]
Only(f, set) == [i \in DOMAIN f \cap set |-> f[i]]
Objects(seq) == {seq[i] : i \in DOMAIN seq} \ {NoObject}

\* The objects that die with those given: the data goes with the last object
\* that shares it, and takes along what is below.
Dying(objects, data, first) ==
  LET Dead[n \in 0..MaxObjects] ==
        LET before == Dead[n - 1]
            unused == {d \in DOMAIN data : Sharing(objects, d) # {} /\ Sharing(objects, d) \subseteq before}
        IN IF n = 0 THEN first ELSE before \cup UNION {Objects(data[d].below) : d \in unused}
  IN Dead[MaxObjects]

\* What is left without the objects given
Without(objects, data, first) ==
  LET dead == Dying(objects, data, first)
      left == Only(objects, DOMAIN objects \ dead)
  IN [objects |-> left, data |-> Only(data, {left[o].d : o \in DOMAIN left})]

\* What data of Query keeps of its own when copied: not the prefixes
CopiedOwn(kind, own) == IF kind = "Query" THEN "a" ELSE own

\* A bug: a copy of the data has the objects of the original below it.
detached_Shallow(o) ==
  LET d == qtObjects[o].d
      fresh == Nth(Free(DOMAIN qtData, 1), 1)
      copy == [own |-> CopiedOwn(qtObjects[o].kind, qtData[d].own), below |-> qtData[d].below]
  IN IF Cardinality(Sharing(qtObjects, d)) = 1 THEN [objects |-> qtObjects, data |-> qtData]
     ELSE [objects |-> Updated(qtObjects, [i \in {o} |-> [kind |-> qtObjects[o].kind, d |-> fresh]]),
           data |-> Updated(qtData, [i \in {fresh} |-> copy])]

\* QSharedDataPointer: before an access that may change it, data that is shared
\* is copied, and with it the objects below, each of them sharing its data.
detached(o) ==
  LET d == qtObjects[o].d
      below == qtData[d].below
      slots == {i \in DOMAIN below : below[i] # NoObject}
      clones == Free(DOMAIN qtObjects, Cardinality(slots))
      CloneOf(i) == Nth(clones, Cardinality({j \in slots : j <= i}))
      fresh == Nth(Free(DOMAIN qtData, 1), 1)
      copy == [own |-> CopiedOwn(qtObjects[o].kind, qtData[d].own),
               below |-> [i \in DOMAIN below |-> IF i \in slots THEN CloneOf(i) ELSE NoObject]]
      cloned == [c \in clones |-> qtObjects[below[CHOOSE i \in slots : CloneOf(i) = c]]]
  IN IF Cardinality(Sharing(qtObjects, d)) = 1 THEN [objects |-> qtObjects, data |-> qtData]
     ELSE [objects |-> Updated(Updated(qtObjects, cloned), [i \in {o} |-> [kind |-> qtObjects[o].kind, d |-> fresh]]),
           data |-> Updated(qtData, [i \in {fresh} |-> copy])]

\* There is room to detach an object (the bound on objects)
Room(o) ==
  LET d == qtObjects[o].d
  IN Cardinality(Sharing(qtObjects, d)) = 1
     \/ /\ Cardinality(DOMAIN qtData) < MaxObjects
        /\ Cardinality(DOMAIN qtObjects) + Cardinality(Objects(qtData[d].below)) <= MaxObjects

\* <<kind, own, below>>; the prefixes of a query are left out
Value(o) ==
  LET Of[n \in 0..MaxObjects, p \in DOMAIN qtObjects] ==
        LET data == qtData[qtObjects[p].d]
        IN IF n = 0 THEN <<>>
           ELSE <<qtObjects[p].kind, CopiedOwn(qtObjects[p].kind, data.own),
                  [i \in DOMAIN data.below |-> IF data.below[i] = NoObject THEN <<>> ELSE Of[n - 1, data.below[i]]]>>
  IN Of[MaxObjects, o]
-----------------------------------------------------------------------------
Takes(class, o) == o = NoObject \/ (o \in qtUser /\ BaseClass(qtObjects[o].kind) = class)
WantOf(o) == IF o = NoObject THEN <<>> ELSE qtWant[o]

\* A constructor takes over the objects it is given.
construct(kind, below) ==
  LET o == Nth(Free(DOMAIN qtObjects, 1), 1)
      d == Nth(Free(DOMAIN qtData, 1), 1)
  IN /\ Cardinality(DOMAIN qtObjects) < MaxObjects /\ Cardinality(DOMAIN qtData) < MaxObjects
     /\ Cardinality(qtUser \ Objects(below)) < MaxHeld
     /\ \A i \in DOMAIN below : Takes(Below(kind)[i], below[i])
     /\ \A i, j \in DOMAIN below : i # j => below[i] # below[j] \/ below[i] = NoObject
     /\ qtObjects' = Updated(qtObjects, [i \in {o} |-> [kind |-> kind, d |-> d]])
     /\ qtData' = Updated(qtData, [i \in {d} |-> [own |-> "a", below |-> below]])
     /\ qtUser' = (qtUser \ Objects(below)) \cup {o}
     /\ qtWant' = Updated(Only(qtWant, qtUser'),
                          [i \in {o} |-> <<kind, "a", [j \in DOMAIN below |-> WantOf(below[j])]>>])
     /\ UNCHANGED qtLeaked

\* The copy constructor, and clone()
clone(o) ==
  LET c == Nth(Free(DOMAIN qtObjects, 1), 1)
  IN /\ o \in qtUser /\ Cardinality(DOMAIN qtObjects) < MaxObjects /\ Cardinality(qtUser) < MaxHeld
     /\ qtObjects' = Updated(qtObjects, [i \in {c} |-> qtObjects[o]])
     /\ qtUser' = qtUser \cup {c}
     /\ qtWant' = Updated(qtWant, [i \in {c} |-> qtWant[o]])
     /\ UNCHANGED <<qtData, qtLeaked>>

\* operator=: the data of the object is let go.
assignFrom(o, other) ==
  LET d == qtObjects[o].d
      below == Objects(qtData[d].below)
      swapped == Updated(qtObjects, [i \in {o} |-> qtObjects[other]])
      left == IF d = qtObjects[other].d \/ Cardinality(Sharing(qtObjects, d)) > 1
              THEN [objects |-> swapped, data |-> qtData]
              ELSE Without(swapped, Only(qtData, DOMAIN qtData \ {d}), below)
  IN /\ {o, other} \subseteq qtUser /\ o # other /\ qtObjects[o].kind = qtObjects[other].kind
     /\ qtObjects' = left.objects /\ qtData' = left.data
     /\ qtWant' = [qtWant EXCEPT ![o] = qtWant[other]]
     /\ UNCHANGED <<qtUser, qtLeaked>>

destroy(o) ==
  LET left == Without(qtObjects, qtData, {o})
  IN /\ o \in qtUser
     /\ qtObjects' = left.objects /\ qtData' = left.data
     /\ qtUser' = qtUser \ {o} /\ qtWant' = Only(qtWant, qtUser')
     /\ UNCHANGED qtLeaked

\* setExpression, setFirst, setSecond, setVariable, setSubject, setCondition ...:
\* the object is taken over; what was there is deleted, or left to nobody.
set(o, slot, e) ==
  LET after == detached(o)
      d == after.objects[o].d
      old == after.data[d].below[slot]
      linked == Updated(after.data, [i \in {d} |-> [after.data[d] EXCEPT !.below[slot] = e]])
      left == IF qtObjects[o].kind \in Deleting THEN Without(after.objects, linked, {old} \ {NoObject})
              ELSE [objects |-> after.objects, data |-> linked]
  IN /\ o \in qtUser /\ e # o /\ qtObjects[o].kind \in Deleting \cup Leaking
     /\ Takes(Below(qtObjects[o].kind)[slot], e) /\ Room(o)
     /\ qtObjects' = left.objects /\ qtData' = left.data
     /\ qtUser' = qtUser \ {e}
     /\ qtWant' = [Only(qtWant, qtUser') EXCEPT ![o][3][slot] = WantOf(e)]
     /\ qtLeaked' = IF qtObjects[o].kind \in Leaking THEN qtLeaked \cup ({old} \ {NoObject}) ELSE qtLeaked

\* addConditon and addVariable
append(o, e) ==
  LET after == detached(o)
      d == after.objects[o].d
  IN /\ {o, e} \subseteq qtUser /\ e # o /\ Room(o)
     /\ BaseClass(qtObjects[e].kind) \in Appended(qtObjects[o].kind)
     /\ qtObjects' = after.objects
     /\ qtData' = [after.data EXCEPT ![d].below = Append(@, e)]
     /\ qtUser' = qtUser \ {e}
     /\ qtWant' = [Only(qtWant, qtUser') EXCEPT ![o][3] = Append(@, qtWant[e])]
     /\ UNCHANGED qtLeaked

\* setValue, setPattern, setFirst of a date and time, addPrefix
setOwn(o) ==
  LET after == detached(o)
      kind == qtObjects[o].kind
  IN /\ o \in qtUser /\ Room(o) /\ kind \in {"String", "Regexp", "Query"} \cup DateTimeComparisons
     /\ qtObjects' = after.objects
     /\ qtData' = [after.data EXCEPT ![after.objects[o].d].own = "b"]
     /\ qtWant' = [qtWant EXCEPT ![o][2] = CopiedOwn(kind, "b")]
     /\ UNCHANGED <<qtUser, qtLeaked>>

\* prefixes(), pattern() and flags() are not const: they detach.
getOwn(o) ==
  LET after == detached(o)
  IN /\ o \in qtUser /\ Room(o) /\ qtObjects[o].kind \in {"Regexp", "Query"}
     /\ qtObjects' = after.objects /\ qtData' = after.data
     /\ UNCHANGED <<qtUser, qtWant, qtLeaked>>

QtNext ==
  /\ UNCHANGED qtMakes
  /\ \/ \E kind \in qtMakes : \E below \in [DOMAIN Below(kind) -> qtUser \cup {NoObject}] : construct(kind, below)
     \/ \E o \in qtUser : clone(o) \/ destroy(o) \/ setOwn(o) \/ getOwn(o)
     \/ \E o, other \in qtUser : assignFrom(o, other) \/ append(o, other)
     \/ \E o \in qtUser, e \in qtUser \cup {NoObject} :
          \E slot \in DOMAIN Below(qtObjects[o].kind) : set(o, slot, e)
-----------------------------------------------------------------------------
Places(o) ==
  {p \in (DOMAIN qtData) \X (1..4) : p[2] \in DOMAIN qtData[p[1]].below /\ qtData[p[1]].below[p[2]] = o}

(***************************************************************************)
(* Whatever is copied, changed and deleted in which order: nothing below   *)
(* an object is deleted, every object is owned once, by the user or by one *)
(* place in the data, or was left behind by a setter that deletes nothing, *)
(* no data outlives its objects, and a copy keeps its value (but for the   *)
(* prefixes) when the original changes.                                    *)
(***************************************************************************)
QueriesIndependent ==
  /\ \A d \in DOMAIN qtData : Objects(qtData[d].below) \subseteq DOMAIN qtObjects
  /\ \A d \in DOMAIN qtData : Sharing(qtObjects, d) # {}
  /\ \A o \in DOMAIN qtObjects :
       /\ qtObjects[o].d \in DOMAIN qtData
       /\ Cardinality(Places(o)) = IF o \in qtUser \cup qtLeaked THEN 0 ELSE 1
  /\ qtLeaked \cap qtUser = {} /\ qtUser \cup qtLeaked \subseteq DOMAIN qtObjects
  /\ \A o \in qtUser : Value(o) = qtWant[o]
=============================================================================
