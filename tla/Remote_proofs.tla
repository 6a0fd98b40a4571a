---------------------------- MODULE Remote_proofs ----------------------------
(***************************************************************************)
(* Proofs about remote access.  The pool of models, for any set of         *)
(* connections, names and ids: ids, names and models correspond one to     *)
(* one, and what the pool does not see are the overlaps PoolExact names    *)
(* and no others.  The D-Bus interface, for any programs, names, calls and *)
(* order of events: every program gets the answer to its own call.  The    *)
(* SPARQL client, for any number of requests and any nesting of waiting    *)
(* calls: every caller gets the answer and the error of its own request;   *)
(* and for any tables an endpoint answers with, every read gives the node  *)
(* of its row and variable.  The iterators in which all of them return     *)
(* their results, for any handles, graphs and order of calls: a shared     *)
(* backend is freed once and its elements are shown once.                  *)
(***************************************************************************)
EXTENDS ModelPool, DBus, SparqlEndpoint, Iterators, SequenceTheorems, FiniteSetTheorems, FunctionTheorems, TLAPS
-----------------------------------------------------------------------------
(***************************************************************************)
(* ModelPool.                                                              *)
(***************************************************************************)
Named == {name \in DOMAIN mpNameMap : mpNameMap[name] # 0}
IsModelOf(m, name) == m \in 1..Len(mpName) /\ mpName[m] = name

MpSteps == [at : {"idle", "delete", "wipe"}, name : MpNames \cup MpRemoved \cup {""}]

MpTypeOK ==
  /\ mpName \in Seq(MpNames)
  /\ mpStep \in [MpThreads -> MpSteps]
  /\ mpOverlapped \in [names : SUBSET (MpNames \cup MpRemoved), models : SUBSET Int]

\* ids and names
Paired ==
  /\ \A n1, n2 \in Named : mpNameMap[n1] = mpNameMap[n2] => n1 = n2
  /\ \A name \in Named : mpNameMap[name] \in DOMAIN mpIdMap
  /\ \A id \in DOMAIN mpIdMap \ {0} : \E name \in Named : mpNameMap[name] = id

\* names and models, of the pool and of the core
PoolModels ==
  \A name \in Named :
    /\ IsModelOf(mpIdMap[mpNameMap[name]], name)
    /\ name \in mpOverlapped.names \/ (name \in DOMAIN mpModels /\ mpModels[name] = mpIdMap[mpNameMap[name]])

CoreModels ==
  /\ \A name \in DOMAIN mpModels :
       mpModels[name] = 0 \/ (IsModelOf(mpModels[name], name) /\ mpModels[name] \notin mpDeleted)
  /\ mpDeleted \subseteq 1..Len(mpName)

(***************************************************************************)
(* Strengthening: a name in the pool whose model is about to be deleted is *)
(* known to overlap, and so is a model whose data is about to be deleted.  *)
(***************************************************************************)
RemovalsNoted ==
  /\ \A name \in Named : Removing(name, "delete") => name \in mpOverlapped.names
  /\ \A name \in DOMAIN mpModels :
       Removing(name, "wipe") /\ mpModels[name] # 0 => mpModels[name] \in mpOverlapped.models
  /\ mpWiped \subseteq mpOverlapped.models

Inv == MpTypeOK /\ Paired /\ PoolModels /\ CoreModels /\ RemovalsNoted
-----------------------------------------------------------------------------
USE DEF MpSteps

LEMMA NamesCounted == MpTypeOK => Len(mpName) \in Nat
  BY LenProperties DEF MpTypeOK

LEMMA InvIsExact == Inv => PoolExact
<1> SUFFICES ASSUME Inv PROVE PoolExact
  OBVIOUS
<1> USE DEF Inv
<1>1. IsInjective([name \in Named |-> mpNameMap[name]])
  BY DEF IsInjective, Paired
<1>2. {mpNameMap[name] : name \in Named} = DOMAIN mpIdMap \ {0}
  BY DEF Paired, Named
<1>3. ASSUME NEW name \in Named
      PROVE  /\ mpIdMap[mpNameMap[name]] # 0 /\ mpName[mpIdMap[mpNameMap[name]]] = name
             /\ name \in mpOverlapped.names
                \/ (name \in DOMAIN mpModels /\ mpModels[name] = mpIdMap[mpNameMap[name]])
  <2>1. IsModelOf(mpIdMap[mpNameMap[name]], name)
    BY DEF PoolModels
  <2>2. Len(mpName) \in Nat
    BY NamesCounted
  <2>3. mpIdMap[mpNameMap[name]] # 0
    BY <2>1, <2>2 DEF IsModelOf
  <2> QED
    BY <2>1, <2>3 DEF IsModelOf, PoolModels
<1>4. \A name \in DOMAIN mpModels : mpModels[name] \notin mpDeleted
  <2>1. 0 \notin mpDeleted
    BY NamesCounted DEF CoreModels
  <2> QED
    BY <2>1 DEF CoreModels
<1>5. mpWiped \subseteq mpOverlapped.models
  BY DEF RemovalsNoted
<1> QED
  BY <1>1, <1>2, <1>3, <1>4, <1>5, Zenon DEF PoolExact, Named

LEMMA InitInv == MpInit => Inv
<1> SUFFICES ASSUME MpInit PROVE Inv
  OBVIOUS
<1>1. MpTypeOK
  <2>1. mpName \in Seq(MpNames)
    BY DEF MpInit
  <2>2. MpIdle \in MpSteps
    BY DEF MpIdle
  <2>3. mpStep \in [MpThreads -> MpSteps]
    BY <2>2, Zenon DEF MpInit
  <2> QED
    BY <2>1, <2>3 DEF MpInit, MpTypeOK
<1>2. DOMAIN mpNameMap = {} /\ DOMAIN mpIdMap = {} /\ DOMAIN mpModels = {} /\ mpDeleted = {} /\ mpWiped = {}
  BY DEF MpInit
<1>3. Named = {}
  BY <1>2 DEF Named
<1> QED
  BY <1>1, <1>2, <1>3 DEF Inv, Paired, PoolModels, CoreModels, RemovalsNoted
-----------------------------------------------------------------------------
\* What the core returns: the model it has under the name, a new one, or none (0).
CoreReturns(name, m) ==
  /\ mpName' \in Seq(MpNames)
  /\ \A k \in 1..Len(mpName) : k \in 1..Len(mpName') /\ mpName'[k] = mpName[k]
  /\ m # 0 => m \in 1..Len(mpName') /\ mpName'[m] = name /\ m \notin mpDeleted
  /\ DOMAIN mpModels' = DOMAIN mpModels \cup {name} /\ mpModels'[name] = m
  /\ \A n \in DOMAIN mpModels : mpModels'[n] = mpModels[n]
  /\ mpDeleted \subseteq 1..Len(mpName')

LEMMA CoreModelFacts ==
  ASSUME Inv, NEW name \in MpNames, NEW m \in 0..MpMaxModels, coreModel(name, m)
  PROVE  CoreReturns(name, m)
<1> USE DEF Inv, CoreReturns
<1>1. Len(mpName) \in Nat /\ mpName \in Seq(MpNames)
  BY NamesCounted DEF MpTypeOK
<1>2. CASE name \in DOMAIN mpModels
  BY <1>1, <1>2 DEF coreModel, CoreModels, IsModelOf
<1>3. CASE name \notin DOMAIN mpModels /\ m = 0
  BY <1>1, <1>3 DEF coreModel, CoreModels, IsModelOf, MpWith
<1>4. CASE name \notin DOMAIN mpModels /\ m # 0
  <2>1. m = Len(mpName) + 1 /\ mpName' = Append(mpName, name) /\ mpModels' = MpWith(mpModels, name, m)
    BY <1>4 DEF coreModel
  <2>2. /\ mpName' \in Seq(MpNames) /\ Len(mpName') = Len(mpName) + 1
        /\ \A i \in 1..Len(mpName) : mpName'[i] = mpName[i]
        /\ mpName'[Len(mpName) + 1] = name
    BY <1>1, <2>1, AppendProperties
  <2>3. m \notin mpDeleted /\ mpDeleted \subseteq 1..Len(mpName')
    BY <1>1, <2>1, <2>2 DEF CoreModels
  <2>4. \A k \in 1..Len(mpName) : k \in 1..Len(mpName') /\ mpName'[k] = mpName[k]
    BY <1>1, <2>2
  <2>5. m \in 1..Len(mpName') /\ mpName'[m] = name
    BY <1>1, <2>1, <2>2
  <2>6. /\ DOMAIN mpModels' = DOMAIN mpModels \cup {name} /\ mpModels'[name] = m
        /\ \A n \in DOMAIN mpModels : mpModels'[n] = mpModels[n]
    BY <1>4, <2>1 DEF MpWith
  <2> QED
    BY <2>2, <2>3, <2>4, <2>5, <2>6
<1> QED
  BY <1>2, <1>3, <1>4

\* A thread that starts a removal changes no other thread's step, nor whether somebody is about to
\* delete data.
LEMMA RemovalStarts ==
  ASSUME MpTypeOK, NEW t \in MpThreads, NEW name \in MpRemoved, MpAt(t, "idle"),
         mpStep' = [mpStep EXCEPT ![t] = [at |-> "delete", name |-> name]]
  PROVE  /\ mpStep' \in [MpThreads -> MpSteps]
         /\ \A n : Removing(n, "delete")' => n = name \/ Removing(n, "delete")
         /\ \A n : Removing(n, "wipe")' => Removing(n, "wipe")
  BY DEF MpTypeOK, Removing, MpAt

\* What has overlapped stays noted, and so is a model that is created before the data of its name is
\* deleted.
Noted(name, m) ==
  /\ mpOverlapped' \in [names : SUBSET (MpNames \cup MpRemoved), models : SUBSET Int]
  /\ mpOverlapped.names \subseteq mpOverlapped'.names
  /\ mpOverlapped.models \subseteq mpOverlapped'.models
  /\ Removing(name, "wipe") /\ m # 0 => m \in mpOverlapped'.models

LEMMA CreatedNotes ==
  ASSUME Inv, NEW name \in MpNames, NEW m \in 0..MpMaxModels, NEW pooled \in BOOLEAN, Created(name, m, pooled)
  PROVE  Noted(name, m) /\ (pooled /\ Removing(name, "delete") => name \in mpOverlapped'.names)
<1> DEFINE ns == mpOverlapped.names \cup (IF pooled /\ Removing(name, "delete") THEN {name} ELSE {})
           ms == mpOverlapped.models \cup (IF Removing(name, "wipe") THEN {m} ELSE {})
<1>1. mpOverlapped' = [names |-> ns, models |-> ms]
  BY DEF Created
<1>2. mpOverlapped.names \in SUBSET (MpNames \cup MpRemoved) /\ mpOverlapped.models \in SUBSET Int
  BY DEF Inv, MpTypeOK
<1>3. m \in Int
  BY MpMaxModelsAssumption
<1>4. ns \in SUBSET (MpNames \cup MpRemoved) /\ ms \in SUBSET Int
  BY <1>2, <1>3
<1> HIDE DEF ns, ms
<1>5. mpOverlapped'.names = ns /\ mpOverlapped'.models = ms
      /\ mpOverlapped' \in [names : SUBSET (MpNames \cup MpRemoved), models : SUBSET Int]
  BY <1>1, <1>4
<1> QED
  BY <1>5 DEF ns, ms, Noted

\* The core's part of createModel, of either caller, keeps the core's models.
LEMMA CoreKeeps ==
  ASSUME Inv, NEW name \in MpNames, NEW m \in 0..MpMaxModels, coreModel(name, m), Noted(name, m),
         mpStep' = mpStep, mpDeleted' = mpDeleted, mpWiped' = mpWiped
  PROVE  /\ MpTypeOK' /\ CoreModels'
         /\ \A n \in DOMAIN mpModels' :
              Removing(n, "wipe")' /\ mpModels'[n] # 0 => mpModels'[n] \in mpOverlapped'.models
         /\ mpWiped' \subseteq mpOverlapped'.models
<1> USE DEF Inv
<1>0. CoreReturns(name, m)
  BY CoreModelFacts
<1>2. MpTypeOK'
  BY <1>0 DEF CoreReturns, Noted, MpTypeOK
<1>3. CoreModels'
  <2> SUFFICES ASSUME NEW n \in DOMAIN mpModels', mpModels'[n] # 0
               PROVE  mpName'[mpModels'[n]] = n /\ mpModels'[n] \in 1..Len(mpName')
                      /\ mpModels'[n] \notin mpDeleted
    <3>1. mpDeleted' \subseteq 1..Len(mpName')
      BY <1>0 DEF CoreReturns
    <3> QED
      BY <3>1 DEF CoreModels, IsModelOf
  <2>1. CASE n = name
    BY <2>1, <1>0 DEF CoreReturns, IsModelOf
  <2>2. CASE n # name
    <3>1. n \in DOMAIN mpModels /\ mpModels'[n] = mpModels[n]
      BY <2>2, <1>0 DEF CoreReturns
    <3>2. IsModelOf(mpModels[n], n) /\ mpModels[n] \notin mpDeleted
      BY <3>1 DEF CoreModels
    <3>3. mpModels[n] \in Int
      BY <3>2, NamesCounted DEF IsModelOf
    <3> QED
      BY <3>1, <3>2, <3>3, <1>0 DEF CoreReturns, IsModelOf
  <2> QED
    BY <2>1, <2>2
<1>4. ASSUME NEW n \in DOMAIN mpModels', Removing(n, "wipe")', mpModels'[n] # 0
      PROVE  mpModels'[n] \in mpOverlapped'.models
  <2>1. Removing(n, "wipe")
    BY <1>4 DEF Removing, MpAt
  <2>2. CASE n = name
    BY <1>4, <2>1, <2>2, <1>0 DEF CoreReturns, Noted
  <2>3. CASE n # name
    BY <1>4, <2>1, <2>3, <1>0 DEF CoreReturns, Noted, RemovalsNoted
  <2> QED
    BY <2>2, <2>3
<1> QED
  BY <1>2, <1>3, <1>4 DEF Noted, RemovalsNoted

\* The names that are in the pool before and after the core's part keep their models.
LEMMA PoolKeeps ==
  ASSUME Inv, NEW name \in MpNames, NEW m \in 0..MpMaxModels, coreModel(name, m),
         Noted(name, m),
         NEW n \in Named
  PROVE  /\ mpIdMap[mpNameMap[n]] \in 1..Len(mpName') /\ mpName'[mpIdMap[mpNameMap[n]]] = n
         /\ \/ n \in mpOverlapped'.names
            \/ n \in DOMAIN mpModels' /\ mpModels'[n] = mpIdMap[mpNameMap[n]]
<1> USE DEF Inv
<1>0. CoreReturns(name, m)
  BY CoreModelFacts
<1>1. IsModelOf(mpIdMap[mpNameMap[n]], n) /\ mpIdMap[mpNameMap[n]] \in Int
  BY NamesCounted DEF PoolModels, IsModelOf
<1>2. mpIdMap[mpNameMap[n]] \in 1..Len(mpName') /\ mpName'[mpIdMap[mpNameMap[n]]] = n
  BY <1>1, <1>0 DEF CoreReturns, IsModelOf
<1> QED
  BY <1>2, <1>0 DEF CoreReturns, Noted, PoolModels, IsModelOf
-----------------------------------------------------------------------------
\* createModel of a connection for a name that has no id
LEMMA PooledInv ==
  ASSUME Inv, NEW t \in MpConnections, NEW name \in MpNames, name \notin DOMAIN mpNameMap, createPooled(t, name)
  PROVE  Inv'
<1> USE DEF Inv
<1>1. PICK m \in 0..MpMaxModels :
        /\ coreModel(name, m)
        /\ IF m = 0 THEN UNCHANGED <<mpIdMap, mpNameMap, mpOverlapped>>
           ELSE /\ \E id \in generateUniqueId :
                     mpIdMap' = MpWith(mpIdMap, id, m) /\ mpNameMap' = MpWith(mpNameMap, name, id)
                /\ Created(name, m, TRUE)
  BY DEF createPooled
<1>2. mpStep' = mpStep /\ mpDeleted' = mpDeleted /\ mpWiped' = mpWiped
  BY DEF createPooled
<1>3. Noted(name, m) /\ (m # 0 /\ Removing(name, "delete") => name \in mpOverlapped'.names)
  <2>1. CASE m = 0
    BY <1>1, <2>1 DEF MpTypeOK, Noted
  <2>2. CASE m # 0
    BY <1>1, <2>2, CreatedNotes
  <2> QED
    BY <2>1, <2>2
<1>4. /\ MpTypeOK' /\ CoreModels'
      /\ \A n \in DOMAIN mpModels' :
           Removing(n, "wipe")' /\ mpModels'[n] # 0 => mpModels'[n] \in mpOverlapped'.models
      /\ mpWiped' \subseteq mpOverlapped'.models
  BY <1>1, <1>2, <1>3, CoreKeeps
<1>5. \A n \in Named :
        /\ mpIdMap[mpNameMap[n]] \in 1..Len(mpName') /\ mpName'[mpIdMap[mpNameMap[n]]] = n
        /\ \/ n \in mpOverlapped'.names
           \/ n \in DOMAIN mpModels' /\ mpModels'[n] = mpIdMap[mpNameMap[n]]
  BY <1>1, <1>3, PoolKeeps
<1>6. \A n : Removing(n, "delete")' <=> Removing(n, "delete")
  BY <1>2 DEF Removing, MpAt
<1>7. Paired' /\ PoolModels' /\ (\A n \in Named' : Removing(n, "delete")' => n \in mpOverlapped'.names)
  <2>1. CASE m = 0
    <3>1. mpIdMap' = mpIdMap /\ mpNameMap' = mpNameMap
      BY <1>1, <2>1
    <3> QED
      BY <1>3, <1>5, <1>6, <3>1 DEF Named, Paired, PoolModels, IsModelOf, RemovalsNoted, Noted
  <2>2. CASE m # 0
    <3>1. PICK id \in generateUniqueId :
            mpIdMap' = MpWith(mpIdMap, id, m) /\ mpNameMap' = MpWith(mpNameMap, name, id)
      BY <1>1, <2>2
    <3>2. /\ DOMAIN mpNameMap' = DOMAIN mpNameMap \cup {name} /\ mpNameMap'[name] = id
          /\ \A n \in DOMAIN mpNameMap : n # name /\ mpNameMap'[n] = mpNameMap[n]
      BY <3>1 DEF MpWith
    <3>3. /\ DOMAIN mpIdMap' = DOMAIN mpIdMap \cup {id} /\ mpIdMap'[id] = m /\ id \notin DOMAIN mpIdMap
          /\ \A i \in DOMAIN mpIdMap : mpIdMap'[i] = mpIdMap[i]
      BY <3>1 DEF MpWith, generateUniqueId
    <3>4. \A n \in Named : /\ n \in Named' /\ n # name /\ mpNameMap'[n] = mpNameMap[n] /\ mpNameMap[n] # id
                            /\ mpIdMap'[mpNameMap'[n]] = mpIdMap[mpNameMap[n]]
      BY <3>2, <3>3 DEF Named, Paired
    <3>5. \A n \in Named' : n \in Named \/ n = name
      BY <3>2 DEF Named
    <3>6. Paired'
      <4>1. \A n1, n2 \in Named' : mpNameMap'[n1] = mpNameMap'[n2] => n1 = n2
        BY <3>2, <3>4, <3>5 DEF Paired
      <4>2. \A n \in Named' : mpNameMap'[n] \in DOMAIN mpIdMap'
        BY <3>2, <3>3, <3>4, <3>5 DEF Paired
      <4>3. \A i \in DOMAIN mpIdMap' \ {0} : \E n \in Named' : mpNameMap'[n] = i
        BY <3>2, <3>3, <3>4 DEF Paired, Named
      <4> QED
        BY <4>1, <4>2, <4>3 DEF Paired
    <3>7. CoreReturns(name, m)
      BY <1>1, CoreModelFacts
    <3>8. PoolModels'
      <4> SUFFICES ASSUME NEW n \in Named'
                   PROVE  /\ mpIdMap'[mpNameMap'[n]] \in 1..Len(mpName') /\ mpName'[mpIdMap'[mpNameMap'[n]]] = n
                          /\ \/ n \in mpOverlapped'.names
                             \/ n \in DOMAIN mpModels' /\ mpModels'[n] = mpIdMap'[mpNameMap'[n]]
        BY DEF PoolModels, IsModelOf
      <4>1. CASE n \in Named
        BY <1>5, <3>4, <4>1
      <4>2. CASE n = name
        BY <2>2, <3>2, <3>3, <3>7, <4>2 DEF CoreReturns
      <4> QED
        BY <3>5, <4>1, <4>2
    <3>9. \A n \in Named' : Removing(n, "delete")' => n \in mpOverlapped'.names
      BY <1>3, <1>6, <2>2, <3>5 DEF RemovalsNoted, Noted
    <3> QED
      BY <3>6, <3>8, <3>9
  <2> QED
    BY <2>1, <2>2
<1> QED
  BY <1>4, <1>7 DEF RemovalsNoted

LEMMA BusCreateInv ==
  ASSUME Inv, NEW name \in MpNames, createOnBus(name)
  PROVE  Inv'
<1> USE DEF Inv
<1>1. PICK m \in 0..MpMaxModels : coreModel(name, m) /\ Created(name, m, FALSE)
  BY DEF createOnBus
<1>2. /\ mpStep' = mpStep /\ mpDeleted' = mpDeleted /\ mpWiped' = mpWiped
      /\ mpIdMap' = mpIdMap /\ mpNameMap' = mpNameMap
  BY DEF createOnBus
<1>3. Noted(name, m)
  BY <1>1, CreatedNotes
<1>4. /\ MpTypeOK' /\ CoreModels'
      /\ \A n \in DOMAIN mpModels' :
           Removing(n, "wipe")' /\ mpModels'[n] # 0 => mpModels'[n] \in mpOverlapped'.models
      /\ mpWiped' \subseteq mpOverlapped'.models
  BY <1>1, <1>2, <1>3, CoreKeeps
<1>5. \A n \in Named :
        /\ mpIdMap[mpNameMap[n]] \in 1..Len(mpName') /\ mpName'[mpIdMap[mpNameMap[n]]] = n
        /\ \/ n \in mpOverlapped'.names
           \/ n \in DOMAIN mpModels' /\ mpModels'[n] = mpIdMap[mpNameMap[n]]
  BY <1>1, <1>3, PoolKeeps
<1>6. \A n : Removing(n, "delete")' <=> Removing(n, "delete")
  BY <1>2 DEF Removing, MpAt
<1>7. Paired' /\ PoolModels' /\ (\A n \in Named' : Removing(n, "delete")' => n \in mpOverlapped'.names)
  BY <1>2, <1>3, <1>5, <1>6 DEF Named, Paired, PoolModels, IsModelOf, RemovalsNoted, Noted
<1> QED
  BY <1>4, <1>7 DEF RemovalsNoted

LEMMA RemovePooledInv ==
  ASSUME Inv, NEW t \in MpConnections, NEW name \in MpRemoved, removePooled(t, name)
  PROVE  Inv'
<1> USE DEF Inv
<1>1. /\ mpStep' = [mpStep EXCEPT ![t] = [at |-> "delete", name |-> name]] /\ MpAt(t, "idle") /\ t \in MpThreads
      /\ mpModels' = mpModels /\ mpName' = mpName /\ mpDeleted' = mpDeleted /\ mpWiped' = mpWiped
  BY DEF removePooled, MpThreads
<1>2. /\ mpStep' \in [MpThreads -> MpSteps]
      /\ \A n : Removing(n, "delete")' => n = name \/ Removing(n, "delete")
      /\ \A n : Removing(n, "wipe")' => Removing(n, "wipe")
  BY <1>1, RemovalStarts
<1>3. /\ mpOverlapped' \in [names : SUBSET (MpNames \cup MpRemoved), models : SUBSET Int]
      /\ mpOverlapped'.names = mpOverlapped.names \ {name} /\ mpOverlapped'.models = mpOverlapped.models
  BY DEF removePooled, MpTypeOK
<1>4. DOMAIN mpNameMap' = DOMAIN mpNameMap \ {name} /\ \A n \in DOMAIN mpNameMap' : mpNameMap'[n] = mpNameMap[n]
  BY DEF removePooled, poolRemove, MpWithout, Restrict
<1>5. PICK id : /\ id = IF name \in DOMAIN mpNameMap THEN mpNameMap[name] ELSE 0
                /\ mpIdMap' = MpWithout(mpIdMap, id)
  BY DEF removePooled, poolRemove
<1>6. DOMAIN mpIdMap' = DOMAIN mpIdMap \ {id} /\ \A i \in DOMAIN mpIdMap' : mpIdMap'[i] = mpIdMap[i]
  BY <1>5 DEF MpWithout, Restrict
<1>7. \A n : n \in Named' <=> n \in Named /\ n # name
  BY <1>4 DEF Named
<1>8. \A n \in Named' : mpNameMap[n] # id /\ mpNameMap'[n] = mpNameMap[n] /\ mpNameMap[n] \in DOMAIN mpIdMap'
                        /\ mpIdMap'[mpNameMap'[n]] = mpIdMap[mpNameMap[n]]
  BY <1>4, <1>5, <1>6, <1>7 DEF Named, Paired
<1>9. MpTypeOK' /\ CoreModels'
  BY <1>1, <1>2, <1>3 DEF MpTypeOK, CoreModels, IsModelOf
<1>10. Paired'
  <2>1. \A i \in DOMAIN mpIdMap' \ {0} : \E n \in Named' : mpNameMap'[n] = i
    BY <1>4, <1>5, <1>6, <1>7, <1>8 DEF Named, Paired
  <2> QED
    BY <1>7, <1>8, <2>1 DEF Paired
<1>11. PoolModels'
  BY <1>1, <1>3, <1>7, <1>8 DEF PoolModels, IsModelOf
<1>12. RemovalsNoted'
  BY <1>1, <1>2, <1>3, <1>7 DEF RemovalsNoted
<1> QED
  BY <1>9, <1>10, <1>11, <1>12

LEMMA BusRemoveInv ==
  ASSUME Inv, NEW name \in MpRemoved, removeOnBus(name)
  PROVE  Inv'
<1> USE DEF Inv
<1>1. /\ mpStep' = [mpStep EXCEPT ![DBusThread] = [at |-> "delete", name |-> name]]
      /\ MpAt(DBusThread, "idle") /\ DBusThread \in MpThreads
      /\ mpModels' = mpModels /\ mpName' = mpName /\ mpDeleted' = mpDeleted /\ mpWiped' = mpWiped
      /\ mpIdMap' = mpIdMap /\ mpNameMap' = mpNameMap
  BY DEF removeOnBus, MpThreads
<1>2. /\ mpStep' \in [MpThreads -> MpSteps]
      /\ \A n : Removing(n, "delete")' => n = name \/ Removing(n, "delete")
      /\ \A n : Removing(n, "wipe")' => Removing(n, "wipe")
  BY <1>1, RemovalStarts
<1>3. /\ mpOverlapped' \in [names : SUBSET (MpNames \cup MpRemoved), models : SUBSET Int]
      /\ mpOverlapped'.names = mpOverlapped.names \cup ({name} \cap DOMAIN mpNameMap)
      /\ mpOverlapped'.models = mpOverlapped.models
  BY DEF removeOnBus, MpTypeOK
<1>4. Named' = Named
  BY <1>1 DEF Named
<1>5. MpTypeOK' /\ CoreModels'
  BY <1>1, <1>2, <1>3 DEF MpTypeOK, CoreModels, IsModelOf
<1>6. Paired' /\ PoolModels'
  BY <1>1, <1>3, <1>4 DEF Paired, PoolModels, IsModelOf
<1>7. RemovalsNoted'
  BY <1>1, <1>2, <1>3, <1>4 DEF RemovalsNoted, Named
<1> QED
  BY <1>5, <1>6, <1>7

LEMMA DeleteInv ==
  ASSUME Inv, NEW t \in MpThreads, deleteModel(t)
  PROVE  Inv'
<1> USE DEF Inv
<1> DEFINE name == mpStep[t].name
<1>1. /\ MpAt(t, "delete") /\ mpModels' = MpWithout(mpModels, name)
      /\ mpDeleted' = mpDeleted \cup (IF name \in DOMAIN mpModels THEN {mpModels[name]} \ {0} ELSE {})
      /\ mpIdMap' = mpIdMap /\ mpNameMap' = mpNameMap /\ mpName' = mpName
      /\ mpWiped' = mpWiped /\ mpOverlapped' = mpOverlapped
  BY DEF deleteModel
<1>2. /\ mpStep' \in [MpThreads -> MpSteps]
      /\ \A n : Removing(n, "delete")' => Removing(n, "delete")
      /\ \A n : Removing(n, "wipe")' => n = name \/ Removing(n, "wipe")
  <2>1. mpStep[t] \in MpSteps
    BY DEF MpTypeOK
  <2>2. PICK step \in MpSteps :
          /\ mpStep' = [mpStep EXCEPT ![t] = step]
          /\ step.at # "delete" /\ (step.at = "wipe" => step.name = name)
    <3>1. [mpStep[t] EXCEPT !.at = "wipe"] \in MpSteps
          /\ [mpStep[t] EXCEPT !.at = "wipe"].at = "wipe" /\ [mpStep[t] EXCEPT !.at = "wipe"].name = name
      BY <2>1
    <3>2. MpIdle \in MpSteps /\ MpIdle.at = "idle"
      BY DEF MpIdle
    <3> QED
      BY <3>1, <3>2 DEF deleteModel
  <2> HIDE DEF name
  <2> QED
    BY <2>2 DEF MpTypeOK, Removing, MpAt
<1>3. /\ DOMAIN mpModels' = DOMAIN mpModels \ {name}
      /\ \A n \in DOMAIN mpModels' : mpModels'[n] = mpModels[n]
  BY <1>1 DEF MpWithout, Restrict
<1>4. Named' = Named
  BY <1>1 DEF Named
<1>5. Removing(name, "delete")
  BY <1>1 DEF Removing
<1> HIDE DEF name
<1>6. MpTypeOK'
  BY <1>1, <1>2 DEF MpTypeOK
<1>7. Paired'
  BY <1>1, <1>4 DEF Paired
<1>8. PoolModels'
  BY <1>1, <1>3, <1>4, <1>5 DEF PoolModels, IsModelOf, RemovalsNoted
<1>9. CoreModels'
  <2>1. mpDeleted' \subseteq 1..Len(mpName')
    BY <1>1 DEF CoreModels, IsModelOf
  <2>2. ASSUME NEW n \in DOMAIN mpModels', mpModels'[n] # 0
        PROVE  IsModelOf(mpModels'[n], n) /\ mpModels'[n] \notin mpDeleted'
    <3>1. n # name /\ IsModelOf(mpModels'[n], n) /\ mpModels'[n] \notin mpDeleted
      BY <1>3, <2>2 DEF CoreModels
    <3> QED
      BY <1>1, <3>1 DEF CoreModels, IsModelOf
  <2> QED
    BY <1>1, <2>1, <2>2 DEF CoreModels, IsModelOf
<1>10. RemovalsNoted'
  BY <1>1, <1>2, <1>3, <1>4 DEF RemovalsNoted
<1> QED
  BY <1>6, <1>7, <1>8, <1>9, <1>10

LEMMA WipeInv ==
  ASSUME Inv, NEW t \in MpThreads, deleteModelData(t)
  PROVE  Inv'
<1> USE DEF Inv
<1> DEFINE name == mpStep[t].name
<1>1. /\ MpAt(t, "wipe") /\ mpStep' = [mpStep EXCEPT ![t] = MpIdle]
      /\ mpWiped' = mpWiped \cup (IF name \in DOMAIN mpModels THEN {mpModels[name]} \ {0} ELSE {})
      /\ mpModels' = mpModels /\ mpIdMap' = mpIdMap /\ mpNameMap' = mpNameMap /\ mpName' = mpName
      /\ mpDeleted' = mpDeleted /\ mpOverlapped' = mpOverlapped
  BY DEF deleteModelData
<1>2. MpIdle \in MpSteps /\ MpIdle.at = "idle"
  BY DEF MpIdle
<1>3. /\ mpStep' \in [MpThreads -> MpSteps]
      /\ \A n, at : at # "idle" /\ Removing(n, at)' => Removing(n, at)
  BY <1>1, <1>2 DEF MpTypeOK, Removing, MpAt
<1>4. Removing(name, "wipe")
  BY <1>1 DEF Removing
<1> HIDE DEF name
<1>5. Named' = Named
  BY <1>1 DEF Named
<1>6. MpTypeOK' /\ Paired' /\ PoolModels' /\ CoreModels'
  BY <1>1, <1>3, <1>5 DEF MpTypeOK, Paired, PoolModels, CoreModels, IsModelOf
<1>7. RemovalsNoted'
  BY <1>1, <1>3, <1>4, <1>5 DEF RemovalsNoted
<1> QED
  BY <1>6, <1>7
-----------------------------------------------------------------------------
LEMMA StutterInv == Inv /\ UNCHANGED mpVars => Inv'
<1> SUFFICES ASSUME Inv, UNCHANGED mpVars PROVE Inv'
  OBVIOUS
<1> USE DEF Inv, mpVars
<1>1. Named' = Named
  BY DEF Named
<1>2. MpTypeOK' /\ Paired'
  BY <1>1 DEF MpTypeOK, Paired
<1>3. PoolModels' /\ CoreModels'
  BY <1>1 DEF PoolModels, CoreModels, IsModelOf
<1>4. RemovalsNoted'
  BY <1>1 DEF RemovalsNoted, Removing, MpAt
<1> QED
  BY <1>2, <1>3, <1>4

LEMMA NextInv == Inv /\ [MpNext]_mpVars => Inv'
<1> SUFFICES ASSUME Inv, [MpNext]_mpVars PROVE Inv'
  OBVIOUS
<1>1. CASE \E t \in MpThreads : deleteModel(t)
  BY <1>1, DeleteInv
<1>2. CASE \E t \in MpThreads : deleteModelData(t)
  BY <1>2, WipeInv
<1>3. CASE \E name \in MpNames : createOnBus(name)
  BY <1>3, BusCreateInv
<1>4. CASE \E name \in MpNames, t \in MpConnections : createPooled(t, name)
  <2>1. PICK name \in MpNames, t \in MpConnections : createPooled(t, name)
    BY <1>4
  <2>2. CASE name \in DOMAIN mpNameMap
    <3>1. UNCHANGED mpVars
      BY <2>1, <2>2 DEF createPooled, mpVars
    <3> QED
      BY <3>1, StutterInv
  <2> QED
    BY <2>1, <2>2, PooledInv
<1>5. CASE \E name \in MpRemoved : removeOnBus(name)
  BY <1>5, BusRemoveInv
<1>6. CASE \E name \in MpRemoved, t \in MpConnections : removePooled(t, name)
  BY <1>6, RemovePooledInv
<1>7. CASE UNCHANGED mpVars
  BY <1>7, StutterInv
<1> QED
  BY <1>1, <1>2, <1>3, <1>4, <1>5, <1>6, <1>7, Zenon DEF MpNext

(***************************************************************************)
(* modelpool.cpp and servercore.cpp: whatever connections and the D-Bus    *)
(* interface create and remove, and wherever their steps fall, PoolExact   *)
(* holds.                                                                  *)
(***************************************************************************)
THEOREM PoolMapsOneToOne == MpInit /\ [][MpNext]_mpVars => []PoolExact
<1>1. MpInit => Inv
  BY InitInv
<1>2. Inv /\ [MpNext]_mpVars => Inv'
  BY NextInv
<1>3. Inv => PoolExact
  BY InvIsExact
<1> QED
  BY <1>1, <1>2, <1>3, PTL
-----------------------------------------------------------------------------
(***************************************************************************)
(* DBus.  A call has a number of its own and is in one place only: on the  *)
(* bus, or among the messages of the export that was called, with one      *)
(* command of its AsyncModel that answers it.  Where the caller still      *)
(* waits for it, the caller knows it, and the iterator it is about.        *)
(***************************************************************************)
AsyncMethods == DOMAIN AsyncCommands
IteratorMethods == {"next", "current", "close"}
ServerMethods == {"createModel", "removeModel"}

ModelPaths == {<<>>} \cup {<<NormalizedName[name]>> : name \in DbNames}
BusPaths == ModelPaths \cup (ModelPaths \X Nat)
BusCalls ==
  [id : Nat, method : {"none", "left", "end"} \cup ServerMethods \cup AsyncMethods \cup IteratorMethods,
   name : DbNames \cup {""}, path : BusPaths, client : DbClients \cup {""}]
AsyncRuns == [id : Nat, kind : {"write", "ask", "list", "error"}]
Exports ==
  [name : DbNames, path : ModelPaths, alive : BOOLEAN, version : Nat, queue : Seq(AsyncRuns),
   ready : Seq(AsyncRuns), delayed : Seq(BusCalls), count : Nat]
BusIterators ==
  [export : Nat, n : Nat, client : DbClients, open : BOOLEAN, version : Nat, late : BOOLEAN]
ClientModels == [name : DbNames \cup {""}, path : BusPaths]
ClientIterators == [name : DbNames \cup {""}, path : BusPaths, opened : {<<>>} \cup (Nat \X Nat)]

ServerTyped == dbExports \in Seq(Exports) /\ dbIterators \in SUBSET BusIterators
ClientsTyped ==
  /\ dbCalls \in [DbClients -> BusCalls]
  /\ dbModel \in [DbClients -> ClientModels]
  /\ dbIterator \in [DbClients -> ClientIterators]
  /\ dbAlive \in SUBSET DbClients /\ dbCount \in Nat

Asked(name) == <<NormalizedName[name]>>

\* a call, wherever it is
CallMade(call) ==
  /\ call \in BusCalls
  /\ call.id \in 1..dbCount /\ call.client \in DbClients /\ call.name \in DbNames
  /\ dbCalls[call.client].id = call.id => dbCalls[call.client] = call

OnBus(call) ==
  \/ call.client \in DbClients /\ call = Left(call.client)
  \/ /\ CallMade(call)
     /\ call.method \in ServerMethods \cup AsyncMethods \cup IteratorMethods
     /\ call.method \in AsyncMethods => call.path \in {<<>>, Asked(call.name)}

BusInv ==
  /\ dbBus \in Seq(BusCalls)
  /\ \A k \in 1..Len(dbBus) : OnBus(dbBus[k])
  /\ \A k, l \in 1..Len(dbBus) : dbBus[k].id # 0 /\ dbBus[k].id = dbBus[l].id => k = l

\* a call that an export has kept
Kept(path, call) ==
  /\ CallMade(call) /\ call.method \in AsyncMethods
  /\ path = Asked(call.name)
  /\ \A k \in 1..Len(dbBus) : dbBus[k].id # call.id

Pairwise(s) == \A k, l \in 1..Len(s) : s[k].id = s[l].id => k = l
Answers(run, call) == run.id = call.id /\ run.kind \in {"error", AsyncCommands[call.method]}

MessagesInv(x) ==
  /\ x.alive \/ (x.queue = <<>> /\ x.ready = <<>>)
  /\ Pairwise(x.queue) /\ Pairwise(x.ready) /\ Pairwise(x.delayed)
  /\ \A k \in 1..Len(x.queue), l \in 1..Len(x.ready) : x.queue[k].id # x.ready[l].id
  /\ \A k \in 1..Len(x.queue) : \E m \in 1..Len(x.delayed) : Answers(x.queue[k], x.delayed[m])
  /\ \A k \in 1..Len(x.ready) : \E m \in 1..Len(x.delayed) : Answers(x.ready[k], x.delayed[m])
  /\ \A m \in 1..Len(x.delayed) : Kept(x.path, x.delayed[m])

PathsUnique ==
  /\ \A e \in 1..Len(dbExports) : dbExports[e].path \in {<<>>, Asked(dbExports[e].name)}
  /\ \A e, f \in 1..Len(dbExports) :
       /\ dbExports[e].alive /\ dbExports[f].alive
       /\ dbExports[e].path = dbExports[f].path /\ dbExports[e].path # <<>>
       => e = f

PathsKnown ==
  \A name \in DbNames :
    dbPaths[name] # 0 => dbPaths[name] \in 1..Len(dbExports) /\ dbExports[dbPaths[name]].name = name

\* an iterator as its program has it
Opened(name, path, opened) ==
  /\ opened \in (1..Len(dbExports)) \X Nat
  /\ name \in DbNames /\ dbExports[opened[1]].path = Asked(name)
  /\ path = <<Asked(name), opened[2]>>

ClientInv(c) ==
  /\ dbCalls[c].id \in 0..dbCount
  /\ dbModel[c] # NoDbModel => dbModel[c].name \in DbNames /\ dbModel[c].path \in {<<>>, Asked(dbModel[c].name)}
  /\ dbIterator[c] # NoDbIterator => Opened(dbIterator[c].name, dbIterator[c].path, dbIterator[c].opened)
  /\ dbCalls[c].method \in IteratorMethods =>
       /\ dbIterator[c] # NoDbIterator
       /\ dbCalls[c].name = dbIterator[c].name /\ dbCalls[c].path = dbIterator[c].path

IteratorInv(it) ==
  /\ it.export \in 1..Len(dbExports)
  /\ it.open => it.version = dbExports[it.export].version
  /\ dbExports[it.export].alive
  /\ it.client \notin dbAlive => it.late \/ Contains(dbBus, Left(it.client))

GotInv ==
  dbGot # NoDbGot =>
    /\ dbGot.type \in {"error"} \cup AnswerTypes(dbGot.method)
    /\ NormalizedName[dbGot.from] = NormalizedName[dbGot.name]
    /\ dbGot.method \in {"next", "current"} /\ dbGot.type # "error" =>
         /\ dbGot.opened[1] \in 1..Len(dbExports)
         /\ dbGot.read = dbGot.opened \/ ~dbExports[dbGot.opened[1]].alive

DbInv ==
  /\ ServerTyped /\ ClientsTyped
  /\ BusInv /\ PathsUnique /\ PathsKnown /\ GotInv
  /\ \A e \in 1..Len(dbExports) : MessagesInv(dbExports[e])
  /\ \A c \in DbClients : ClientInv(c)
  /\ \A it \in dbIterators : IteratorInv(it)
LEMMA RemovedAt ==
  ASSUME NEW S, NEW s \in Seq(S), NEW i \in DOMAIN s
  PROVE  /\ RemoveAt(s, i) \in Seq(S) /\ DOMAIN RemoveAt(s, i) = 1..(Len(s) - 1)
         /\ \A j \in 1..(Len(s) - 1) : RemoveAt(s, i)[j] = s[IF j < i THEN j ELSE j + 1]
<1>1. Len(s) \in Nat /\ i \in 1..Len(s) /\ DOMAIN s = 1..Len(s)
  BY LenProperties
<1> DEFINE a == SubSeq(s, 1, i - 1)
           b == SubSeq(s, i + 1, Len(s))
<1>2. a \in Seq(S) /\ Len(a) = i - 1 /\ \A j \in 1..(i - 1) : a[j] = s[j]
  BY <1>1
<1>3. b \in Seq(S) /\ Len(b) = Len(s) - i /\ \A j \in 1..(Len(s) - i) : b[j] = s[i + j]
  BY <1>1
<1>4. RemoveAt(s, i) = a \o b
  BY DEF RemoveAt
<1> HIDE DEF a, b
<1>5. /\ a \o b \in Seq(S) /\ Len(a \o b) = Len(s) - 1
      /\ \A j \in 1..(Len(s) - 1) : (a \o b)[j] = IF j <= i - 1 THEN a[j] ELSE b[j - (i - 1)]
  <2>1. a \o b \in Seq(S) /\ Len(a \o b) = Len(a) + Len(b)
    BY <1>2, <1>3, ConcatProperties
  <2>2. \A j \in 1..(Len(a) + Len(b)) : (a \o b)[j] = IF j <= Len(a) THEN a[j] ELSE b[j - Len(a)]
    BY <1>2, <1>3, ConcatProperties
  <2>3. Len(a) + Len(b) = Len(s) - 1
    BY <1>1, <1>2, <1>3
  <2> QED
    BY <1>2, <2>1, <2>2, <2>3
<1>6. ASSUME NEW j \in 1..(Len(s) - 1)
      PROVE  (a \o b)[j] = s[IF j < i THEN j ELSE j + 1]
  <2>1. CASE j < i
    BY <1>1, <1>2, <1>5, <2>1
  <2>2. CASE ~(j < i)
    <3>1. j - (i - 1) \in 1..(Len(s) - i) /\ i + (j - (i - 1)) = j + 1
      BY <1>1, <2>2
    <3>2. ~(j <= i - 1)
      BY <1>1, <2>2
    <3>3. (a \o b)[j] = b[j - (i - 1)]
      BY <1>5, <3>2, Zenon
    <3> QED
      BY <1>3, <2>2, <3>1, <3>3
  <2> QED
    BY <2>1, <2>2
<1>7. DOMAIN (a \o b) = 1..(Len(s) - 1)
  BY <1>5, LenProperties
<1> QED
  BY <1>4, <1>5, <1>6, <1>7

-----------------------------------------------------------------------------
(***************************************************************************)
(* The methods, and what may come of them.                                 *)
(***************************************************************************)
LEMMA AsyncMethodsAre ==
  /\ AsyncMethods = {"addStatement", "removeStatement", "removeAllStatements", "isEmpty", "statementCount",
                     "containsStatement", "containsAnyStatement", "createBlankNode", "listStatements",
                     "listContexts", "executeQuery"}
  /\ \A method \in AsyncMethods : AsyncCommands[method] \in {"write", "ask", "list"}
  BY DEF AsyncMethods, AsyncCommands

LEMMA AnswerTypesAre ==
  /\ AnswerTypes("createModel") = {"path"}
  /\ \A method \in AsyncMethods : AnswerTypes(method) = {AsyncCommands[method]}
  /\ AnswerTypes("next") = {"true", "false"}
  /\ AnswerTypes("current") = {"element"}
  /\ AnswerTypes("removeModel") = {"nothing"} /\ AnswerTypes("close") = {"nothing"}
<1>1. \A method \in {"createModel", "removeModel", "next", "current", "close"} : method \notin DOMAIN AsyncCommands
  BY AsyncMethodsAre DEF AsyncMethods
<1>2. "createModel" \notin AsyncMethods
  BY AsyncMethodsAre
<1> QED
  BY <1>1, <1>2 DEF AnswerTypes, AsyncMethods

(***************************************************************************)
(* Sequences of calls or commands with different numbers.                  *)
(***************************************************************************)
\* w has the elements of s and then x
AllAnd(x, s, w) ==
  /\ Len(w) = Len(s) + 1 /\ w[Len(s) + 1] = x
  /\ \A k \in 1..Len(s) : w[k] = s[k]

LEMMA PairwiseAppend ==
  ASSUME NEW S, NEW s \in Seq(S), NEW x \in S, Pairwise(s), \A k \in 1..Len(s) : s[k].id # x.id
  PROVE  Append(s, x) \in Seq(S) /\ Pairwise(Append(s, x)) /\ AllAnd(x, s, Append(s, x))
<1>1. Len(s) \in Nat
  BY LenProperties
<1>2. /\ Append(s, x) \in Seq(S) /\ Len(Append(s, x)) = Len(s) + 1
      /\ \A k \in 1..Len(s) : Append(s, x)[k] = s[k]
      /\ Append(s, x)[Len(s) + 1] = x
  BY AppendProperties
<1>3. 1..(Len(s) + 1) = 1..Len(s) \cup {Len(s) + 1}
  BY <1>1
<1> QED
  BY <1>1, <1>2, <1>3 DEF Pairwise, AllAnd

\* w has the elements of s except the i-th
AllBut(i, s, w) ==
  /\ \A k \in 1..Len(w) : w[k].id # s[i].id /\ \E l \in 1..Len(s) : l # i /\ w[k] = s[l]
  /\ \A l \in 1..Len(s) : l # i => \E k \in 1..Len(w) : w[k] = s[l]

LEMMA PairwiseRemove ==
  ASSUME NEW S, NEW s \in Seq(S), Pairwise(s), NEW i \in 1..Len(s)
  PROVE  RemoveAt(s, i) \in Seq(S) /\ Pairwise(RemoveAt(s, i)) /\ AllBut(i, s, RemoveAt(s, i))
<1> DEFINE w == RemoveAt(s, i)
           From(k) == IF k < i THEN k ELSE k + 1
<1>1. Len(s) \in Nat /\ DOMAIN s = 1..Len(s)
  BY LenProperties
<1>2. /\ w \in Seq(S) /\ DOMAIN w = 1..(Len(s) - 1)
      /\ \A k \in 1..(Len(s) - 1) : w[k] = s[From(k)]
  BY <1>1, RemovedAt
<1> HIDE DEF w
<1>3. Len(w) = Len(s) - 1
  <2>1. Len(w) \in Nat /\ DOMAIN w = 1..Len(w)
    BY <1>2, LenProperties
  <2>2. Len(s) - 1 \in Nat
    BY <1>1
  <2>3. 1..Len(w) = 1..(Len(s) - 1)
    BY <1>2, <2>1
  <2> QED
    BY <2>1, <2>2, <2>3
<1>4. ASSUME NEW k \in 1..(Len(s) - 1)
      PROVE  From(k) \in 1..Len(s) /\ From(k) # i
  BY <1>1
<1>5. ASSUME NEW l \in 1..Len(s), l # i
      PROVE  \E k \in 1..(Len(s) - 1) : From(k) = l
  <2>1. CASE l < i
    <3>1. l \in 1..(Len(s) - 1)
      BY <1>1, <2>1
    <3> QED
      BY <2>1, <3>1
  <2>2. CASE l > i
    <3>1. l - 1 \in 1..(Len(s) - 1) /\ ~(l - 1 < i) /\ (l - 1) + 1 = l
      BY <1>1, <2>2
    <3> QED
      BY <3>1
  <2> QED
    BY <1>5, <2>1, <2>2
<1>6. ASSUME NEW k \in 1..Len(w) PROVE w[k].id # s[i].id /\ \E l \in 1..Len(s) : l # i /\ w[k] = s[l]
  BY <1>2, <1>3, <1>4 DEF Pairwise
<1>7. ASSUME NEW l \in 1..Len(s), l # i PROVE \E k \in 1..Len(w) : w[k] = s[l]
  <2>1. PICK k \in 1..(Len(s) - 1) : From(k) = l
    BY <1>5, <1>7
  <2> QED
    BY <1>2, <1>3, <2>1
<1>8. ASSUME NEW k \in 1..Len(w), NEW l \in 1..Len(w), w[k].id = w[l].id PROVE k = l
  <2>1. s[From(k)].id = s[From(l)].id
    BY <1>2, <1>3, <1>8
  <2>2. From(k) = From(l)
    BY <1>3, <1>4, <2>1 DEF Pairwise
  <2> QED
    BY <1>1, <1>3, <2>2
<1>9. Pairwise(w)
  BY <1>8 DEF Pairwise
<1> QED
  BY <1>2, <1>6, <1>7, <1>9 DEF w, AllBut

LEMMA PairwiseTail ==
  ASSUME NEW S, NEW s \in Seq(S), s # <<>>, Pairwise(s)
  PROVE  /\ Tail(s) \in Seq(S) /\ Pairwise(Tail(s)) /\ Head(s) = s[1] /\ 1 \in 1..Len(s)
         /\ \A k \in 1..Len(Tail(s)) : Tail(s)[k].id # Head(s).id /\ \E l \in 1..Len(s) : l # 1 /\ Tail(s)[k] = s[l]
         /\ \A l \in 1..Len(s) : l # 1 => \E k \in 1..Len(Tail(s)) : Tail(s)[k] = s[l]
<1>1. Len(s) \in Nat /\ 1 \in 1..Len(s)
  BY LenProperties, EmptySeq
<1>2. /\ Tail(s) \in Seq(S) /\ Head(s) = s[1] /\ Len(Tail(s)) = Len(s) - 1
      /\ \A k \in 1..(Len(s) - 1) : Tail(s)[k] = s[k + 1]
  BY HeadTailProperties
<1>3. ASSUME NEW k \in 1..(Len(s) - 1) PROVE k + 1 \in 1..Len(s) /\ k + 1 # 1
  BY <1>1
<1>4. ASSUME NEW l \in 1..Len(s), l # 1 PROVE l - 1 \in 1..(Len(s) - 1) /\ (l - 1) + 1 = l
  BY <1>1, <1>4
<1>5. ASSUME NEW k \in 1..(Len(s) - 1)
      PROVE  Tail(s)[k].id # s[1].id /\ \E l \in 1..Len(s) : l # 1 /\ Tail(s)[k] = s[l]
  BY <1>1, <1>2, <1>3 DEF Pairwise
<1>6. ASSUME NEW l \in 1..Len(s), l # 1 PROVE \E k \in 1..(Len(s) - 1) : Tail(s)[k] = s[l]
  BY <1>2, <1>4, <1>6
<1>7. ASSUME NEW k \in 1..(Len(s) - 1), NEW l \in 1..(Len(s) - 1), Tail(s)[k].id = Tail(s)[l].id PROVE k = l
  <2>1. s[k + 1].id = s[l + 1].id
    BY <1>2, <1>7
  <2>2. k + 1 = l + 1
    BY <1>3, <2>1 DEF Pairwise
  <2> QED
    BY <1>1, <2>2
<1> QED
  BY <1>1, <1>2, <1>5, <1>6, <1>7 DEF Pairwise
-----------------------------------------------------------------------------
(***************************************************************************)
(* What the steps do to the calls of the programs, and to the bus.         *)
(***************************************************************************)
CallsMove ==
  /\ ClientsTyped /\ ClientsTyped' /\ dbCount' \in {dbCount, dbCount + 1}
  /\ \A c \in DbClients :
       dbCalls'[c] = dbCalls[c] \/ dbCalls'[c].id = 0 \/ dbCalls'[c].id = dbCount + 1

LEMMA CallStays ==
  ASSUME CallsMove, NEW call, CallMade(call)
  PROVE  CallMade(call)'
<1>1. /\ call \in BusCalls /\ call.id \in 1..dbCount /\ call.client \in DbClients /\ call.name \in DbNames
      /\ dbCalls[call.client].id = call.id => dbCalls[call.client] = call
  BY DEF CallMade
<1>2. dbCount \in Nat /\ dbCount' \in Nat /\ dbCount' >= dbCount
  BY DEF CallsMove, ClientsTyped
<1>3. call.id \in 1..dbCount' /\ call.id # 0 /\ call.id # dbCount + 1
  BY <1>1, <1>2
<1>4. dbCalls'[call.client].id = call.id => dbCalls'[call.client] = call
  BY <1>1, <1>3 DEF CallsMove
<1> QED
  BY <1>1, <1>3, <1>4 DEF CallMade

LEMMA OnBusStays ==
  ASSUME CallsMove, NEW call, OnBus(call)
  PROVE  OnBus(call)'
<1>1. CallMade(call) => CallMade(call)'
  BY CallStays
<1>2. call.client \in DbClients /\ call = Left(call.client) => OnBus(call)'
  BY DEF OnBus, Left
<1> QED
  BY <1>1, <1>2 DEF OnBus

LEMMA LeftIsNoCall ==
  ASSUME NEW c \in DbClients
  PROVE  /\ Left(c) \in BusCalls
         /\ Left(c).id = 0 /\ Left(c).method = "left" /\ Left(c).client = c
<1>1. NoDbCall \in BusCalls
  BY DEF NoDbCall, BusCalls, BusPaths, ModelPaths
<1> QED
  BY <1>1 DEF Left, NoDbCall, BusCalls

\* every call on the bus was there before, or is new
BusMoves ==
  \A k \in 1..Len(dbBus') :
    \/ \E l \in 1..Len(dbBus) : dbBus'[k] = dbBus[l]
    \/ dbBus'[k].id = 0 \/ dbBus'[k].id = dbCount + 1

LEMMA BusSame ==
  ASSUME BusInv, CallsMove, UNCHANGED dbBus
  PROVE  /\ BusInv' /\ BusMoves
         /\ \A c \in DbClients : Contains(dbBus, Left(c)) => Contains(dbBus, Left(c))'
<1>1. ASSUME NEW k \in 1..Len(dbBus) PROVE OnBus(dbBus[k])'
  <2>1. OnBus(dbBus[k])
    BY DEF BusInv
  <2>2. ASSUME NEW call, call = dbBus[k] PROVE OnBus(call)'
    BY <2>1, <2>2, OnBusStays
  <2> QED
    BY <2>2
<1>2. BusMoves
  BY DEF BusMoves
<1>3. \A c \in DbClients : Contains(dbBus, Left(c)) => Contains(dbBus, Left(c))'
  BY DEF Contains, Left
<1> QED
  BY <1>1, <1>2, <1>3 DEF BusInv

LEMMA BusAppended ==
  ASSUME BusInv, CallsMove, NEW call \in BusCalls, OnBus(call)', call.id = 0 \/ call.id = dbCount + 1,
         dbBus' = Append(dbBus, call)
  PROVE  /\ BusInv' /\ BusMoves
         /\ \A c \in DbClients : Contains(dbBus, Left(c)) => Contains(dbBus, Left(c))'
         /\ \A c \in DbClients : call = Left(c) => Contains(dbBus, Left(c))'
<1>1. /\ dbBus \in Seq(BusCalls) /\ Len(dbBus) \in Nat
      /\ \A k \in 1..Len(dbBus) : OnBus(dbBus[k])
      /\ \A k, l \in 1..Len(dbBus) : dbBus[k].id # 0 /\ dbBus[k].id = dbBus[l].id => k = l
  BY LenProperties DEF BusInv
<1>2. /\ dbBus' \in Seq(BusCalls) /\ Len(dbBus') = Len(dbBus) + 1
      /\ \A k \in 1..Len(dbBus) : dbBus'[k] = dbBus[k]
      /\ dbBus'[Len(dbBus) + 1] = call
  BY <1>1, AppendProperties
<1>3. 1..Len(dbBus') = 1..Len(dbBus) \cup {Len(dbBus) + 1}
  BY <1>1, <1>2
<1>4. ASSUME NEW k \in 1..Len(dbBus) PROVE OnBus(dbBus[k])' /\ dbBus[k].id \in 0..dbCount
  <2>1. OnBus(dbBus[k])
    BY <1>1
  <2>2. ASSUME NEW x, x = dbBus[k] PROVE OnBus(x)'
    BY <2>1, <2>2, OnBusStays
  <2>3. dbBus[k].id \in 0..dbCount
    BY <2>1, LeftIsNoCall DEF OnBus, CallMade, CallsMove, ClientsTyped
  <2>4. dbBus'[k] = dbBus[k]
    BY <1>2
  <2> QED
    BY <2>2, <2>3, <2>4
<1>5. ASSUME NEW k \in 1..Len(dbBus') PROVE OnBus(dbBus[k])'
  <2>1. CASE k = Len(dbBus) + 1
    <3>1. dbBus'[k] = call
      BY <1>2, <2>1
    <3> QED
      BY <3>1 DEF OnBus
  <2>2. CASE k \in 1..Len(dbBus)
    BY <1>4, <2>2
  <2> QED
    BY <1>3, <2>1, <2>2
<1>6. ASSUME NEW k \in 1..Len(dbBus'), NEW l \in 1..Len(dbBus'), dbBus'[k].id # 0, dbBus'[k].id = dbBus'[l].id
      PROVE  k = l
  <2>1. dbCount \in Nat
    BY DEF CallsMove, ClientsTyped
  <2> QED
    BY <1>1, <1>2, <1>3, <1>4, <1>6, <2>1
<1>7. BusMoves
  BY <1>2, <1>3 DEF BusMoves
<1>8. ASSUME NEW x PROVE Contains(dbBus, x) => Contains(dbBus', x)
  BY <1>2, <1>3 DEF Contains
<1>9. Contains(dbBus', call)
  BY <1>2, <1>3 DEF Contains
<1> QED
  BY <1>2, <1>5, <1>6, <1>7, <1>8, <1>9 DEF BusInv, Left, Contains

LEMMA BusServed ==
  ASSUME BusInv, CallsMove, dbBus # <<>>, dbBus' = Tail(dbBus)
  PROVE  /\ BusInv' /\ BusMoves /\ OnBus(Head(dbBus))
         /\ Head(dbBus).id # 0 => \A k \in 1..Len(dbBus') : dbBus'[k].id # Head(dbBus).id
         /\ \A c \in DbClients :
              Contains(dbBus, Left(c)) => Contains(dbBus, Left(c))' \/ Head(dbBus) = Left(c)
<1>1. /\ dbBus \in Seq(BusCalls) /\ Len(dbBus) \in Nat /\ 1 \in 1..Len(dbBus)
      /\ \A k \in 1..Len(dbBus) : OnBus(dbBus[k])
      /\ \A k, l \in 1..Len(dbBus) : dbBus[k].id # 0 /\ dbBus[k].id = dbBus[l].id => k = l
  BY LenProperties, EmptySeq DEF BusInv
<1>2. /\ dbBus' \in Seq(BusCalls) /\ Head(dbBus) = dbBus[1] /\ Len(dbBus') = Len(dbBus) - 1
      /\ \A k \in 1..(Len(dbBus) - 1) : dbBus'[k] = dbBus[k + 1]
  BY <1>1, HeadTailProperties
<1>3. ASSUME NEW k \in 1..Len(dbBus')
      PROVE  k + 1 \in 1..Len(dbBus) /\ k + 1 # 1 /\ dbBus'[k] = dbBus[k + 1]
  <2>1. k \in 1..(Len(dbBus) - 1)
    BY <1>2
  <2> QED
    BY <1>1, <1>2, <2>1
<1>4. ASSUME NEW k \in 1..Len(dbBus') PROVE OnBus(dbBus[k])'
  <2>1. OnBus(dbBus[k + 1])
    BY <1>1, <1>3
  <2>2. ASSUME NEW x, x = dbBus[k + 1] PROVE OnBus(x)'
    BY <2>1, <2>2, OnBusStays
  <2>3. ASSUME NEW x, OnBus(x)' PROVE dbBus'[k] = x => OnBus(dbBus[k])'
    BY <2>3 DEF OnBus
  <2> QED
    BY <1>3, <2>2, <2>3
<1>5. ASSUME NEW k \in 1..Len(dbBus'), NEW l \in 1..Len(dbBus'), dbBus'[k].id # 0, dbBus'[k].id = dbBus'[l].id
      PROVE  k = l
  <2>1. k + 1 = l + 1
    BY <1>1, <1>3, <1>5
  <2> QED
    BY <1>1, <1>2, <2>1
<1>6. BusMoves
  BY <1>3 DEF BusMoves
<1>7. ASSUME Head(dbBus).id # 0, NEW k \in 1..Len(dbBus') PROVE dbBus'[k].id # Head(dbBus).id
  BY <1>1, <1>2, <1>3, <1>7
<1>8. ASSUME NEW x, Contains(dbBus, x), Head(dbBus) # x PROVE Contains(dbBus', x)
  <2>1. PICK l \in 1..Len(dbBus) : dbBus[l] = x
    BY <1>8 DEF Contains
  <2>2. l # 1
    BY <1>2, <1>8, <2>1
  <2>3. l - 1 \in 1..Len(dbBus') /\ (l - 1) + 1 = l
    BY <1>1, <1>2, <2>2
  <2> QED
    BY <1>3, <2>1, <2>3 DEF Contains
<1> QED
  BY <1>1, <1>2, <1>4, <1>5, <1>6, <1>7, <1>8 DEF BusInv, Left, Contains

(***************************************************************************)
(* What the steps leave of the exports: they stay where they are, with     *)
(* their names and paths.                                                  *)
(***************************************************************************)
ExportsStay ==
  /\ dbExports \in Seq(Exports) /\ dbExports' \in Seq(Exports)
  /\ \A e \in 1..Len(dbExports) :
       /\ e \in 1..Len(dbExports')
       /\ dbExports'[e].name = dbExports[e].name /\ dbExports'[e].path = dbExports[e].path
       /\ dbExports'[e].alive => dbExports[e].alive

LEMMA KeptStays ==
  ASSUME CallsMove, BusMoves, NEW path, NEW call, Kept(path, call)
  PROVE  Kept(path, call)'
<1>1. CallMade(call)'
  BY CallStays DEF Kept
<1>2. call.id \in 1..dbCount /\ dbCount \in Nat
  BY DEF Kept, CallMade, CallsMove, ClientsTyped
<1>3. \A k \in 1..Len(dbBus') : dbBus'[k].id # call.id
  BY <1>2 DEF BusMoves, Kept
<1> QED
  BY <1>1, <1>3 DEF Kept, Asked

LEMMA MessagesStay ==
  ASSUME CallsMove, BusMoves, NEW x, MessagesInv(x)
  PROVE  MessagesInv(x)'
<1>1. ASSUME NEW m \in 1..Len(x.delayed) PROVE Kept(x.path, x.delayed[m])'
  BY KeptStays DEF MessagesInv
<1> QED
  BY <1>1 DEF MessagesInv, Pairwise, Answers

LEMMA MessagesAre ==
  ASSUME NEW e, NEW x, x = dbExports'[e], MessagesInv(x)'
  PROVE  MessagesInv(dbExports[e])'
  BY DEF MessagesInv, Kept, CallMade

LEMMA OpenedStays ==
  ASSUME ExportsStay, NEW name, NEW path, NEW opened, Opened(name, path, opened)
  PROVE  Opened(name, path, opened)'
  BY DEF ExportsStay, Opened, Asked

LEMMA GotStays ==
  ASSUME ExportsStay, GotInv, dbGot' = dbGot \/ dbGot' = NoDbGot
  PROVE  GotInv'
<1>1. CASE dbGot' = NoDbGot
  BY <1>1 DEF GotInv, NoDbGot
<1>2. CASE dbGot' = dbGot /\ dbGot # NoDbGot
  <2>1. AnswerTypes(dbGot.method)' = AnswerTypes(dbGot.method)
    BY <1>2 DEF AnswerTypes
  <2>2. ASSUME dbGot.method \in {"next", "current"} /\ dbGot.type # "error"
        PROVE  /\ dbGot'.opened[1] \in 1..Len(dbExports')
               /\ dbGot'.read = dbGot'.opened \/ ~dbExports'[dbGot'.opened[1]].alive
    BY <1>2, <2>2 DEF GotInv, ExportsStay
  <2> QED
    BY <1>2, <2>1, <2>2 DEF GotInv
<1> QED
  BY <1>1, <1>2

(***************************************************************************)
(* Nothing moves for a program that does not take part in the step.        *)
(***************************************************************************)
LEMMA ClientStays ==
  ASSUME ExportsStay, CallsMove, NEW c \in DbClients, ClientInv(c),
         dbCalls'[c] = dbCalls[c], dbModel'[c] = dbModel[c], dbIterator'[c] = dbIterator[c]
  PROVE  ClientInv(c)'
<1>1. dbCalls'[c].id \in 0..dbCount'
  BY DEF ClientInv, CallsMove, ClientsTyped
<1>2. dbIterator'[c] # NoDbIterator =>
        Opened(dbIterator[c].name, dbIterator[c].path, dbIterator[c].opened)'
  <2>1. ASSUME NEW it, it = dbIterator[c], it # NoDbIterator PROVE Opened(it.name, it.path, it.opened)'
    <3>1. Opened(it.name, it.path, it.opened)
      BY <2>1 DEF ClientInv
    <3> QED
      BY <3>1, OpenedStays
  <2> QED
    BY <2>1 DEF Opened
<1> QED
  BY <1>1, <1>2 DEF ClientInv, NoDbModel, NoDbIterator, Asked
-----------------------------------------------------------------------------
LEMMA NothingIsTyped ==
  /\ NoDbCall \in BusCalls /\ [NoDbCall EXCEPT !.method = "end"] \in BusCalls
  /\ NoDbModel \in ClientModels /\ NoDbIterator \in ClientIterators
  /\ NoDbCall.id = 0 /\ NoDbCall.method = "none"
  /\ [NoDbCall EXCEPT !.method = "end"].id = 0 /\ [NoDbCall EXCEPT !.method = "end"].method = "end"
  BY DEF NoDbCall, NoDbModel, NoDbIterator, BusCalls, BusPaths, ModelPaths, ClientModels, ClientIterators

LEMMA InitiallyInv == DbInit => DbInv
<1> SUFFICES ASSUME DbInit PROVE DbInv
  OBVIOUS
<1>1. /\ dbExports = <<>> /\ Len(dbExports) = 0 /\ 1..Len(dbExports) = {}
      /\ dbBus = <<>> /\ Len(dbBus) = 0 /\ 1..Len(dbBus) = {} /\ dbIterators = {}
  BY DEF DbInit
<1>2. ServerTyped
  BY <1>1 DEF ServerTyped
<1>3. ClientsTyped
  BY NothingIsTyped DEF DbInit, ClientsTyped
<1>4. BusInv
  <2>1. dbBus \in Seq(BusCalls)
    BY <1>1
  <2> QED
    BY <1>1, <2>1 DEF BusInv
<1>5. PathsUnique /\ PathsKnown /\ GotInv
  BY <1>1 DEF PathsUnique, PathsKnown, GotInv, DbInit
<1>6. ASSUME NEW c \in DbClients PROVE ClientInv(c)
  <2>1. dbCalls[c] = NoDbCall /\ dbModel[c] = NoDbModel /\ dbIterator[c] = NoDbIterator /\ dbCount = 0
    BY DEF DbInit
  <2>2. NoDbCall.method \notin IteratorMethods
    BY NothingIsTyped DEF IteratorMethods
  <2> QED
    BY <2>1, <2>2, NothingIsTyped DEF ClientInv
<1> QED
  BY <1>1, <1>2, <1>3, <1>4, <1>5, <1>6 DEF DbInv

(***************************************************************************)
(* The parts of the invariant in steps that leave the exports alone.       *)
(***************************************************************************)
LEMMA ServerStays ==
  ASSUME DbInv, UNCHANGED <<dbPaths, dbExports>>, CallsMove, BusMoves
  PROVE  /\ ExportsStay /\ PathsUnique' /\ PathsKnown'
         /\ \A e \in 1..Len(dbExports') : MessagesInv(dbExports[e])'
<1>1. ExportsStay
  BY DEF ExportsStay, DbInv, ServerTyped
<1>2. PathsUnique' /\ PathsKnown'
  BY DEF DbInv, PathsUnique, PathsKnown, Asked
<1>3. ASSUME NEW e \in 1..Len(dbExports) PROVE MessagesInv(dbExports[e])'
  <2>1. ASSUME NEW x, x = dbExports[e] PROVE MessagesInv(x)'
    <3>1. MessagesInv(x)
      BY <2>1 DEF DbInv
    <3> QED
      BY <3>1, MessagesStay
  <2>2. PICK x : x = dbExports[e]
    OBVIOUS
  <2>3. MessagesInv(x)' /\ x = dbExports'[e]
    BY <2>1, <2>2
  <2> QED
    BY <2>3, MessagesAre
<1> QED
  BY <1>1, <1>2, <1>3

LEMMA IteratorStays ==
  ASSUME ExportsStay, NEW it, IteratorInv(it),
         dbExports'[it.export].alive, it.open => dbExports'[it.export].version = dbExports[it.export].version,
         it.client \in dbAlive => it.client \in dbAlive' \/ Contains(dbBus, Left(it.client))',
         Contains(dbBus, Left(it.client)) => Contains(dbBus, Left(it.client))'
  PROVE  IteratorInv(it)'
  BY DEF IteratorInv, ExportsStay

(***************************************************************************)
(* What a reply does to the programs.                                      *)
(***************************************************************************)
ReplyFits(call, type, from, path, read) ==
  /\ type \in {"error"} \cup AnswerTypes(call.method)
  /\ NormalizedName[from] = NormalizedName[call.name]
  /\ type = "path" => path \in {<<>>, Asked(call.name)}
  /\ type = "list" => Opened(call.name, path, read)'
  /\ call.method \in {"next", "current"} /\ type # "error" =>
       LET opened == dbIterator[call.client].opened
       IN /\ opened[1] \in 1..Len(dbExports')
          /\ read = opened \/ ~dbExports'[opened[1]].alive

LEMMA Replied ==
  ASSUME DbInv, ExportsStay, UNCHANGED <<dbAlive, dbCount>>,
         NEW call, CallMade(call), call.method \in ServerMethods \cup AsyncMethods \cup IteratorMethods,
         NEW type, NEW from, NEW path, NEW read,
         replied(call, type, from, path, read),
         dbCalls[call.client].id = call.id => ReplyFits(call, type, from, path, read)
  PROVE  CallsMove /\ GotInv' /\ \A c \in DbClients : ClientInv(c)'
<1> DEFINE c == call.client
           ended == IF call.method = "next" /\ type # "true" THEN [NoDbCall EXCEPT !.method = "end"] ELSE NoDbCall
<1>1. ClientsTyped /\ GotInv /\ \A d \in DbClients : ClientInv(d)
  BY DEF DbInv
<1>2. c \in DbClients /\ call.name \in DbNames
  BY DEF CallMade
<1>3. CASE dbCalls[c].id # call.id
  <2>1. UNCHANGED dbClient
    BY <1>3 DEF replied
  <2>2. CallsMove
    BY <1>1, <2>1 DEF dbClient, CallsMove, ClientsTyped
  <2>3. GotInv'
    BY <1>1, <2>1, GotStays DEF dbClient
  <2>4. ASSUME NEW d \in DbClients PROVE ClientInv(d)'
    BY <1>1, <2>1, <2>2, ClientStays DEF dbClient
  <2> QED
    BY <2>2, <2>3, <2>4
<1>4. CASE dbCalls[c].id = call.id
  <2> DEFINE opened == dbIterator[c].opened
             entry == [method |-> call.method, name |-> call.name, type |-> type, from |-> from,
                       read |-> read, opened |-> opened]
  <2>1. /\ dbCalls' = [dbCalls EXCEPT ![c] = ended]
        /\ dbModel' = IF type = "path" THEN [dbModel EXCEPT ![c] = [name |-> call.name, path |-> path]] ELSE dbModel
        /\ dbGot' = entry
    BY <1>4 DEF replied
  <2>2. ReplyFits(call, type, from, path, read)
    BY <1>4
  <2>3. dbIterator' = CASE type = "list" -> [dbIterator EXCEPT ![c] = [name |-> call.name, path |-> path, opened |-> read]]
                        [] call.method = "close" -> [dbIterator EXCEPT ![c] = NoDbIterator]
                        [] OTHER -> dbIterator
    BY <1>4 DEF replied
  <2>4. type = "list" => call.method # "close"
    <3>1. AnswerTypes("close") = {"nothing"}
      BY AnswerTypesAre
    <3> QED
      BY <2>2, <3>1 DEF ReplyFits
  <2>5. \/ type = "list" /\ dbIterator' = [dbIterator EXCEPT ![c] = [name |-> call.name, path |-> path, opened |-> read]]
        \/ type # "list" /\ dbIterator' = [dbIterator EXCEPT ![c] = NoDbIterator]
        \/ type # "list" /\ dbIterator' = dbIterator
    <3>1. CASE type = "list"
      BY <2>3, <2>4, <3>1
    <3>2. CASE type # "list" /\ call.method = "close"
      BY <2>3, <3>2
    <3>3. CASE type # "list" /\ call.method # "close"
      BY <2>3, <3>3
    <3> QED
      BY <3>1, <3>2, <3>3
  <2>6. ended \in BusCalls /\ ended.id = 0 /\ ended.method \notin IteratorMethods
    BY NothingIsTyped DEF IteratorMethods
  <2> HIDE DEF ended
  <2>7. type = "list" => [name |-> call.name, path |-> path, opened |-> read] \in ClientIterators
    <3>1. ASSUME type = "list" PROVE path \in BusPaths /\ read \in Nat \X Nat
      <4>1. /\ read \in (1..Len(dbExports')) \X Nat
            /\ path = <<Asked(call.name), read[2]>>
        BY <2>2, <3>1 DEF ReplyFits, Opened, Asked
      <4>2. Len(dbExports') \in Nat
        BY LenProperties DEF ExportsStay
      <4>3. read \in Nat \X Nat
        BY <4>1, <4>2
      <4>4. Asked(call.name) \in ModelPaths
        BY <1>2 DEF ModelPaths, Asked
      <4> QED
        BY <4>1, <4>3, <4>4 DEF BusPaths
    <3> QED
      BY <1>2, <3>1 DEF ClientIterators
  <2>8. type = "path" => [name |-> call.name, path |-> path] \in ClientModels
    BY <1>2, <2>2 DEF ReplyFits, ClientModels, BusPaths, ModelPaths, Asked
  <2>9. ClientsTyped'
    <3>1. dbCalls' \in [DbClients -> BusCalls]
      BY <1>1, <2>1, <2>6 DEF ClientsTyped
    <3>2. dbModel' \in [DbClients -> ClientModels]
      BY <1>1, <2>1, <2>8 DEF ClientsTyped
    <3>3. dbIterator' \in [DbClients -> ClientIterators]
      BY <1>1, <2>5, <2>7, NothingIsTyped DEF ClientsTyped
    <3> QED
      BY <1>1, <3>1, <3>2, <3>3 DEF ClientsTyped
  <2>10. CallsMove
    BY <1>1, <1>2, <2>1, <2>6, <2>9 DEF CallsMove, ClientsTyped
  <2>11. GotInv'
    <3>1. /\ dbGot'.method = call.method /\ dbGot'.type = type /\ dbGot'.from = from /\ dbGot'.name = call.name
          /\ dbGot'.read = read /\ dbGot'.opened = opened
      BY <2>1
    <3>2. AnswerTypes(dbGot.method)' = AnswerTypes(call.method)
      BY <3>1 DEF AnswerTypes
    <3> QED
      BY <2>2, <3>1, <3>2 DEF GotInv, ReplyFits
  <2>12. ASSUME NEW d \in DbClients, d # c PROVE ClientInv(d)'
    <3>1. dbCalls'[d] = dbCalls[d] /\ dbModel'[d] = dbModel[d] /\ dbIterator'[d] = dbIterator[d]
      BY <1>1, <2>1, <2>5, <2>12 DEF ClientsTyped
    <3> QED
      BY <1>1, <2>10, <3>1, ClientStays
  <2>13. ClientInv(c)'
    <3>1. dbCalls'[c] = ended
      BY <1>1, <1>2, <2>1 DEF ClientsTyped
    <3>2. dbModel'[c] # NoDbModel => dbModel'[c].name \in DbNames /\ dbModel'[c].path \in {<<>>, Asked(dbModel'[c].name)}
      <4>1. CASE type = "path"
        <5>1. dbModel'[c] = [name |-> call.name, path |-> path]
          BY <1>1, <1>2, <2>1, <4>1 DEF ClientsTyped
        <5> QED
          BY <1>2, <2>2, <4>1, <5>1 DEF ReplyFits
      <4>2. CASE type # "path"
        BY <1>1, <1>2, <2>1, <4>2 DEF ClientInv
      <4> QED
        BY <4>1, <4>2
    <3>3. dbIterator'[c] # NoDbIterator => Opened(dbIterator[c].name, dbIterator[c].path, dbIterator[c].opened)'
      <4>1. CASE type = "list" /\ dbIterator' = [dbIterator EXCEPT ![c] = [name |-> call.name, path |-> path, opened |-> read]]
        <5>1. dbIterator'[c] = [name |-> call.name, path |-> path, opened |-> read]
          BY <1>1, <1>2, <4>1 DEF ClientsTyped
        <5>2. Opened(call.name, path, read)'
          BY <2>2, <4>1 DEF ReplyFits
        <5> QED
          BY <5>1, <5>2 DEF Opened
      <4>2. CASE dbIterator' = [dbIterator EXCEPT ![c] = NoDbIterator]
        BY <1>1, <1>2, <4>2 DEF ClientsTyped
      <4>3. CASE dbIterator' = dbIterator
        <5>1. ASSUME NEW it, it = dbIterator[c], it # NoDbIterator PROVE Opened(it.name, it.path, it.opened)'
          <6>1. Opened(it.name, it.path, it.opened)
            BY <1>1, <1>2, <5>1 DEF ClientInv
          <6> QED
            BY <6>1, OpenedStays
        <5> QED
          BY <4>3, <5>1 DEF Opened
      <4> QED
        BY <2>5, <4>1, <4>2, <4>3
    <3>4. dbCount' \in Nat
      BY <1>1 DEF ClientsTyped
    <3>5. dbCalls'[c].id \in 0..dbCount'
      BY <2>6, <3>1, <3>4
    <3>6. Asked(dbModel[c].name)' = Asked(dbModel'[c].name)
      BY DEF Asked
    <3> QED
      BY <2>6, <3>1, <3>2, <3>3, <3>5, <3>6 DEF ClientInv
  <2> QED
    BY <1>2, <2>10, <2>11, <2>12, <2>13
<1> QED
  BY <1>3, <1>4

-----------------------------------------------------------------------------
(***************************************************************************)
(* The steps of the programs.  The exports stay as they are.               *)
(***************************************************************************)
LEMMA ProgramStep ==
  ASSUME DbInv, UNCHANGED dbServer, CallsMove, BusInv', BusMoves,
         \A c \in DbClients : Contains(dbBus, Left(c)) => Contains(dbBus, Left(c))',
         \A it \in dbIterators : it.client \in dbAlive => it.client \in dbAlive' \/ Contains(dbBus, Left(it.client))',
         dbGot' = dbGot \/ dbGot' = NoDbGot,
         \A c \in DbClients : ClientInv(c)'
  PROVE  DbInv'
<1>1. UNCHANGED <<dbPaths, dbExports, dbIterators>>
  BY DEF dbServer
<1>2. /\ ExportsStay /\ PathsUnique' /\ PathsKnown'
      /\ \A e \in 1..Len(dbExports') : MessagesInv(dbExports[e])'
  BY <1>1, ServerStays
<1>3. ServerTyped' /\ ClientsTyped'
  BY <1>1 DEF DbInv, ServerTyped, CallsMove
<1>4. GotInv'
  BY <1>2, GotStays DEF DbInv
<1>5. ASSUME NEW it \in dbIterators' PROVE IteratorInv(it)'
  <2>1. it \in dbIterators /\ it.client \in DbClients
    BY <1>1, <1>5 DEF DbInv, ServerTyped, BusIterators
  <2>2. dbExports'[it.export].alive /\ dbExports'[it.export].version = dbExports[it.export].version
    BY <1>1, <2>1 DEF DbInv, IteratorInv
  <2>3. IteratorInv(it)
    BY <2>1 DEF DbInv
  <2> QED
    BY <1>2, <2>1, <2>2, <2>3, IteratorStays
<1> QED
  BY <1>2, <1>3, <1>4, <1>5 DEF DbInv

LEMMA Sent ==
  ASSUME DbInv, NEW c \in DbClients, dbCount' = dbCount + 1,
         NEW method \in ServerMethods \cup AsyncMethods \cup IteratorMethods,
         NEW name \in DbNames, NEW path \in BusPaths,
         NEW call, call = DbCall(c, method, name, path), send(c, call),
         method \in AsyncMethods => path \in {<<>>, Asked(name)},
         method \in IteratorMethods =>
           dbIterator[c] # NoDbIterator /\ name = dbIterator[c].name /\ path = dbIterator[c].path,
         UNCHANGED <<dbServer, dbAlive, dbModel, dbIterator>>
  PROVE  DbInv'
<1>1. /\ ClientsTyped /\ BusInv /\ \A d \in DbClients : ClientInv(d)
      /\ dbCount \in Nat
  BY DEF DbInv, ClientsTyped
<1>2. /\ call \in BusCalls
      /\ call.id = dbCount + 1 /\ call.client = c /\ call.name = name /\ call.method = method /\ call.path = path
  <2>1. call = [id |-> dbCount + 1, method |-> method, name |-> name, path |-> path, client |-> c]
    BY DEF DbCall
  <2>2. dbCount + 1 \in Nat
    BY <1>1
  <2>3. method \in {"none", "left", "end"} \cup ServerMethods \cup AsyncMethods \cup IteratorMethods
    OBVIOUS
  <2>4. name \in DbNames \cup {""} /\ c \in DbClients \cup {""}
    OBVIOUS
  <2>5. [id |-> dbCount + 1, method |-> method, name |-> name, path |-> path, client |-> c] \in BusCalls
    BY ONLY <2>2, <2>3, <2>4, path \in BusPaths DEF BusCalls
  <2> QED
    BY <2>1, <2>5
<1>3. dbCalls' = [dbCalls EXCEPT ![c] = call] /\ dbBus' = Append(dbBus, call) /\ dbGot' = NoDbGot
  BY DEF send
<1>4. ClientsTyped'
  BY <1>1, <1>2, <1>3 DEF ClientsTyped
<1>5. CallsMove
  BY <1>1, <1>2, <1>3, <1>4 DEF CallsMove, ClientsTyped
<1>6. CallMade(call)'
  <2>1. dbCalls'[c] = call
    BY <1>1, <1>3 DEF ClientsTyped
  <2>2. call.id \in 1..dbCount'
    BY <1>1, <1>2
  <2> QED
    BY <1>2, <2>1, <2>2 DEF CallMade
<1>7. OnBus(call)'
  BY <1>2, <1>6 DEF OnBus, Asked
<1>8. /\ BusInv' /\ BusMoves
      /\ \A d \in DbClients : Contains(dbBus, Left(d)) => Contains(dbBus, Left(d))'
  BY <1>1, <1>2, <1>3, <1>5, <1>7, BusAppended
<1>9. ExportsStay
  BY DEF dbServer, ExportsStay, DbInv, ServerTyped
<1>10. ASSUME NEW d \in DbClients PROVE ClientInv(d)'
  <2>1. CASE d # c
    BY <1>1, <1>3, <1>5, <1>9, <2>1, ClientStays DEF ClientsTyped
  <2>2. CASE d = c
    <3>1. dbCalls'[c] = call /\ dbModel'[c] = dbModel[c] /\ dbIterator'[c] = dbIterator[c]
      BY <1>1, <1>3 DEF ClientsTyped
    <3>2. dbIterator'[c] # NoDbIterator => Opened(dbIterator[c].name, dbIterator[c].path, dbIterator[c].opened)'
      <4>1. ASSUME NEW it, it = dbIterator[c], it # NoDbIterator PROVE Opened(it.name, it.path, it.opened)'
        <5>1. Opened(it.name, it.path, it.opened)
          BY <1>1, <4>1 DEF ClientInv
        <5> QED
          BY <1>9, <5>1, OpenedStays
      <4> QED
        BY <3>1, <4>1 DEF Opened
    <3>3. call.id \in 0..dbCount'
      BY <1>1, <1>2
    <3>4. dbModel'[c] # NoDbModel => dbModel'[c].name \in DbNames /\ dbModel'[c].path \in {<<>>, Asked(dbModel[c].name)'}
      BY <1>1, <3>1 DEF ClientInv, Asked
    <3>5. call.method \in IteratorMethods =>
            /\ dbIterator'[c] # NoDbIterator
            /\ call.name = dbIterator'[c].name /\ call.path = dbIterator'[c].path
      BY <1>2, <3>1
    <3> QED
      BY <2>2, <3>1, <3>2, <3>3, <3>4, <3>5 DEF ClientInv
  <2> QED
    BY <2>1, <2>2
<1> QED
  BY <1>3, <1>5, <1>8, <1>10, ProgramStep

LEMMA ServerCallKeeps ==
  ASSUME DbInv, NEW c \in DbClients, NEW asked \in DbServerCalls[c], serverCall(c, asked[1], asked[2])
  PROVE  DbInv'
<1>1. asked \in ServerMethods \X DbNames
  BY DbServerCallsAssumption DEF ServerMethods
<1>2. asked[1] \notin AsyncMethods /\ asked[1] \notin IteratorMethods
  BY <1>1, AsyncMethodsAre DEF ServerMethods, IteratorMethods
<1>3. <<>> \in BusPaths
  BY DEF BusPaths, ModelPaths
<1> QED
  BY <1>1, <1>2, <1>3, Sent DEF serverCall, dbBegin

LEMMA ModelCallKeeps ==
  ASSUME DbInv, NEW c \in DbClients, NEW method \in DbMethods, modelCall(c, method)
  PROVE  DbInv'
<1>1. method \in AsyncMethods /\ method \notin IteratorMethods
  BY AsyncMethodsAre DEF DbMethods, IteratorMethods
<1>2. dbModel[c].name \in DbNames /\ dbModel[c].path \in {<<>>, Asked(dbModel[c].name)} /\ dbModel[c].path \in BusPaths
  BY DEF modelCall, DbInv, ClientInv, ClientsTyped, ClientModels
<1> QED
  BY <1>1, <1>2, Sent DEF modelCall, dbBegin

LEMMA IteratorCallKeeps ==
  ASSUME DbInv, NEW c \in DbClients, NEW method \in IteratorMethods, iteratorCall(c, method)
  PROVE  DbInv'
<1>1. method \notin AsyncMethods
  BY AsyncMethodsAre DEF IteratorMethods
<1>2. dbIterator[c].name \in DbNames /\ dbIterator[c].path \in BusPaths
  BY DEF iteratorCall, DbInv, ClientInv, Opened, ClientsTyped, ClientIterators
<1> QED
  BY <1>1, <1>2, Sent DEF iteratorCall, dbBegin

\* A program that gives up a call, its iterator, or everything
LEMMA ProgramStops ==
  ASSUME DbInv, UNCHANGED <<dbServer, dbCount>>, NEW c \in DbClients,
         NEW call \in {NoDbCall, [NoDbCall EXCEPT !.method = "end"]}, dbCalls' = [dbCalls EXCEPT ![c] = call],
         NEW model \in {dbModel[c], NoDbModel}, dbModel' = [dbModel EXCEPT ![c] = model],
         NEW iterator \in {dbIterator[c], NoDbIterator}, dbIterator' = [dbIterator EXCEPT ![c] = iterator],
         dbAlive' \in SUBSET dbAlive
  PROVE  CallsMove /\ \A d \in DbClients : ClientInv(d)'
<1>1. ClientsTyped /\ \A d \in DbClients : ClientInv(d)
  BY DEF DbInv
<1>2. ExportsStay
  BY DEF dbServer, ExportsStay, DbInv, ServerTyped
<1>3. call \in BusCalls /\ call.id = 0 /\ call.method \notin IteratorMethods
  BY NothingIsTyped DEF IteratorMethods
<1>4. model \in ClientModels /\ iterator \in ClientIterators
  BY <1>1, NothingIsTyped DEF ClientsTyped
<1>5. /\ dbCalls'[c] = call /\ dbModel'[c] = model /\ dbIterator'[c] = iterator
      /\ \A d \in DbClients : d # c => dbCalls'[d] = dbCalls[d] /\ dbModel'[d] = dbModel[d] /\ dbIterator'[d] = dbIterator[d]
  BY <1>1 DEF ClientsTyped
<1>6. ClientsTyped'
  BY <1>1, <1>3, <1>4 DEF ClientsTyped
<1>7. CallsMove
  BY <1>1, <1>3, <1>5, <1>6 DEF CallsMove
<1>8. ASSUME NEW d \in DbClients, d # c PROVE ClientInv(d)'
  BY <1>1, <1>2, <1>5, <1>7, <1>8, ClientStays
<1>9. ClientInv(c)'
  <2>1. dbIterator'[c] # NoDbIterator => Opened(dbIterator[c].name, dbIterator[c].path, dbIterator[c].opened)'
    <3>1. ASSUME NEW it, it = dbIterator[c], it # NoDbIterator PROVE Opened(it.name, it.path, it.opened)'
      <4>1. Opened(it.name, it.path, it.opened)
        BY <1>1, <3>1 DEF ClientInv
      <4> QED
        BY <1>2, <4>1, OpenedStays
    <3> QED
      BY <1>5, <3>1 DEF Opened
  <2>2. dbCalls'[c].id \in 0..dbCount'
    BY <1>1, <1>3, <1>5 DEF ClientsTyped
  <2>3. dbModel'[c] # NoDbModel => dbModel'[c].name \in DbNames /\ dbModel'[c].path \in {<<>>, Asked(dbModel[c].name)'}
    BY <1>1, <1>5 DEF ClientInv, Asked
  <2> QED
    BY <1>3, <1>5, <2>1, <2>2, <2>3 DEF ClientInv
<1> QED
  BY <1>7, <1>8, <1>9

LEMMA CallTimesOutKeeps ==
  ASSUME DbInv, NEW c \in DbClients, callTimesOut(c)
  PROVE  DbInv'
<1> DEFINE call == IF dbCalls[c].method = "next" THEN [NoDbCall EXCEPT !.method = "end"] ELSE NoDbCall
           iterator == IF dbCalls[c].method = "close" THEN NoDbIterator ELSE dbIterator[c]
<1>1. ClientsTyped
  BY DEF DbInv
<1>2. /\ dbCalls' = [dbCalls EXCEPT ![c] = call]
      /\ dbModel' = [dbModel EXCEPT ![c] = dbModel[c]]
      /\ dbIterator' = [dbIterator EXCEPT ![c] = iterator]
      /\ UNCHANGED <<dbServer, dbBus, dbAlive, dbModel, dbGot, dbCount>>
  BY <1>1 DEF callTimesOut, ClientsTyped
<1>3. CallsMove /\ \A d \in DbClients : ClientInv(d)'
  <2>1. call \in {NoDbCall, [NoDbCall EXCEPT !.method = "end"]} /\ iterator \in {dbIterator[c], NoDbIterator}
    OBVIOUS
  <2> HIDE DEF call, iterator
  <2> QED
    BY <1>2, <2>1, ProgramStops
<1>4. BusInv' /\ BusMoves /\ \A d \in DbClients : Contains(dbBus, Left(d)) => Contains(dbBus, Left(d))'
  BY <1>2, <1>3, BusSame DEF DbInv
<1> QED
  BY <1>2, <1>3, <1>4, ProgramStep

LEMMA DeleteIteratorKeeps ==
  ASSUME DbInv, NEW c \in DbClients, deleteIterator(c)
  PROVE  DbInv'
<1>1. ClientsTyped
  BY DEF DbInv
<1>2. /\ dbCalls' = [dbCalls EXCEPT ![c] = NoDbCall]
      /\ dbModel' = [dbModel EXCEPT ![c] = dbModel[c]]
      /\ dbIterator' = [dbIterator EXCEPT ![c] = NoDbIterator]
      /\ UNCHANGED <<dbServer, dbBus, dbAlive, dbModel, dbGot, dbCount>>
  BY <1>1 DEF deleteIterator, ClientsTyped
<1>3. CallsMove /\ \A d \in DbClients : ClientInv(d)'
  BY <1>2, ProgramStops
<1>4. BusInv' /\ BusMoves /\ \A d \in DbClients : Contains(dbBus, Left(d)) => Contains(dbBus, Left(d))'
  BY <1>2, <1>3, BusSame DEF DbInv
<1> QED
  BY <1>2, <1>3, <1>4, ProgramStep

LEMMA LeaveBusKeeps ==
  ASSUME DbInv, NEW c \in DbClients, leaveBus(c)
  PROVE  DbInv'
<1>1. /\ dbCalls' = [dbCalls EXCEPT ![c] = NoDbCall]
      /\ dbModel' = [dbModel EXCEPT ![c] = NoDbModel]
      /\ dbIterator' = [dbIterator EXCEPT ![c] = NoDbIterator]
      /\ dbAlive' = dbAlive \ {c}
      /\ UNCHANGED <<dbServer, dbGot, dbCount>>
  BY DEF leaveBus
<1>2. CallsMove /\ \A d \in DbClients : ClientInv(d)'
  BY <1>1, ProgramStops
<1>3. CASE Watched(c)
  <2>1. dbBus' = Append(dbBus, Left(c))
    BY <1>3 DEF leaveBus
  <2>2. PICK call : call = Left(c)
    OBVIOUS
  <2>3. call \in BusCalls /\ call.id = 0 /\ call.client = c
    BY <2>2, LeftIsNoCall
  <2>4. OnBus(call)'
    BY <2>2, <2>3 DEF OnBus, Left
  <2>5. /\ BusInv' /\ BusMoves
        /\ \A d \in DbClients : Contains(dbBus, Left(d)) => Contains(dbBus, Left(d))'
        /\ \A d \in DbClients : call = Left(d) => Contains(dbBus, Left(d))'
    BY <1>2, <2>1, <2>2, <2>3, <2>4, BusAppended DEF DbInv
  <2> QED
    BY <1>1, <1>2, <2>2, <2>5, ProgramStep
<1>4. CASE ~Watched(c)
  <2>1. UNCHANGED dbBus
    BY <1>4 DEF leaveBus
  <2>2. BusInv' /\ BusMoves /\ \A d \in DbClients : Contains(dbBus, Left(d)) => Contains(dbBus, Left(d))'
    BY <1>2, <2>1, BusSame DEF DbInv
  <2>3. \A it \in dbIterators : it.client \in dbAlive => it.client \in dbAlive'
    BY <1>1, <1>4 DEF Watched
  <2> QED
    BY <1>1, <1>2, <2>2, <2>3, ProgramStep
<1> QED
  BY <1>3, <1>4

-----------------------------------------------------------------------------
(***************************************************************************)
(* The steps of the server: the call it takes from the bus, the answer it  *)
(* gives, and the export that changes.                                     *)
(***************************************************************************)
LEMMA ServedCall ==
  ASSUME DbInv, NEW methods \in SUBSET (ServerMethods \cup AsyncMethods \cup IteratorMethods), Served(methods)
  PROVE  /\ dbUp /\ dbBus # <<>> /\ dbBus' = Tail(dbBus)
         /\ CallMade(Head(dbBus)) /\ Head(dbBus).method \in methods
         /\ Head(dbBus).method \in AsyncMethods => Head(dbBus).path \in {<<>>, Asked(Head(dbBus).name)}
         /\ \A k \in 1..Len(dbBus) : dbBus[k].id = Head(dbBus).id => k = 1
         /\ Head(dbBus) = dbBus[1] /\ 1 \in 1..Len(dbBus)
         /\ \A c \in DbClients : Head(dbBus) # Left(c)
<1>1. dbUp /\ dbBus # <<>> /\ Head(dbBus).method \in methods /\ dbBus' = Tail(dbBus)
  BY DEF Served
<1>2. dbBus \in Seq(BusCalls) /\ Head(dbBus) = dbBus[1] /\ 1 \in 1..Len(dbBus)
  BY <1>1, EmptySeq, HeadTailProperties, LenProperties DEF DbInv, BusInv
<1>3. "left" \notin methods
  BY AsyncMethodsAre DEF ServerMethods, IteratorMethods
<1>4. \A c \in DbClients : Head(dbBus) # Left(c)
  BY <1>1, <1>3, LeftIsNoCall
<1>5. OnBus(Head(dbBus))
  BY <1>2 DEF DbInv, BusInv
<1>6. /\ CallMade(Head(dbBus))
      /\ Head(dbBus).method \in AsyncMethods => Head(dbBus).path \in {<<>>, Asked(Head(dbBus).name)}
  BY <1>4, <1>5 DEF OnBus
<1>7. Head(dbBus).id # 0
  BY <1>6 DEF CallMade, DbInv, ClientsTyped
<1>8. \A k \in 1..Len(dbBus) : dbBus[k].id = Head(dbBus).id => k = 1
  BY <1>2, <1>7 DEF DbInv, BusInv
<1> QED
  BY <1>1, <1>2, <1>4, <1>6, <1>8

\* The call has left the bus, and everybody's reports of those who left stay.
LEMMA BusAfterCall ==
  ASSUME DbInv, CallsMove, NEW methods \in SUBSET (ServerMethods \cup AsyncMethods \cup IteratorMethods), Served(methods)
  PROVE  /\ BusInv' /\ BusMoves
         /\ \A k \in 1..Len(dbBus') : dbBus'[k].id # Head(dbBus).id
         /\ \A c \in DbClients : Contains(dbBus, Left(c)) => Contains(dbBus, Left(c))'
<1>1. dbBus # <<>> /\ dbBus' = Tail(dbBus) /\ CallMade(Head(dbBus)) /\ \A c \in DbClients : Head(dbBus) # Left(c)
  BY ServedCall
<1>2. Head(dbBus).id # 0
  BY <1>1 DEF CallMade, DbInv, ClientsTyped
<1> QED
  BY <1>1, <1>2, BusServed DEF DbInv

LEMMA ErrorFits ==
  ASSUME NEW call, NEW path, NEW read
  PROVE  ReplyFits(call, "error", call.name, path, read)
  BY DEF ReplyFits

LEMMA ExportMoves ==
  ASSUME DbInv, NEW e \in 1..Len(dbExports), NEW x \in Exports, dbExports' = [dbExports EXCEPT ![e] = x],
         x.name = dbExports[e].name, x.path = dbExports[e].path, x.alive => dbExports[e].alive
  PROVE  /\ ExportsStay /\ Len(dbExports') = Len(dbExports) /\ dbExports'[e] = x
         /\ \A f \in 1..Len(dbExports) : f # e => dbExports'[f] = dbExports[f]
<1>1. dbExports \in Seq(Exports)
  BY DEF DbInv, ServerTyped
<1>2. /\ dbExports' \in Seq(Exports) /\ Len(dbExports') = Len(dbExports) /\ dbExports'[e] = x
      /\ \A f \in 1..Len(dbExports) : f # e => dbExports'[f] = dbExports[f]
  BY <1>1, ExceptSeq
<1>3. ASSUME NEW f \in 1..Len(dbExports)
      PROVE  /\ f \in 1..Len(dbExports')
             /\ dbExports'[f].name = dbExports[f].name /\ dbExports'[f].path = dbExports[f].path
             /\ dbExports'[f].alive => dbExports[f].alive
  BY <1>2
<1> QED
  BY <1>1, <1>2, <1>3 DEF ExportsStay

LEMMA PathsMove ==
  ASSUME DbInv, ExportsStay, Len(dbExports') = Len(dbExports), \A name \in DbNames : dbPaths'[name] \in {0, dbPaths[name]}
  PROVE  PathsUnique' /\ PathsKnown'
<1>1. PathsUnique'
  <2>1. ASSUME NEW f \in 1..Len(dbExports') PROVE dbExports'[f].path \in {<<>>, Asked(dbExports[f].name)'}
    BY <2>1 DEF DbInv, PathsUnique, ExportsStay, Asked
  <2>2. ASSUME NEW f \in 1..Len(dbExports'), NEW g \in 1..Len(dbExports'), dbExports'[f].alive, dbExports'[g].alive,
               dbExports'[f].path = dbExports'[g].path, dbExports'[f].path # <<>>
        PROVE  f = g
    BY <2>2 DEF DbInv, PathsUnique, ExportsStay
  <2> QED
    BY <2>1, <2>2 DEF PathsUnique
<1>2. PathsKnown'
  BY DEF DbInv, PathsKnown, ExportsStay
<1> QED
  BY <1>1, <1>2

LEMMA MessagesMove ==
  ASSUME DbInv, CallsMove, BusMoves, NEW e \in 1..Len(dbExports), NEW x, MessagesInv(x)', dbExports'[e] = x,
         Len(dbExports') = Len(dbExports),
         \A f \in 1..Len(dbExports) : f # e => dbExports'[f] = dbExports[f]
  PROVE  \A f \in 1..Len(dbExports') : MessagesInv(dbExports[f])'
<1>1. ASSUME NEW f \in 1..Len(dbExports) PROVE MessagesInv(dbExports[f])'
  <2>1. PICK y : y = dbExports'[f]
    OBVIOUS
  <2>2. MessagesInv(y)'
    <3>1. CASE f = e
      BY <2>1, <3>1
    <3>2. CASE f # e
      <4>1. y = dbExports[f]
        BY <2>1, <3>2
      <4> QED
        BY <4>1, MessagesStay DEF DbInv
    <3> QED
      BY <3>1, <3>2
  <2> QED
    BY <2>1, <2>2, MessagesAre
<1> QED
  BY <1>1

\* The steps that change no export: what is left to show is the answer.
LEMMA AnswerKeeps ==
  ASSUME DbInv, UNCHANGED <<dbPaths, dbExports>>, ServerTyped',
         NEW methods \in SUBSET (ServerMethods \cup AsyncMethods \cup IteratorMethods), Served(methods),
         CallsMove, GotInv', \A c \in DbClients : ClientInv(c)',
         \A it \in dbIterators' : IteratorInv(it)'
  PROVE  DbInv'
<1>1. BusInv' /\ BusMoves
  BY BusAfterCall
<1>2. /\ PathsUnique' /\ PathsKnown'
      /\ \A e \in 1..Len(dbExports') : MessagesInv(dbExports[e])'
  BY <1>1, ServerStays
<1> QED
  BY <1>1, <1>2 DEF DbInv, CallsMove

LEMMA IteratorsKeep ==
  ASSUME DbInv, ExportsStay, UNCHANGED dbAlive, NEW it \in dbIterators,
         dbExports'[it.export].alive, it.open => dbExports'[it.export].version = dbExports[it.export].version,
         \A c \in DbClients : Contains(dbBus, Left(c)) => Contains(dbBus, Left(c))'
  PROVE  IteratorInv(it)'
<1>1. IteratorInv(it) /\ it.client \in DbClients
  BY DEF DbInv, ServerTyped, BusIterators
<1> QED
  BY <1>1, IteratorStays

LEMMA CreateModelKeeps ==
  ASSUME DbInv, NEW created \in BOOLEAN, createModel(created)
  PROVE  DbInv'
<1> DEFINE call == Head(dbBus)
           known == dbPaths[call.name]
           path == <<NormalizedName[call.name]>>
<1>1. Served({"createModel"}) /\ {"createModel"} \in SUBSET (ServerMethods \cup AsyncMethods \cup IteratorMethods)
  BY DEF createModel, ServerMethods
<1>2. CallMade(call) /\ call.method = "createModel" /\ call.name \in DbNames
  BY <1>1, ServedCall DEF CallMade
<1>3. UNCHANGED <<dbUp, dbIterators, dbAlive, dbCount>>
  BY DEF createModel
<1>4. AnswerTypes(call.method) = {"path"} /\ call.method \in ServerMethods
  BY <1>2, AnswerTypesAre DEF ServerMethods
<1>5. Asked(call.name) = path
  BY DEF Asked
<1>6. dbExports \in Seq(Exports) /\ \A it \in dbIterators : IteratorInv(it)
  BY DEF DbInv, ServerTyped
<1>7. CASE UNCHANGED <<dbPaths, dbExports>> /\
           \/ known # 0 /\ replied(call, "path", call.name, dbExports[known].path, <<>>)
           \/ failed(call)
  <2>1. ExportsStay
    BY <1>6, <1>7 DEF ExportsStay
  <2>2. CallsMove /\ GotInv' /\ \A c \in DbClients : ClientInv(c)'
    <3>1. CASE known # 0 /\ replied(call, "path", call.name, dbExports[known].path, <<>>)
      <4>1. known \in 1..Len(dbExports) /\ dbExports[known].name = call.name
        BY <1>2, <3>1 DEF DbInv, PathsKnown
      <4>2. dbExports[known].path \in {<<>>, Asked(call.name)}
        BY <4>1 DEF DbInv, PathsUnique
      <4>3. ReplyFits(call, "path", call.name, dbExports[known].path, <<>>)
        BY <1>2, <1>4, <4>2 DEF ReplyFits
      <4> QED
        BY <1>2, <1>3, <1>4, <2>1, <3>1, <4>3, Replied
    <3>2. CASE failed(call)
      BY <1>2, <1>3, <1>4, <2>1, <3>2, ErrorFits, Replied DEF failed
    <3> QED
      BY <1>7, <3>1, <3>2
  <2>3. \A c \in DbClients : Contains(dbBus, Left(c)) => Contains(dbBus, Left(c))'
    BY <1>1, <2>2, BusAfterCall
  <2>4. ASSUME NEW it \in dbIterators' PROVE IteratorInv(it)'
    <3>1. it \in dbIterators /\ dbExports'[it.export].alive
      BY <1>3, <1>6, <1>7, <2>4 DEF IteratorInv
    <3> QED
      BY <1>3, <1>7, <2>1, <2>3, <3>1, IteratorsKeep
  <2>5. ServerTyped'
    BY <1>3, <1>7 DEF DbInv, ServerTyped
  <2> QED
    BY <1>1, <1>7, <2>2, <2>4, <2>5, AnswerKeeps
<1>8. CASE /\ dbExports' = Append(dbExports,
                [name |-> call.name, path |-> IF Exported(path) = {} THEN path ELSE <<>>, alive |-> TRUE,
                 version |-> 0, queue |-> <<>>, ready |-> <<>>, delayed |-> <<>>, count |-> 0])
           /\ dbPaths' = [dbPaths EXCEPT ![call.name] = Len(dbExports')]
           /\ replied(call, "path", call.name, path, <<>>)
  <2> DEFINE x == [name |-> call.name, path |-> IF Exported(path) = {} THEN path ELSE <<>>, alive |-> TRUE,
                   version |-> 0, queue |-> <<>>, ready |-> <<>>, delayed |-> <<>>, count |-> 0]
  <2>1. x \in Exports
    <3>1. path \in ModelPaths /\ <<>> \in ModelPaths
      BY <1>2 DEF ModelPaths
    <3>2. (IF Exported(path) = {} THEN path ELSE <<>>) \in ModelPaths
      BY <3>1
    <3>3. ASSUME NEW p \in ModelPaths
          PROVE  [name |-> call.name, path |-> p, alive |-> TRUE, version |-> 0, queue |-> <<>>,
                  ready |-> <<>>, delayed |-> <<>>, count |-> 0] \in Exports
      BY <1>2 DEF Exports
    <3> QED
      BY <3>2, <3>3
  <2>2. /\ x.name = call.name /\ x.path = (IF Exported(path) = {} THEN path ELSE <<>>)
        /\ x.queue = <<>> /\ x.ready = <<>> /\ x.delayed = <<>>
    OBVIOUS
  <2>3. PICK y : y = x
    OBVIOUS
  <2> HIDE DEF x
  <2>4. /\ dbExports' \in Seq(Exports) /\ Len(dbExports') = Len(dbExports) + 1 /\ Len(dbExports) \in Nat
        /\ \A e \in 1..Len(dbExports) : dbExports'[e] = dbExports[e]
        /\ dbExports'[Len(dbExports) + 1] = y
    BY <1>6, <1>8, <2>1, <2>3, AppendProperties, LenProperties DEF x
  <2>5. 1..Len(dbExports') = 1..Len(dbExports) \cup {Len(dbExports) + 1}
    BY <2>4
  <2>6. ExportsStay
    BY <1>6, <2>4, <2>5 DEF ExportsStay
  <2>7. CallsMove /\ GotInv' /\ \A c \in DbClients : ClientInv(c)'
    <3>1. ReplyFits(call, "path", call.name, path, <<>>)
      BY <1>2, <1>4, <1>5 DEF ReplyFits
    <3> QED
      BY <1>2, <1>3, <1>4, <1>8, <2>6, <3>1, Replied
  <2>8. BusInv' /\ BusMoves /\ \A c \in DbClients : Contains(dbBus, Left(c)) => Contains(dbBus, Left(c))'
    BY <1>1, <2>7, BusAfterCall
  <2>9. ASSUME NEW e \in 1..Len(dbExports') PROVE MessagesInv(dbExports[e])'
    <3>1. CASE e \in 1..Len(dbExports)
      <4>1. PICK z : z = dbExports[e]
        OBVIOUS
      <4>2. MessagesInv(z)'
        BY <2>7, <2>8, <3>1, <4>1, MessagesStay DEF DbInv
      <4>3. dbExports'[e] = z
        BY <2>4, <3>1, <4>1
      <4> QED
        BY <4>2, <4>3, MessagesAre
    <3>2. CASE e = Len(dbExports) + 1
      <4>1. dbExports'[e] = y /\ y.queue = <<>> /\ y.ready = <<>> /\ y.delayed = <<>>
        BY <2>2, <2>3, <2>4, <3>2
      <4>2. Len(<<>>) = 0 /\ 1..0 = {}
        OBVIOUS
      <4> QED
        BY <4>1, <4>2 DEF MessagesInv, Pairwise
    <3> QED
      BY <2>5, <3>1, <3>2
  <2>10. PathsUnique'
    <3>1. ASSUME NEW e \in 1..Len(dbExports') PROVE dbExports'[e].path \in {<<>>, Asked(dbExports[e].name)'}
      <4>1. CASE e \in 1..Len(dbExports)
        BY <2>4, <4>1 DEF DbInv, PathsUnique, Asked
      <4>2. CASE e = Len(dbExports) + 1
        <5>1. dbExports'[e] = y /\ y.name = call.name /\ y.path \in {<<>>, path}
          BY <2>2, <2>3, <2>4, <4>2
        <5> QED
          BY <5>1 DEF Asked
      <4> QED
        BY <2>5, <4>1, <4>2
    <3>2. ASSUME NEW e \in 1..Len(dbExports), dbExports[e].alive, dbExports[e].path = y.path, y.path # <<>>
          PROVE  FALSE
      <4>1. y.path = path /\ Exported(path) = {}
        BY <2>2, <2>3, <3>2
      <4>2. e \in DOMAIN dbExports
        BY <1>6, LenProperties
      <4>3. e \in Exported(path)
        BY <3>2, <4>1, <4>2 DEF Exported
      <4> QED
        BY <4>1, <4>3
    <3>3. ASSUME NEW e \in 1..Len(dbExports'), NEW f \in 1..Len(dbExports'), dbExports'[e].alive, dbExports'[f].alive,
                 dbExports'[e].path = dbExports'[f].path, dbExports'[e].path # <<>>
          PROVE  e = f
      <4>1. CASE e \in 1..Len(dbExports) /\ f \in 1..Len(dbExports)
        BY <2>4, <3>3, <4>1 DEF DbInv, PathsUnique
      <4>2. CASE e = Len(dbExports) + 1 /\ f \in 1..Len(dbExports)
        BY <2>4, <3>2, <3>3, <4>2
      <4>3. CASE e \in 1..Len(dbExports) /\ f = Len(dbExports) + 1
        BY <2>4, <3>2, <3>3, <4>3
      <4> QED
        BY <2>5, <4>1, <4>2, <4>3
    <3> QED
      BY <3>1, <3>3 DEF PathsUnique
  <2>11. PathsKnown'
    <3>1. ASSUME NEW name \in DbNames, dbPaths'[name] # 0
          PROVE  dbPaths'[name] \in 1..Len(dbExports') /\ dbExports'[dbPaths'[name]].name = name
      <4>1. CASE name # call.name
        <5>1. dbPaths'[name] = dbPaths[name]
          BY <1>8, <4>1
        <5> QED
          BY <2>4, <2>5, <3>1, <5>1 DEF DbInv, PathsKnown
      <4>2. CASE name = call.name
        <5>1. dbPaths'[name] = Len(dbExports') \/ dbPaths'[name] = dbPaths[name]
          BY <1>8
        <5>2. dbExports'[Len(dbExports')].name = name /\ Len(dbExports') \in 1..Len(dbExports')
          BY <2>2, <2>3, <2>4, <2>5, <4>2
        <5> QED
          BY <2>4, <2>5, <3>1, <5>1, <5>2 DEF DbInv, PathsKnown
      <4> QED
        BY <4>1, <4>2
    <3> QED
      BY <3>1 DEF PathsKnown
  <2>12. ASSUME NEW it \in dbIterators' PROVE IteratorInv(it)'
    <3>1. it \in dbIterators /\ dbExports'[it.export] = dbExports[it.export] /\ dbExports[it.export].alive
      BY <1>3, <1>6, <2>4, <2>12 DEF IteratorInv
    <3> QED
      BY <1>3, <2>6, <2>8, <3>1, IteratorsKeep
  <2>13. ServerTyped'
    BY <1>3, <2>4 DEF DbInv, ServerTyped
  <2> QED
    BY <2>7, <2>8, <2>9, <2>10, <2>11, <2>12, <2>13 DEF DbInv, CallsMove
<1> QED
  <2>1. CASE known # 0
    BY <1>7, <2>1 DEF createModel
  <2>2. CASE known = 0
    BY <1>7, <1>8, <2>2 DEF createModel
  <2> QED
    BY <2>1, <2>2

(***************************************************************************)
(* What the removal of a model leaves of its export.                       *)
(***************************************************************************)
LEMMA ExportCleared ==
  ASSUME NEW y \in Exports
  PROVE  LET z == [y EXCEPT !.alive = FALSE, !.queue = <<>>, !.ready = <<>>, !.delayed = <<>>]
         IN /\ z \in Exports /\ z.name = y.name /\ z.path = y.path /\ ~z.alive
            /\ z.queue = <<>> /\ z.ready = <<>> /\ z.delayed = <<>>
<1>0. <<>> \in Seq(AsyncRuns) /\ <<>> \in Seq(BusCalls)
  OBVIOUS
<1>1. PICK queue \in Seq(AsyncRuns) : queue = <<>>
  BY <1>0
<1>2. PICK delayed \in Seq(BusCalls) : delayed = <<>>
  BY <1>0
<1>3. LET z == [y EXCEPT !.alive = FALSE, !.queue = queue, !.ready = queue, !.delayed = delayed]
      IN /\ z \in Exports /\ z.name = y.name /\ z.path = y.path /\ ~z.alive
         /\ z.queue = queue /\ z.ready = queue /\ z.delayed = delayed
  BY DEF Exports
<1> QED
  BY <1>1, <1>2, <1>3

LEMMA RemoveModelKeeps ==
  ASSUME DbInv, removeModelOnBus
  PROVE  DbInv'
<1> DEFINE call == Head(dbBus)
           known == dbPaths[call.name]
<1>1. Served({"removeModel"}) /\ {"removeModel"} \in SUBSET (ServerMethods \cup AsyncMethods \cup IteratorMethods)
  BY DEF removeModelOnBus, ServerMethods
<1>2. CallMade(call) /\ call.method = "removeModel" /\ call.name \in DbNames
  BY <1>1, ServedCall DEF CallMade
<1>3. UNCHANGED <<dbAlive, dbCount>>
  BY DEF removeModelOnBus
<1>4. /\ dbExports \in Seq(Exports) /\ dbIterators \in SUBSET BusIterators /\ \A it \in dbIterators : IteratorInv(it)
      /\ \A c \in DbClients : ClientInv(c)
      /\ ClientsTyped /\ GotInv
  BY DEF DbInv, ServerTyped
<1>5. CASE known = 0
  <2>1. UNCHANGED <<dbCore, dbPaths, dbExports, dbIterators, dbCalls, dbModel, dbIterator, dbGot>>
    BY <1>5 DEF removeModelOnBus, dbClient
  <2>2. ExportsStay
    BY <1>4, <2>1 DEF ExportsStay
  <2>3. CallsMove
    BY <1>3, <1>4, <2>1 DEF CallsMove, ClientsTyped
  <2>4. GotInv'
    BY <1>4, <2>1, <2>2, GotStays
  <2>5. ASSUME NEW c \in DbClients PROVE ClientInv(c)'
    BY <1>4, <2>1, <2>2, <2>3, ClientStays
  <2>6. \A c \in DbClients : Contains(dbBus, Left(c)) => Contains(dbBus, Left(c))'
    BY <1>1, <2>3, BusAfterCall
  <2>7. ASSUME NEW it \in dbIterators' PROVE IteratorInv(it)'
    <3>1. it \in dbIterators /\ dbExports'[it.export].alive
      BY <1>4, <2>1, <2>7 DEF IteratorInv
    <3> QED
      BY <1>3, <2>1, <2>2, <2>6, <3>1, IteratorsKeep
  <2>8. ServerTyped'
    BY <1>4, <2>1 DEF ServerTyped
  <2> QED
    BY <1>1, <2>1, <2>3, <2>4, <2>5, <2>7, <2>8, AnswerKeeps
<1>6. CASE known # 0
  <2> DEFINE x == [dbExports[known] EXCEPT !.alive = FALSE, !.queue = <<>>, !.ready = <<>>, !.delayed = <<>>]
  <2>1. /\ dbPaths' = [dbPaths EXCEPT ![call.name] = 0]
        /\ dbExports' = [dbExports EXCEPT ![known] = x]
        /\ dbIterators' = {it \in dbIterators : it.export # known}
        /\ replied(call, "nothing", call.name, <<>>, <<>>)
    BY <1>6 DEF removeModelOnBus
  <2>2. known \in 1..Len(dbExports) /\ dbExports[known] \in Exports
    BY <1>2, <1>4, <1>6, ElementOfSeq DEF DbInv, PathsKnown
  <2>3. /\ x \in Exports /\ x.name = dbExports[known].name /\ x.path = dbExports[known].path /\ ~x.alive
        /\ x.queue = <<>> /\ x.ready = <<>> /\ x.delayed = <<>>
    BY <2>2, ExportCleared
  <2>4. PICK y : y = x
    OBVIOUS
  <2> HIDE DEF x
  <2>5. /\ ExportsStay /\ Len(dbExports') = Len(dbExports) /\ dbExports'[known] = y
        /\ \A f \in 1..Len(dbExports) : f # known => dbExports'[f] = dbExports[f]
    BY <2>1, <2>2, <2>3, <2>4, ExportMoves
  <2>6. CallsMove /\ GotInv' /\ \A c \in DbClients : ClientInv(c)'
    <3>1. ReplyFits(call, "nothing", call.name, <<>>, <<>>)
      BY <1>2, AnswerTypesAre DEF ReplyFits
    <3>2. call.method \in ServerMethods
      BY <1>2 DEF ServerMethods
    <3> QED
      BY <1>2, <1>3, <2>1, <2>5, <3>1, <3>2, Replied
  <2>7. BusInv' /\ BusMoves /\ \A c \in DbClients : Contains(dbBus, Left(c)) => Contains(dbBus, Left(c))'
    BY <1>1, <2>6, BusAfterCall
  <2>8. MessagesInv(y)'
    <3>1. Len(<<>>) = 0 /\ 1..0 = {} /\ y.queue = <<>> /\ y.ready = <<>> /\ y.delayed = <<>>
      BY <2>3, <2>4
    <3> QED
      BY <3>1 DEF MessagesInv, Pairwise
  <2>9. \A f \in 1..Len(dbExports') : MessagesInv(dbExports[f])'
    BY <2>2, <2>5, <2>6, <2>7, <2>8, MessagesMove
  <2>10. PathsUnique' /\ PathsKnown'
    <3>1. \A name \in DbNames : dbPaths'[name] \in {0, dbPaths[name]}
      BY <2>1
    <3> QED
      BY <2>5, <3>1, PathsMove
  <2>11. ASSUME NEW it \in dbIterators' PROVE IteratorInv(it)'
    <3>1. it \in dbIterators /\ it.export # known
      BY <2>1
    <3>2. dbExports'[it.export] = dbExports[it.export] /\ dbExports[it.export].alive
      BY <1>4, <2>5, <3>1 DEF IteratorInv
    <3> QED
      BY <1>3, <2>5, <2>7, <3>1, <3>2, IteratorsKeep
  <2>12. ServerTyped'
    BY <1>4, <2>1, <2>5 DEF ServerTyped, ExportsStay
  <2> QED
    BY <2>6, <2>7, <2>9, <2>10, <2>11, <2>12 DEF DbInv, CallsMove
<1> QED
  BY <1>5, <1>6

\* One export changes in its commands and messages; nobody is answered.
LEMMA RunsKeep ==
  ASSUME DbInv, NEW e \in 1..Len(dbExports), NEW x \in Exports, dbExports' = [dbExports EXCEPT ![e] = x],
         x.name = dbExports[e].name, x.path = dbExports[e].path, x.alive, dbExports[e].alive,
         ServerTyped', UNCHANGED dbPaths, BusInv', BusMoves, MessagesInv(x)',
         CallsMove, GotInv', \A c \in DbClients : ClientInv(c)',
         \A it \in dbIterators' : IteratorInv(it)'
  PROVE  DbInv'
<1>1. /\ ExportsStay /\ Len(dbExports') = Len(dbExports) /\ dbExports'[e] = x
      /\ \A f \in 1..Len(dbExports) : f # e => dbExports'[f] = dbExports[f]
  BY ExportMoves
<1>2. PathsUnique' /\ PathsKnown'
  <2>1. \A name \in DbNames : dbPaths'[name] \in {0, dbPaths[name]}
    OBVIOUS
  <2> QED
    BY <1>1, <2>1, PathsMove
<1>3. \A f \in 1..Len(dbExports') : MessagesInv(dbExports[f])'
  BY <1>1, MessagesMove
<1> QED
  BY <1>2, <1>3 DEF DbInv, CallsMove

-----------------------------------------------------------------------------
(***************************************************************************)
(* The commands and the messages of an export.                             *)
(***************************************************************************)
LEMMA ExportsSeqs ==
  ASSUME NEW y \in Exports
  PROVE  /\ y.queue \in Seq(AsyncRuns) /\ y.ready \in Seq(AsyncRuns) /\ y.delayed \in Seq(BusCalls)
         /\ Len(y.queue) \in Nat /\ Len(y.ready) \in Nat /\ Len(y.delayed) \in Nat
         /\ y.version \in Nat /\ y.count \in Nat /\ y.name \in DbNames
<1>1. /\ y.queue \in Seq(AsyncRuns) /\ y.ready \in Seq(AsyncRuns) /\ y.delayed \in Seq(BusCalls)
      /\ y.version \in Nat /\ y.count \in Nat /\ y.name \in DbNames
  BY DEF Exports
<1> QED
  BY <1>1, LenProperties

\* A call comes in: its command is queued and its message is kept.
LEMMA MessagesAsked ==
  ASSUME CallsMove, BusMoves, NEW y \in Exports, MessagesInv(y), y.alive,
         NEW call \in BusCalls, NEW run \in AsyncRuns, Answers(run, call), Kept(y.path, call)',
         \A m \in 1..Len(y.delayed) : y.delayed[m].id # call.id
  PROVE  \A z : /\ z.path = y.path /\ z.alive = y.alive
                /\ z.queue = Append(y.queue, run) /\ z.ready = y.ready /\ z.delayed = Append(y.delayed, call)
                => MessagesInv(z)'
<1>1. /\ y.queue \in Seq(AsyncRuns) /\ y.ready \in Seq(AsyncRuns) /\ y.delayed \in Seq(BusCalls)
      /\ Len(y.queue) \in Nat /\ Len(y.delayed) \in Nat
  BY ExportsSeqs
<1>2. /\ \A k \in 1..Len(y.queue) : y.queue[k].id # run.id
      /\ \A k \in 1..Len(y.ready) : y.ready[k].id # run.id
  <2>1. run.id = call.id
    BY DEF Answers
  <2>2. ASSUME NEW k \in 1..Len(y.queue) PROVE y.queue[k].id # run.id
    <3>1. PICK m \in 1..Len(y.delayed) : Answers(y.queue[k], y.delayed[m])
      BY DEF MessagesInv
    <3> QED
      BY <2>1, <3>1 DEF Answers
  <2>3. ASSUME NEW k \in 1..Len(y.ready) PROVE y.ready[k].id # run.id
    <3>1. PICK m \in 1..Len(y.delayed) : Answers(y.ready[k], y.delayed[m])
      BY DEF MessagesInv
    <3> QED
      BY <2>1, <3>1 DEF Answers
  <2> QED
    BY <2>2, <2>3
<1>3. PICK queue \in Seq(AsyncRuns) :
        /\ queue = Append(y.queue, run) /\ Pairwise(queue) /\ Len(queue) = Len(y.queue) + 1
        /\ \A k \in 1..Len(y.queue) : queue[k] = y.queue[k]
        /\ queue[Len(y.queue) + 1] = run
  <2>1. Pairwise(y.queue)
    BY DEF MessagesInv
  <2>2. /\ Append(y.queue, run) \in Seq(AsyncRuns) /\ Pairwise(Append(y.queue, run))
        /\ AllAnd(run, y.queue, Append(y.queue, run))
    BY <1>1, <1>2, <2>1, PairwiseAppend
  <2> QED
    BY <2>2 DEF AllAnd
<1>4. PICK delayed \in Seq(BusCalls) :
        /\ delayed = Append(y.delayed, call) /\ Pairwise(delayed) /\ Len(delayed) = Len(y.delayed) + 1
        /\ \A k \in 1..Len(y.delayed) : delayed[k] = y.delayed[k]
        /\ delayed[Len(y.delayed) + 1] = call
  <2>1. Pairwise(y.delayed)
    BY DEF MessagesInv
  <2>2. /\ Append(y.delayed, call) \in Seq(BusCalls) /\ Pairwise(Append(y.delayed, call))
        /\ AllAnd(call, y.delayed, Append(y.delayed, call))
    BY <1>1, <2>1, PairwiseAppend
  <2> QED
    BY <2>2 DEF AllAnd
<1>5. /\ 1..Len(queue) = 1..Len(y.queue) \cup {Len(y.queue) + 1}
      /\ 1..Len(delayed) = 1..Len(y.delayed) \cup {Len(y.delayed) + 1}
  <2>1. \A n \in Nat : 1..(n + 1) = 1..n \cup {n + 1}
    OBVIOUS
  <2> QED
    BY <1>1, <1>3, <1>4, <2>1
<1>6. ASSUME NEW m \in 1..Len(delayed) PROVE Kept(y.path, delayed[m])'
  <2>1. CASE m \in 1..Len(y.delayed)
    <3>1. Kept(y.path, y.delayed[m])
      BY <2>1 DEF MessagesInv
    <3>2. Kept(y.path, y.delayed[m])'
      BY <3>1, KeptStays
    <3> QED
      BY <1>4, <2>1, <3>2
  <2>2. CASE m = Len(y.delayed) + 1
    BY <1>4, <2>2
  <2> QED
    BY <1>5, <2>1, <2>2
<1>7. \A k \in 1..Len(y.queue) : \E m \in 1..Len(delayed) : Answers(y.queue[k], delayed[m])
  BY <1>4, <1>5 DEF MessagesInv
<1>8. \A k \in 1..Len(y.ready) : \E m \in 1..Len(delayed) : Answers(y.ready[k], delayed[m])
  BY <1>4, <1>5 DEF MessagesInv
<1>9. \A k \in 1..Len(queue) : \E m \in 1..Len(delayed) : Answers(queue[k], delayed[m])
  <2>1. call = delayed[Len(y.delayed) + 1] /\ Len(y.delayed) + 1 \in 1..Len(delayed)
    BY <1>4, <1>5
  <2> QED
    BY <1>3, <1>5, <1>7, <2>1
<1>10. \A k \in 1..Len(queue), l \in 1..Len(y.ready) : queue[k].id # y.ready[l].id
  BY <1>2, <1>3, <1>5 DEF MessagesInv
<1>11. Pairwise(queue) /\ Pairwise(y.ready) /\ Pairwise(delayed)
  BY <1>3, <1>4 DEF MessagesInv
<1>12. ASSUME NEW z, z.path = y.path, z.alive = y.alive, z.queue = queue, z.ready = y.ready, z.delayed = delayed
       PROVE  MessagesInv(z)'
  BY <1>6, <1>8, <1>9, <1>10, <1>11, <1>12 DEF MessagesInv, Pairwise, Answers
<1> QED
  BY <1>3, <1>4, <1>12

\* A command has been executed: it moves from the queue to the results.
LEMMA MessagesRan ==
  ASSUME CallsMove, BusMoves, NEW y \in Exports, MessagesInv(y), y.alive,
         NEW i \in 1..Len(y.queue), NEW run \in AsyncRuns,
         run.id = y.queue[i].id, run.kind \in {"error", y.queue[i].kind}
  PROVE  \A z : /\ z.path = y.path /\ z.alive = y.alive
                /\ z.queue = RemoveAt(y.queue, i) /\ z.ready = Append(y.ready, run) /\ z.delayed = y.delayed
                => MessagesInv(z)'
<1>1. /\ y.queue \in Seq(AsyncRuns) /\ y.ready \in Seq(AsyncRuns) /\ y.delayed \in Seq(BusCalls)
      /\ Len(y.queue) \in Nat /\ Len(y.ready) \in Nat
  BY ExportsSeqs
<1>2. /\ Pairwise(y.queue) /\ Pairwise(y.ready) /\ Pairwise(y.delayed)
      /\ \A k \in 1..Len(y.queue), l \in 1..Len(y.ready) : y.queue[k].id # y.ready[l].id
  BY DEF MessagesInv
<1>3. PICK queue \in Seq(AsyncRuns) :
        /\ queue = RemoveAt(y.queue, i) /\ Pairwise(queue)
        /\ \A k \in 1..Len(queue) : queue[k].id # y.queue[i].id /\ \E l \in 1..Len(y.queue) : l # i /\ queue[k] = y.queue[l]
  <2>1. RemoveAt(y.queue, i) \in Seq(AsyncRuns) /\ Pairwise(RemoveAt(y.queue, i)) /\ AllBut(i, y.queue, RemoveAt(y.queue, i))
    BY <1>1, <1>2, PairwiseRemove
  <2> QED
    BY <2>1 DEF AllBut
<1>4. PICK ready \in Seq(AsyncRuns) :
        /\ ready = Append(y.ready, run) /\ Pairwise(ready) /\ Len(ready) = Len(y.ready) + 1
        /\ \A k \in 1..Len(y.ready) : ready[k] = y.ready[k]
        /\ ready[Len(y.ready) + 1] = run
  <2>1. \A k \in 1..Len(y.ready) : y.ready[k].id # run.id
    BY <1>2
  <2>2. /\ Append(y.ready, run) \in Seq(AsyncRuns) /\ Pairwise(Append(y.ready, run))
        /\ AllAnd(run, y.ready, Append(y.ready, run))
    BY <1>1, <1>2, <2>1, PairwiseAppend
  <2> QED
    BY <2>2 DEF AllAnd
<1> SUFFICES ASSUME NEW z, z.path = y.path, z.alive = y.alive,
                    z.queue = RemoveAt(y.queue, i), z.ready = Append(y.ready, run), z.delayed = y.delayed
             PROVE  MessagesInv(z)'
  OBVIOUS
<1>5. z.path = y.path /\ z.alive /\ z.queue = queue /\ z.ready = ready /\ z.delayed = y.delayed
  BY <1>3, <1>4
<1>6. 1..Len(ready) = 1..Len(y.ready) \cup {Len(y.ready) + 1}
  BY <1>1, <1>4
<1>7. \A m \in 1..Len(z.delayed) : Kept(z.path, z.delayed[m])'
  <2>1. ASSUME NEW m \in 1..Len(y.delayed) PROVE Kept(y.path, y.delayed[m])'
    <3>1. Kept(y.path, y.delayed[m])
      BY DEF MessagesInv
    <3> QED
      BY <3>1, KeptStays
  <2> QED
    BY <1>5, <2>1
<1>8. \E m \in 1..Len(y.delayed) : Answers(run, y.delayed[m])
  BY DEF MessagesInv, Answers
<1>9. \A k \in 1..Len(z.queue) : \E m \in 1..Len(z.delayed) : Answers(z.queue[k], z.delayed[m])
  BY <1>3, <1>5 DEF MessagesInv
<1>10. \A k \in 1..Len(z.ready) : \E m \in 1..Len(z.delayed) : Answers(z.ready[k], z.delayed[m])
  BY <1>4, <1>5, <1>6, <1>8 DEF MessagesInv
<1>11. ASSUME NEW k \in 1..Len(queue), NEW l \in 1..Len(ready) PROVE queue[k].id # ready[l].id
  <2>1. PICK j \in 1..Len(y.queue) : j # i /\ queue[k] = y.queue[j]
    BY <1>3
  <2>2. CASE l \in 1..Len(y.ready)
    BY <1>2, <1>4, <2>1, <2>2
  <2>3. CASE l = Len(y.ready) + 1
    BY <1>3, <1>4, <2>3
  <2> QED
    BY <1>6, <2>2, <2>3
<1>12. Pairwise(z.queue) /\ Pairwise(z.ready) /\ Pairwise(z.delayed) /\ z.alive
  BY <1>2, <1>3, <1>4, <1>5
<1>13. ASSUME NEW k \in 1..Len(z.queue), NEW l \in 1..Len(z.ready) PROVE z.queue[k].id # z.ready[l].id
  <2>1. k \in 1..Len(queue) /\ l \in 1..Len(ready)
    BY <1>5
  <2> QED
    BY <1>5, <1>11, <2>1
<1> QED
  BY <1>5, <1>7, <1>9, <1>10, <1>12, <1>13 DEF MessagesInv, Pairwise, Answers

\* A result is handed out, and its message with it.
LEMMA MessagesAnswered ==
  ASSUME CallsMove, BusMoves, NEW y \in Exports, MessagesInv(y), y.alive, y.ready # <<>>,
         NEW i \in 1..Len(y.delayed), y.delayed[i].id = Head(y.ready).id
  PROVE  \A z : /\ z.path = y.path /\ z.alive = y.alive
                /\ z.queue = y.queue /\ z.ready = Tail(y.ready) /\ z.delayed = RemoveAt(y.delayed, i)
                => MessagesInv(z)'
<1>1. /\ y.queue \in Seq(AsyncRuns) /\ y.ready \in Seq(AsyncRuns) /\ y.delayed \in Seq(BusCalls)
  BY ExportsSeqs
<1>2. /\ Pairwise(y.queue) /\ Pairwise(y.ready) /\ Pairwise(y.delayed)
      /\ \A k \in 1..Len(y.queue), l \in 1..Len(y.ready) : y.queue[k].id # y.ready[l].id
  BY DEF MessagesInv
<1>3. PICK ready \in Seq(AsyncRuns) :
        /\ ready = Tail(y.ready) /\ Pairwise(ready) /\ Head(y.ready) = y.ready[1] /\ 1 \in 1..Len(y.ready)
        /\ \A k \in 1..Len(ready) : ready[k].id # Head(y.ready).id /\ \E l \in 1..Len(y.ready) : l # 1 /\ ready[k] = y.ready[l]
  <2>1. /\ Tail(y.ready) \in Seq(AsyncRuns) /\ Pairwise(Tail(y.ready)) /\ Head(y.ready) = y.ready[1] /\ 1 \in 1..Len(y.ready)
        /\ \A k \in 1..Len(Tail(y.ready)) :
             /\ Tail(y.ready)[k].id # Head(y.ready).id
             /\ \E l \in 1..Len(y.ready) : l # 1 /\ Tail(y.ready)[k] = y.ready[l]
    BY <1>1, <1>2, PairwiseTail
  <2> QED
    BY <2>1
<1>4. PICK delayed \in Seq(BusCalls) :
        /\ delayed = RemoveAt(y.delayed, i) /\ Pairwise(delayed)
        /\ \A k \in 1..Len(delayed) : \E l \in 1..Len(y.delayed) : l # i /\ delayed[k] = y.delayed[l]
        /\ \A l \in 1..Len(y.delayed) : l # i => \E k \in 1..Len(delayed) : delayed[k] = y.delayed[l]
  <2>1. /\ RemoveAt(y.delayed, i) \in Seq(BusCalls) /\ Pairwise(RemoveAt(y.delayed, i))
        /\ AllBut(i, y.delayed, RemoveAt(y.delayed, i))
    BY <1>1, <1>2, PairwiseRemove
  <2> QED
    BY <2>1 DEF AllBut
<1> SUFFICES ASSUME NEW z, z.path = y.path, z.alive = y.alive,
                    z.queue = y.queue, z.ready = Tail(y.ready), z.delayed = RemoveAt(y.delayed, i)
             PROVE  MessagesInv(z)'
  OBVIOUS
<1>5. z.path = y.path /\ z.alive /\ z.queue = y.queue /\ z.ready = ready /\ z.delayed = delayed
  BY <1>3, <1>4
<1>6. \A m \in 1..Len(z.delayed) : Kept(z.path, z.delayed[m])'
  <2>1. ASSUME NEW m \in 1..Len(y.delayed) PROVE Kept(y.path, y.delayed[m])'
    <3>1. Kept(y.path, y.delayed[m])
      BY DEF MessagesInv
    <3> QED
      BY <3>1, KeptStays
  <2> QED
    BY <1>4, <1>5, <2>1
<1>7. ASSUME NEW run, run.id # y.delayed[i].id, \E m \in 1..Len(y.delayed) : Answers(run, y.delayed[m])
      PROVE  \E m \in 1..Len(delayed) : Answers(run, delayed[m])
  <2>1. PICK m \in 1..Len(y.delayed) : Answers(run, y.delayed[m])
    BY <1>7
  <2>2. m # i
    BY <1>7, <2>1 DEF Answers
  <2>3. PICK k \in 1..Len(delayed) : delayed[k] = y.delayed[m]
    BY <1>4, <2>2
  <2> QED
    BY <2>1, <2>3
<1>8. ASSUME NEW k \in 1..Len(y.queue) PROVE \E m \in 1..Len(delayed) : Answers(y.queue[k], delayed[m])
  <2>1. y.queue[k].id # y.delayed[i].id
    BY <1>2, <1>3
  <2>2. \E m \in 1..Len(y.delayed) : Answers(y.queue[k], y.delayed[m])
    BY DEF MessagesInv
  <2> QED
    BY <1>7, <2>1, <2>2
<1>9. ASSUME NEW k \in 1..Len(ready) PROVE \E m \in 1..Len(delayed) : Answers(ready[k], delayed[m])
  <2>1. PICK l \in 1..Len(y.ready) : ready[k] = y.ready[l]
    BY <1>3
  <2>2. ready[k].id # y.delayed[i].id
    BY <1>3
  <2>3. \E m \in 1..Len(y.delayed) : Answers(y.ready[l], y.delayed[m])
    BY DEF MessagesInv
  <2> QED
    BY <1>7, <2>1, <2>2, <2>3
<1>10. \A k \in 1..Len(z.queue), l \in 1..Len(z.ready) : z.queue[k].id # z.ready[l].id
  BY <1>2, <1>3, <1>5
<1>11. Pairwise(z.queue) /\ Pairwise(z.ready) /\ Pairwise(z.delayed) /\ z.alive
  BY <1>2, <1>3, <1>4, <1>5
<1>12. /\ \A k \in 1..Len(z.queue) : \E m \in 1..Len(z.delayed) : Answers(z.queue[k], z.delayed[m])
       /\ \A k \in 1..Len(z.ready) : \E m \in 1..Len(z.delayed) : Answers(z.ready[k], z.delayed[m])
  BY <1>5, <1>8, <1>9
<1> QED
  BY <1>5, <1>6, <1>10, <1>11, <1>12 DEF MessagesInv, Pairwise, Answers

LEMMA AdaptorCallKeeps ==
  ASSUME DbInv, adaptorCall
  PROVE  DbInv'
<1>1. Served(AsyncMethods) /\ AsyncMethods \in SUBSET (ServerMethods \cup AsyncMethods \cup IteratorMethods)
  BY DEF adaptorCall, AsyncMethods
<1>2. PICK call : call = Head(dbBus)
  OBVIOUS
<1>3. /\ CallMade(call) /\ call.method \in AsyncMethods /\ call.path \in {<<>>, Asked(call.name)}
      /\ call = dbBus[1] /\ 1 \in 1..Len(dbBus)
  BY <1>1, <1>2, ServedCall
<1>4. UNCHANGED <<dbPaths, dbIterators, dbAlive, dbCount>>
  BY DEF adaptorCall
<1>5. /\ dbExports \in Seq(Exports) /\ dbIterators \in SUBSET BusIterators /\ \A it \in dbIterators : IteratorInv(it)
      /\ \A c \in DbClients : ClientInv(c)
      /\ ClientsTyped /\ GotInv
      /\ DOMAIN dbExports = 1..Len(dbExports)
  BY LenProperties DEF DbInv, ServerTyped
<1>6. CASE failed(call) /\ UNCHANGED dbExports
  <2>1. ExportsStay
    BY <1>5, <1>6 DEF ExportsStay
  <2>2. CallsMove /\ GotInv' /\ \A c \in DbClients : ClientInv(c)'
    BY <1>3, <1>4, <1>6, <2>1, ErrorFits, Replied DEF failed
  <2>3. \A c \in DbClients : Contains(dbBus, Left(c)) => Contains(dbBus, Left(c))'
    BY <1>1, <2>2, BusAfterCall
  <2>4. ASSUME NEW it \in dbIterators' PROVE IteratorInv(it)'
    <3>1. it \in dbIterators /\ dbExports'[it.export].alive
      BY <1>4, <1>5, <1>6, <2>4 DEF IteratorInv
    <3> QED
      BY <1>4, <1>6, <2>1, <2>3, <3>1, IteratorsKeep
  <2>5. ServerTyped'
    BY <1>4, <1>5, <1>6 DEF ServerTyped
  <2> QED
    BY <1>1, <1>4, <1>6, <2>2, <2>4, <2>5, AnswerKeeps
<1>7. ASSUME NEW e \in Exported(call.path), UNCHANGED dbClient,
             dbExports' = [dbExports EXCEPT ![e] = [dbExports[e] EXCEPT
               !.queue = Append(@, [id |-> call.id, kind |-> AsyncCommands[call.method]]), !.delayed = Append(@, call)]]
      PROVE  DbInv'
  <2>1. PICK run : run = [id |-> call.id, kind |-> AsyncCommands[call.method]]
    OBVIOUS
  <2>2. PICK y : y = dbExports[e]
    OBVIOUS
  <2>3. PICK z : z = [y EXCEPT !.queue = Append(y.queue, run), !.delayed = Append(y.delayed, call)]
    OBVIOUS
  <2>4. /\ e \in 1..Len(dbExports) /\ y.alive /\ y.path = Asked(call.name)
        /\ dbExports' = [dbExports EXCEPT ![e] = z]
    <3>1. e \in 1..Len(dbExports) /\ y.alive /\ y.path = Asked(call.name)
      BY <1>3, <1>5, <1>7, <2>2 DEF Exported
    <3>2. dbExports' = [dbExports EXCEPT ![e] =
            [y EXCEPT !.queue = Append(y.queue, run), !.delayed = Append(y.delayed, call)]]
      BY <1>7, <2>1, <2>2
    <3>3. dbExports' = [dbExports EXCEPT ![e] = z]
      BY <2>3, <3>2
    <3> QED
      BY <3>1, <3>3
  <2>5. y \in Exports /\ MessagesInv(y)
    BY <1>5, <2>2, <2>4, ElementOfSeq DEF DbInv
  <2>6. run \in AsyncRuns /\ Answers(run, call) /\ call \in BusCalls
    <3>1. AsyncCommands[call.method] \in {"write", "ask", "list", "error"} /\ call.id \in Nat /\ call \in BusCalls
      BY <1>3, <1>5, AsyncMethodsAre DEF CallMade, ClientsTyped
    <3> QED
      BY <2>1, <3>1 DEF AsyncRuns, Answers
  <2>7. \A m \in 1..Len(y.delayed) : y.delayed[m].id # call.id
    BY <1>3, <2>5 DEF MessagesInv, Kept
  <2>8. CallsMove
    BY <1>4, <1>5, <1>7 DEF CallsMove, ClientsTyped, dbClient
  <2>9. /\ BusInv' /\ BusMoves
        /\ \A k \in 1..Len(dbBus') : dbBus'[k].id # call.id
        /\ \A c \in DbClients : Contains(dbBus, Left(c)) => Contains(dbBus, Left(c))'
    BY <1>1, <1>2, <2>8, BusAfterCall
  <2>10. Kept(y.path, call)'
    <3>1. CallMade(call)'
      BY <1>3, <2>8, CallStays
    <3> QED
      BY <1>3, <2>4, <2>9, <3>1 DEF Kept, Asked
  <2>11. /\ z \in Exports /\ z.name = y.name /\ z.path = y.path /\ z.alive = y.alive /\ z.version = y.version
         /\ MessagesInv(z)'
    <3>1. Append(y.queue, run) \in Seq(AsyncRuns) /\ Append(y.delayed, call) \in Seq(BusCalls)
      BY <2>5, <2>6, ExportsSeqs, AppendProperties
    <3>2. PICK queue \in Seq(AsyncRuns), delayed \in Seq(BusCalls) :
            queue = Append(y.queue, run) /\ delayed = Append(y.delayed, call)
      BY <3>1
    <3>3. z = [y EXCEPT !.queue = queue, !.delayed = delayed]
      BY <2>3, <3>2
    <3>4. /\ z \in Exports /\ z.name = y.name /\ z.path = y.path /\ z.alive = y.alive /\ z.version = y.version
          /\ z.queue = queue /\ z.ready = y.ready /\ z.delayed = delayed
      BY ONLY <2>5, <3>3, queue \in Seq(AsyncRuns), delayed \in Seq(BusCalls) DEF Exports
    <3> QED
      BY <2>4, <2>5, <2>6, <2>7, <2>8, <2>9, <2>10, <3>2, <3>4, MessagesAsked
  <2>12. /\ ExportsStay /\ Len(dbExports') = Len(dbExports) /\ dbExports'[e] = z
         /\ \A f \in 1..Len(dbExports) : f # e => dbExports'[f] = dbExports[f]
    BY <2>2, <2>4, <2>11, ExportMoves
  <2>13. GotInv' /\ \A c \in DbClients : ClientInv(c)'
    BY <1>5, <1>7, <2>8, <2>12, GotStays, ClientStays DEF dbClient
  <2>14. ASSUME NEW it \in dbIterators' PROVE IteratorInv(it)'
    <3>1. it \in dbIterators /\ IteratorInv(it) /\ it.export \in 1..Len(dbExports)
      BY <1>4, <1>5, <2>14 DEF IteratorInv
    <3>2. dbExports'[it.export].alive /\ dbExports'[it.export].version = dbExports[it.export].version
      BY <2>2, <2>4, <2>11, <2>12, <3>1 DEF IteratorInv
    <3> QED
      BY <1>4, <2>9, <2>12, <3>1, <3>2, IteratorsKeep
  <2>15. ServerTyped'
    BY <1>4, <1>5, <2>12 DEF ServerTyped, ExportsStay
  <2> QED
    BY <1>4, <2>2, <2>4, <2>8, <2>9, <2>11, <2>13, <2>14, <2>15, RunsKeep
<1> QED
  BY <1>2, <1>6, <1>7 DEF adaptorCall

LEMMA ExecuteKeeps ==
  ASSUME DbInv, NEW e \in DOMAIN dbExports, NEW fails \in BOOLEAN, executeOf(e, fails)
  PROVE  DbInv'
<1>1. UNCHANGED <<dbPaths, dbIterators, dbBus, dbAlive, dbCount>> /\ UNCHANGED dbClient
  BY DEF executeOf
<1>2. /\ dbExports \in Seq(Exports) /\ dbIterators \in SUBSET BusIterators /\ \A it \in dbIterators : IteratorInv(it)
      /\ \A c \in DbClients : ClientInv(c)
      /\ ClientsTyped /\ GotInv
      /\ e \in 1..Len(dbExports)
  BY LenProperties DEF DbInv, ServerTyped
<1>3. PICK y : y = dbExports[e]
  OBVIOUS
<1>4. y \in Exports /\ MessagesInv(y)
  BY <1>2, <1>3, ElementOfSeq DEF DbInv
<1>5. PICK i \in DOMAIN y.queue :
        /\ MayExecute(e, y.queue[i])
        /\ dbExports' = [dbExports EXCEPT ![e] =
             [y EXCEPT !.queue = RemoveAt(y.queue, i),
                       !.ready = Append(y.ready, IF fails THEN [y.queue[i] EXCEPT !.kind = "error"] ELSE y.queue[i]),
                       !.version = IF y.queue[i].kind = "write" /\ ~fails THEN y.version + 1 ELSE y.version]]
  <2>1. LET queue == dbExports[e].queue
        IN \E i \in DOMAIN queue :
             /\ MayExecute(e, queue[i])
             /\ dbExports' = [dbExports EXCEPT ![e] =
                  [dbExports[e] EXCEPT
                            !.queue = RemoveAt(@, i),
                            !.ready = Append(@, IF fails THEN [queue[i] EXCEPT !.kind = "error"] ELSE queue[i]),
                            !.version = IF queue[i].kind = "write" /\ ~fails THEN @ + 1 ELSE @]]
    BY DEF executeOf
  <2> QED
    BY <1>2, <1>3, <2>1
<1>6. /\ y.queue \in Seq(AsyncRuns) /\ y.version \in Nat
      /\ i \in 1..Len(y.queue) /\ y.queue[i] \in AsyncRuns /\ y.alive
  <2>1. /\ y.queue \in Seq(AsyncRuns) /\ y.version \in Nat
    BY <1>4, ExportsSeqs
  <2>2. i \in 1..Len(y.queue) /\ y.queue[i] \in AsyncRuns
    BY <2>1, LenProperties, ElementOfSeq
  <2>3. y.queue # <<>>
    BY <2>2
  <2> QED
    BY <1>4, <2>1, <2>2, <2>3 DEF MessagesInv
<1>7. PICK run \in AsyncRuns :
        /\ run = IF fails THEN [y.queue[i] EXCEPT !.kind = "error"] ELSE y.queue[i]
        /\ run.id = y.queue[i].id /\ run.kind \in {"error", y.queue[i].kind}
  <2>1. ASSUME NEW q \in AsyncRuns
        PROVE  /\ [q EXCEPT !.kind = "error"] \in AsyncRuns
               /\ [q EXCEPT !.kind = "error"].id = q.id /\ [q EXCEPT !.kind = "error"].kind = "error"
    BY DEF AsyncRuns
  <2> QED
    BY <1>6, <2>1
<1>8. PICK version \in Nat :
        /\ version = IF y.queue[i].kind = "write" /\ ~fails THEN y.version + 1 ELSE y.version
        /\ version # y.version => OpenIn(e) = {}
  BY <1>5, <1>6 DEF MayExecute
<1>9. PICK z : z = [y EXCEPT !.queue = RemoveAt(y.queue, i), !.ready = Append(y.ready, run), !.version = version]
  OBVIOUS
<1>10. dbExports' = [dbExports EXCEPT ![e] = z]
  BY <1>5, <1>7, <1>8, <1>9
<1>11. CallsMove
  BY <1>1, <1>2 DEF CallsMove, ClientsTyped, dbClient
<1>12. BusInv' /\ BusMoves /\ \A c \in DbClients : Contains(dbBus, Left(c)) => Contains(dbBus, Left(c))'
  BY <1>1, <1>11, BusSame DEF DbInv
<1>13. /\ z \in Exports /\ z.name = y.name /\ z.path = y.path /\ z.alive = y.alive /\ z.version = version
       /\ MessagesInv(z)'
  <2>1. RemoveAt(y.queue, i) \in Seq(AsyncRuns) /\ Append(y.ready, run) \in Seq(AsyncRuns)
    BY <1>4, <1>6, ExportsSeqs, AppendProperties, RemovedAt
  <2>2. PICK queue \in Seq(AsyncRuns), ready \in Seq(AsyncRuns) :
          queue = RemoveAt(y.queue, i) /\ ready = Append(y.ready, run)
    BY <2>1
  <2>3. z = [y EXCEPT !.queue = queue, !.ready = ready, !.version = version]
    BY <1>9, <2>2
  <2>4. /\ z \in Exports /\ z.name = y.name /\ z.path = y.path /\ z.alive = y.alive /\ z.version = version
        /\ z.queue = queue /\ z.ready = ready /\ z.delayed = y.delayed
    BY ONLY <1>4, <2>3, queue \in Seq(AsyncRuns), ready \in Seq(AsyncRuns), version \in Nat DEF Exports
  <2> QED
    BY <1>4, <1>6, <1>7, <1>11, <1>12, <2>2, <2>4, MessagesRan
<1>14. /\ ExportsStay /\ Len(dbExports') = Len(dbExports) /\ dbExports'[e] = z
       /\ \A f \in 1..Len(dbExports) : f # e => dbExports'[f] = dbExports[f]
  BY <1>2, <1>3, <1>10, <1>13, ExportMoves
<1>15. GotInv' /\ \A c \in DbClients : ClientInv(c)'
  BY <1>1, <1>2, <1>11, <1>14, GotStays, ClientStays DEF dbClient
<1>16. ASSUME NEW it \in dbIterators' PROVE IteratorInv(it)'
  <2>1. it \in dbIterators /\ IteratorInv(it) /\ it.export \in 1..Len(dbExports)
    BY <1>1, <1>2, <1>16 DEF IteratorInv
  <2>2. dbExports'[it.export].alive /\ (it.open => dbExports'[it.export].version = dbExports[it.export].version)
    <3>1. CASE it.export # e
      BY <1>14, <2>1, <3>1 DEF IteratorInv
    <3>2. CASE it.export = e
      <4>1. it.open => OpenIn(e) # {}
        BY <2>1, <3>2 DEF OpenIn
      <4> QED
        BY <1>3, <1>6, <1>8, <1>13, <1>14, <3>2, <4>1
    <3> QED
      BY <3>1, <3>2
  <2> QED
    BY <1>1, <1>12, <1>14, <2>1, <2>2, IteratorsKeep
<1>17. ServerTyped'
  BY <1>1, <1>2, <1>14 DEF ServerTyped, ExportsStay
<1> QED
  BY <1>1, <1>2, <1>3, <1>6, <1>10, <1>11, <1>12, <1>13, <1>15, <1>16, <1>17, RunsKeep

LEMMA DelayedResultKeeps ==
  ASSUME DbInv, NEW e \in DOMAIN dbExports, _s_delayedResultReady(e)
  PROVE  DbInv'
<1>1. UNCHANGED <<dbPaths, dbBus, dbAlive, dbCount>>
  BY DEF _s_delayedResultReady
<1>2. /\ dbExports \in Seq(Exports) /\ dbIterators \in SUBSET BusIterators /\ \A it \in dbIterators : IteratorInv(it)
      /\ e \in 1..Len(dbExports)
  BY LenProperties DEF DbInv, ServerTyped
<1>3. PICK y : y = dbExports[e]
  OBVIOUS
<1>4. y \in Exports /\ MessagesInv(y) /\ y.ready # <<>> /\ y.alive
  <2>1. y \in Exports /\ MessagesInv(y) /\ y.ready # <<>>
    BY <1>2, <1>3, ElementOfSeq DEF DbInv, _s_delayedResultReady
  <2> QED
    BY <2>1 DEF MessagesInv
<1>5. /\ y.ready \in Seq(AsyncRuns) /\ y.delayed \in Seq(BusCalls) /\ DOMAIN y.delayed = 1..Len(y.delayed)
      /\ y.version \in Nat /\ y.count \in Nat /\ y.name \in DbNames
  BY <1>4, ExportsSeqs, LenProperties
<1>6. PICK result : result = Head(y.ready)
  OBVIOUS
<1>7. PICK i : i = messageOf(e, result)
  OBVIOUS
<1>8. i \in 1..Len(y.delayed) /\ y.delayed[i].id = result.id /\ Answers(result, y.delayed[i])
  <2>1. result = y.ready[1] /\ 1 \in 1..Len(y.ready)
    BY <1>4, <1>5, <1>6, EmptySeq, LenProperties, HeadTailProperties
  <2>2. PICK m \in 1..Len(y.delayed) : Answers(result, y.delayed[m])
    BY <1>4, <2>1 DEF MessagesInv
  <2>3. i = CHOOSE j \in DOMAIN y.delayed : y.delayed[j].id = result.id
    BY <1>3, <1>7 DEF messageOf
  <2>4. i \in 1..Len(y.delayed) /\ y.delayed[i].id = result.id
    BY <1>5, <2>2, <2>3 DEF Answers
  <2>5. i = m
    BY <1>4, <2>2, <2>4 DEF MessagesInv, Pairwise, Answers
  <2> QED
    BY <2>2, <2>4, <2>5
<1>9. PICK call : call = y.delayed[i]
  OBVIOUS
<1>10. Kept(y.path, call) /\ CallMade(call) /\ call.method \in AsyncMethods /\ y.path = Asked(call.name)
  BY <1>4, <1>8, <1>9 DEF MessagesInv, Kept
<1>11. PICK it : it = registerIterator(e, call)
  OBVIOUS
<1>12. PICK count \in Nat : count = IF result.kind = "list" THEN y.count + 1 ELSE y.count
  BY <1>5
<1>13. PICK z : z = [y EXCEPT !.ready = Tail(y.ready), !.delayed = RemoveAt(y.delayed, i), !.count = count]
  OBVIOUS
<1>14. /\ dbExports' = [dbExports EXCEPT ![e] = z]
       /\ dbIterators' = IF result.kind = "list" THEN dbIterators \cup {it} ELSE dbIterators
       /\ CASE result.kind = "list" -> replied(call, "list", y.name, <<y.path, it.n>>, <<e, it.n>>)
            [] result.kind = "error" -> failed(call)
            [] OTHER -> replied(call, result.kind, y.name, <<>>, <<>>)
  <2>1. dbExports' = [dbExports EXCEPT ![e] =
          [y EXCEPT !.ready = Tail(y.ready), !.delayed = RemoveAt(y.delayed, i),
                    !.count = IF result.kind = "list" THEN y.count + 1 ELSE y.count]]
    BY <1>3, <1>6, <1>7 DEF _s_delayedResultReady
  <2>2. /\ dbIterators' = IF result.kind = "list" THEN dbIterators \cup {it} ELSE dbIterators
        /\ CASE result.kind = "list" -> replied(call, "list", y.name, <<y.path, it.n>>, <<e, it.n>>)
             [] result.kind = "error" -> failed(call)
             [] OTHER -> replied(call, result.kind, y.name, <<>>, <<>>)
    BY <1>3, <1>6, <1>7, <1>9, <1>11 DEF _s_delayedResultReady
  <2>3. dbExports' = [dbExports EXCEPT ![e] = z]
    BY <1>12, <1>13, <2>1
  <2> QED
    BY <2>2, <2>3
<1>15. /\ z \in Exports /\ z.name = y.name /\ z.path = y.path /\ z.alive = y.alive /\ z.version = y.version
       /\ z.queue = y.queue /\ z.ready = Tail(y.ready) /\ z.delayed = RemoveAt(y.delayed, i)
  <2>1. Tail(y.ready) \in Seq(AsyncRuns) /\ RemoveAt(y.delayed, i) \in Seq(BusCalls)
    BY <1>4, <1>5, <1>8, HeadTailProperties, RemovedAt
  <2>2. PICK ready \in Seq(AsyncRuns), delayed \in Seq(BusCalls) :
          ready = Tail(y.ready) /\ delayed = RemoveAt(y.delayed, i)
    BY <2>1
  <2>3. z = [y EXCEPT !.ready = ready, !.delayed = delayed, !.count = count]
    BY <1>13, <2>2
  <2>4. /\ z \in Exports /\ z.name = y.name /\ z.path = y.path /\ z.alive = y.alive /\ z.version = y.version
        /\ z.queue = y.queue /\ z.ready = ready /\ z.delayed = delayed
    BY ONLY <1>4, <2>3, ready \in Seq(AsyncRuns), delayed \in Seq(BusCalls), count \in Nat DEF Exports
  <2> QED
    BY <2>2, <2>4
<1>16. /\ ExportsStay /\ Len(dbExports') = Len(dbExports) /\ dbExports'[e] = z
       /\ \A f \in 1..Len(dbExports) : f # e => dbExports'[f] = dbExports[f]
  BY <1>2, <1>3, <1>14, <1>15, ExportMoves
<1>17. /\ it.export = e /\ it.n = y.count + 1 /\ it.client = call.client /\ it.open = TRUE /\ it.version = y.version
       /\ it.late = (call.client \notin dbAlive /\ ~Contains(dbBus, Left(call.client)))
  BY <1>3, <1>11 DEF registerIterator
<1>18. CallsMove /\ GotInv' /\ \A c \in DbClients : ClientInv(c)'
  <2>1. result.kind \in {"error", AsyncCommands[call.method]} /\ AsyncCommands[call.method] \in {"write", "ask", "list"}
    BY <1>8, <1>9, <1>10, AsyncMethodsAre DEF Answers
  <2>2. AnswerTypes(call.method) = {AsyncCommands[call.method]}
    BY <1>10, AnswerTypesAre
  <2>3. NormalizedName[y.name] = NormalizedName[call.name]
    <3>1. y.path \in {<<>>, Asked(y.name)}
      BY <1>2, <1>3 DEF DbInv, PathsUnique
    <3> QED
      BY <1>10, <3>1 DEF Asked
  <2>4. call.method \notin {"next", "current"}
    BY <1>10, AsyncMethodsAre
  <2>5. CASE result.kind = "list"
    <3>1. Opened(call.name, <<y.path, it.n>>, <<e, it.n>>)'
      <4>1. e \in 1..Len(dbExports') /\ it.n \in Nat /\ dbExports'[e].path = Asked(call.name) /\ call.name \in DbNames
        BY <1>2, <1>5, <1>10, <1>15, <1>16, <1>17 DEF CallMade
      <4> QED
        BY <1>10, <4>1 DEF Opened, Asked
    <3>2. ReplyFits(call, "list", y.name, <<y.path, it.n>>, <<e, it.n>>)
      BY <2>1, <2>2, <2>3, <2>4, <2>5, <3>1 DEF ReplyFits
    <3>3. replied(call, "list", y.name, <<y.path, it.n>>, <<e, it.n>>)
      BY <1>14, <2>5
    <3> QED
      BY <1>1, <1>10, <1>16, <3>2, <3>3, Replied
  <2>6. CASE result.kind = "error"
    <3>1. failed(call)
      BY <1>14, <2>6
    <3> QED
      BY <1>1, <1>10, <1>16, <3>1, ErrorFits, Replied DEF failed
  <2>7. CASE result.kind \in {"write", "ask"}
    <3>1. replied(call, result.kind, y.name, <<>>, <<>>)
      BY <1>14, <2>7
    <3>2. ReplyFits(call, result.kind, y.name, <<>>, <<>>)
      BY <2>1, <2>2, <2>3, <2>4, <2>7 DEF ReplyFits
    <3> QED
      BY <1>1, <1>10, <1>16, <3>1, <3>2, Replied
  <2> QED
    BY <2>1, <2>5, <2>6, <2>7
<1>19. BusInv' /\ BusMoves /\ \A c \in DbClients : Contains(dbBus, Left(c)) => Contains(dbBus, Left(c))'
  BY <1>1, <1>18, BusSame DEF DbInv
<1>20. MessagesInv(z)'
  BY <1>4, <1>6, <1>8, <1>15, <1>18, <1>19, MessagesAnswered
<1>21. ASSUME NEW jt \in dbIterators' PROVE IteratorInv(jt)'
  <2>1. CASE jt \in dbIterators
    <3>1. IteratorInv(jt) /\ jt.export \in 1..Len(dbExports)
      BY <1>2, <2>1 DEF IteratorInv
    <3>2. dbExports'[jt.export].alive /\ dbExports'[jt.export].version = dbExports[jt.export].version
      BY <1>3, <1>4, <1>15, <1>16, <3>1 DEF IteratorInv
    <3> QED
      BY <1>1, <1>16, <1>19, <2>1, <3>2, IteratorsKeep
  <2>2. CASE jt = it
    <3>1. /\ e \in 1..Len(dbExports') /\ dbExports'[e].alive /\ dbExports'[e].version = y.version
      BY <1>2, <1>4, <1>15, <1>16
    <3>2. it.client \notin dbAlive' => it.late \/ Contains(dbBus', Left(it.client))
      BY <1>1, <1>17
    <3>3. Left(it.client)' = Left(it.client)
      BY DEF Left
    <3> QED
      BY <1>17, <2>2, <3>1, <3>2, <3>3 DEF IteratorInv
  <2> QED
    BY <1>14, <1>21, <2>1, <2>2
<1>22. ServerTyped'
  <2>1. it \in BusIterators
    <3>1. call.client \in DbClients /\ e \in Nat /\ y.count + 1 \in Nat
      BY <1>2, <1>5, <1>10 DEF CallMade
    <3>2. it = [export |-> e, n |-> y.count + 1, client |-> call.client, open |-> TRUE, version |-> y.version,
                late |-> it.late] /\ it.late \in BOOLEAN
      BY <1>3, <1>11 DEF registerIterator
    <3>3. PICK late \in BOOLEAN : late = it.late
      BY <3>2
    <3>4. [export |-> e, n |-> y.count + 1, client |-> call.client, open |-> TRUE, version |-> y.version,
           late |-> late] \in BusIterators
      BY ONLY <1>5, <3>1, late \in BOOLEAN DEF BusIterators
    <3> QED
      BY <3>2, <3>3, <3>4
  <2> QED
    BY <1>2, <1>14, <1>16, <2>1 DEF ServerTyped, ExportsStay
<1> QED
  BY <1>1, <1>2, <1>3, <1>4, <1>14, <1>15, <1>18, <1>19, <1>20, <1>21, <1>22, RunsKeep

(***************************************************************************)
(* The iterators: which one a path names.                                  *)
(***************************************************************************)
LEMMA IteratorAnswerFits ==
  ASSUME DbInv, UNCHANGED dbExports, NEW call, CallMade(call), call.method \in IteratorMethods,
         NEW it \in Iterating(call.path), NEW type \in AnswerTypes(call.method),
         dbCalls[call.client].id = call.id
  PROVE  ReplyFits(call, type, dbExports[it.export].name, <<>>, <<it.export, it.n>>)
<1>1. PICK client \in DbClients : client = call.client
  BY DEF CallMade
<1>2. dbCalls[client] = call /\ ClientInv(client)
  BY <1>1 DEF CallMade, DbInv
<1>3. PICK iterator : iterator = dbIterator[client]
  OBVIOUS
<1>4. /\ iterator # NoDbIterator /\ call.name = iterator.name /\ call.path = iterator.path
      /\ Opened(call.name, call.path, iterator.opened)
  BY <1>2, <1>3 DEF ClientInv
<1>5. PICK opened : opened = iterator.opened
  OBVIOUS
<1>6. /\ opened[1] \in 1..Len(dbExports) /\ opened = <<opened[1], opened[2]>>
      /\ dbExports[opened[1]].path = Asked(call.name) /\ call.path = <<Asked(call.name), opened[2]>>
  BY <1>4, <1>5 DEF Opened
<1>7. it \in dbIterators /\ <<dbExports[it.export].path, it.n>> = call.path
  BY DEF Iterating
<1>8. it.export \in 1..Len(dbExports) /\ dbExports[it.export].alive
  BY <1>7 DEF DbInv, IteratorInv
<1>9. dbExports[it.export].path = Asked(call.name) /\ it.n = opened[2]
  BY <1>6, <1>7
<1>10. Asked(call.name) = Asked(dbExports[it.export].name) /\ Asked(call.name) # <<>>
  <2>1. Asked(call.name) # <<>>
    BY DEF Asked
  <2>2. dbExports[it.export].path \in {<<>>, Asked(dbExports[it.export].name)}
    BY <1>8 DEF DbInv, PathsUnique
  <2> QED
    BY <1>9, <2>1, <2>2
<1>11. NormalizedName[dbExports[it.export].name] = NormalizedName[call.name]
  BY <1>10 DEF Asked
<1>12. <<it.export, it.n>> = opened \/ ~dbExports[opened[1]].alive
  <2>1. dbExports[opened[1]].alive => it.export = opened[1]
    BY <1>6, <1>8, <1>9, <1>10 DEF DbInv, PathsUnique
  <2> QED
    BY <1>6, <1>9, <2>1
<1>13. type \notin {"path", "list"}
  BY AnswerTypesAre DEF IteratorMethods
<1> QED
  BY <1>1, <1>3, <1>5, <1>6, <1>11, <1>12, <1>13 DEF ReplyFits

LEMMA IteratorsServed ==
  ASSUME DbInv, NEW method \in IteratorMethods, Served({method}), UNCHANGED <<dbPaths, dbExports, dbAlive, dbCount>>,
         \/ \E it \in Iterating(Head(dbBus).path), type \in AnswerTypes(Head(dbBus).method) :
              replied(Head(dbBus), type, dbExports[it.export].name, <<>>, <<it.export, it.n>>)
         \/ failed(Head(dbBus)),
         dbIterators' \in SUBSET BusIterators,
         \A jt \in dbIterators' :
           \E it \in dbIterators :
             jt.export = it.export /\ jt.client = it.client /\ jt.version = it.version /\ jt.late = it.late /\ (jt.open => it.open)
  PROVE  DbInv'
<1>1. PICK call : call = Head(dbBus)
  OBVIOUS
<1>2. {method} \in SUBSET (ServerMethods \cup AsyncMethods \cup IteratorMethods)
  OBVIOUS
<1>3. CallMade(call) /\ call.method \in IteratorMethods
  BY <1>1, <1>2, ServedCall
<1>4. ExportsStay
  BY DEF ExportsStay, DbInv, ServerTyped
<1>5. CallsMove /\ GotInv' /\ \A c \in DbClients : ClientInv(c)'
  <2>1. CASE failed(call)
    BY <1>3, <1>4, <2>1, ErrorFits, Replied DEF failed
  <2>2. ASSUME NEW it \in Iterating(call.path), NEW type \in AnswerTypes(call.method),
               replied(call, type, dbExports[it.export].name, <<>>, <<it.export, it.n>>)
        PROVE  CallsMove /\ GotInv' /\ \A c \in DbClients : ClientInv(c)'
    <3>1. dbCalls[call.client].id = call.id =>
            ReplyFits(call, type, dbExports[it.export].name, <<>>, <<it.export, it.n>>)
      BY <1>3, IteratorAnswerFits
    <3> QED
      BY <1>3, <1>4, <2>2, <3>1, Replied
  <2> QED
    BY <1>1, <2>1, <2>2
<1>6. BusInv' /\ BusMoves /\ \A c \in DbClients : Contains(dbBus, Left(c)) => Contains(dbBus, Left(c))'
  BY <1>2, <1>5, BusAfterCall
<1>7. ASSUME NEW jt \in dbIterators' PROVE IteratorInv(jt)'
  <2>1. PICK it \in dbIterators :
          jt.export = it.export /\ jt.client = it.client /\ jt.version = it.version /\ jt.late = it.late /\ (jt.open => it.open)
    BY <1>7
  <2>2. IteratorInv(it) /\ it.client \in DbClients
    BY DEF DbInv, ServerTyped, BusIterators
  <2>3. IteratorInv(it)'
    BY <1>4, <1>6, <2>2, IteratorsKeep DEF IteratorInv
  <2>4. Left(jt.client) = Left(it.client)
    BY <2>1
  <2> QED
    BY <2>1, <2>3, <2>4 DEF IteratorInv, Left
<1>8. ServerTyped'
  BY DEF DbInv, ServerTyped
<1> QED
  BY <1>2, <1>5, <1>7, <1>8, AnswerKeeps

LEMMA AdaptorNextKeeps ==
  ASSUME DbInv, NEW more \in BOOLEAN, adaptorNext(more)
  PROVE  DbInv'
<1>1. Served({"next"}) /\ UNCHANGED <<dbPaths, dbExports, dbAlive, dbCount>>
  BY DEF adaptorNext
<1>2. PICK call : call = Head(dbBus)
  OBVIOUS
<1>3. call.method = "next" /\ AnswerTypes(call.method) = {"true", "false"} /\ "next" \in IteratorMethods
  BY <1>1, <1>2, AnswerTypesAre DEF Served, IteratorMethods
<1>4. dbIterators \in SUBSET BusIterators
  BY DEF DbInv, ServerTyped
<1>5. CASE failed(call) /\ UNCHANGED dbIterators
  <2>1. \A jt \in dbIterators' :
          \E it \in dbIterators :
            jt.export = it.export /\ jt.client = it.client /\ jt.version = it.version /\ jt.late = it.late /\ (jt.open => it.open)
    BY <1>5
  <2> QED
    BY <1>1, <1>2, <1>3, <1>4, <1>5, <2>1, IteratorsServed
<1>6. ASSUME NEW it \in Iterating(call.path), more => it.open,
             dbIterators' = (dbIterators \ {it}) \cup {[it EXCEPT !.open = more]},
             replied(call, IF more THEN "true" ELSE "false", dbExports[it.export].name, <<>>, <<it.export, it.n>>)
      PROVE  DbInv'
  <2>1. PICK type \in AnswerTypes(call.method) : type = IF more THEN "true" ELSE "false"
    BY <1>3
  <2>2. it \in BusIterators /\ it \in dbIterators
    BY <1>4 DEF Iterating
  <2>3. /\ [it EXCEPT !.open = more] \in BusIterators
        /\ [it EXCEPT !.open = more].export = it.export /\ [it EXCEPT !.open = more].client = it.client
        /\ [it EXCEPT !.open = more].version = it.version /\ [it EXCEPT !.open = more].late = it.late
        /\ [it EXCEPT !.open = more].open = more
    BY <2>2 DEF BusIterators
  <2>4. PICK moved : moved = [it EXCEPT !.open = more]
    OBVIOUS
  <2>5. dbIterators' = (dbIterators \ {it}) \cup {moved} /\ dbIterators' \in SUBSET BusIterators
    BY <1>4, <1>6, <2>3, <2>4
  <2>6. \A jt \in dbIterators' :
          \E kt \in dbIterators :
            jt.export = kt.export /\ jt.client = kt.client /\ jt.version = kt.version /\ jt.late = kt.late /\ (jt.open => kt.open)
    BY <1>6, <2>2, <2>3, <2>4, <2>5
  <2>7. replied(call, type, dbExports[it.export].name, <<>>, <<it.export, it.n>>)
    BY <1>6, <2>1
  <2> QED
    BY <1>1, <1>2, <1>3, <2>5, <2>6, <2>7, IteratorsServed
<1> QED
  BY <1>2, <1>5, <1>6 DEF adaptorNext

LEMMA AdaptorCurrentKeeps ==
  ASSUME DbInv, adaptorCurrent
  PROVE  DbInv'
<1>1. Served({"current"}) /\ UNCHANGED <<dbPaths, dbExports, dbIterators, dbAlive, dbCount>>
  BY DEF adaptorCurrent, dbServer
<1>2. "element" \in AnswerTypes(Head(dbBus).method) /\ "current" \in IteratorMethods
  BY <1>1, AnswerTypesAre DEF Served, IteratorMethods
<1>3. \/ \E it \in Iterating(Head(dbBus).path), type \in AnswerTypes(Head(dbBus).method) :
           replied(Head(dbBus), type, dbExports[it.export].name, <<>>, <<it.export, it.n>>)
      \/ failed(Head(dbBus))
  BY <1>2 DEF adaptorCurrent
<1>4. /\ dbIterators' \in SUBSET BusIterators
      /\ \A jt \in dbIterators' :
           \E it \in dbIterators :
             jt.export = it.export /\ jt.client = it.client /\ jt.version = it.version /\ jt.late = it.late /\ (jt.open => it.open)
  BY <1>1 DEF DbInv, ServerTyped
<1> QED
  BY <1>1, <1>2, <1>3, <1>4, IteratorsServed

LEMMA AdaptorCloseKeeps ==
  ASSUME DbInv, adaptorClose
  PROVE  DbInv'
<1>1. Served({"close"}) /\ UNCHANGED <<dbPaths, dbExports, dbAlive, dbCount>>
  BY DEF adaptorClose
<1>2. "nothing" \in AnswerTypes(Head(dbBus).method) /\ "close" \in IteratorMethods
  BY <1>1, AnswerTypesAre DEF Served, IteratorMethods
<1>3. \/ \E it \in Iterating(Head(dbBus).path), type \in AnswerTypes(Head(dbBus).method) :
           replied(Head(dbBus), type, dbExports[it.export].name, <<>>, <<it.export, it.n>>)
      \/ failed(Head(dbBus))
  BY <1>2 DEF adaptorClose
<1>4. dbIterators' \in SUBSET dbIterators
  BY DEF adaptorClose
<1>5. /\ dbIterators' \in SUBSET BusIterators
      /\ \A jt \in dbIterators' :
           \E it \in dbIterators :
             jt.export = it.export /\ jt.client = it.client /\ jt.version = it.version /\ jt.late = it.late /\ (jt.open => it.open)
  BY <1>4 DEF DbInv, ServerTyped
<1> QED
  BY <1>1, <1>2, <1>3, <1>5, IteratorsServed

LEMMA UnregisteredKeeps ==
  ASSUME DbInv, slotServiceUnregistered
  PROVE  DbInv'
<1>1. PICK call : call = Head(dbBus)
  OBVIOUS
<1>2. /\ dbBus # <<>> /\ dbBus' = Tail(dbBus) /\ call.method = "left"
      /\ dbIterators' = {it \in dbIterators : it.client # call.client}
      /\ UNCHANGED <<dbPaths, dbExports, dbAlive, dbCount>> /\ UNCHANGED dbClient
  BY <1>1 DEF slotServiceUnregistered, Served
<1>3. ClientsTyped /\ GotInv /\ \A c \in DbClients : ClientInv(c)
  BY DEF DbInv
<1>4. CallsMove
  BY <1>2, <1>3 DEF CallsMove, ClientsTyped, dbClient
<1>5. /\ BusInv' /\ BusMoves
      /\ \A c \in DbClients : Contains(dbBus, Left(c)) => Contains(dbBus, Left(c))' \/ call = Left(c)
  BY <1>1, <1>2, <1>4, BusServed DEF DbInv
<1>6. /\ ExportsStay /\ PathsUnique' /\ PathsKnown'
      /\ \A e \in 1..Len(dbExports') : MessagesInv(dbExports[e])'
  BY <1>2, <1>4, <1>5, ServerStays
<1>7. GotInv' /\ \A c \in DbClients : ClientInv(c)'
  BY <1>2, <1>3, <1>4, <1>6, GotStays, ClientStays DEF dbClient
<1>8. ASSUME NEW it \in dbIterators' PROVE IteratorInv(it)'
  <2>1. it \in dbIterators /\ it.client # call.client /\ it.client \in DbClients /\ IteratorInv(it)
    BY <1>2, <1>8 DEF DbInv, ServerTyped, BusIterators
  <2>2. call # Left(it.client)
    BY <2>1, LeftIsNoCall
  <2> QED
    BY <1>2, <1>5, <1>6, <2>1, <2>2, IteratorStays DEF IteratorInv
<1>9. ServerTyped'
  BY <1>2 DEF DbInv, ServerTyped
<1> QED
  BY <1>4, <1>5, <1>6, <1>7, <1>8, <1>9 DEF DbInv, CallsMove

LEMMA UnchangedKeeps ==
  ASSUME DbInv, UNCHANGED dbVars
  PROVE  DbInv'
<1>1. UNCHANGED <<dbPaths, dbExports, dbIterators, dbBus, dbAlive, dbCalls, dbModel, dbIterator, dbGot, dbCount>>
      /\ UNCHANGED dbServer
  BY DEF dbVars, dbServer, dbClient
<1>2. ClientsTyped /\ BusInv /\ \A c \in DbClients : ClientInv(c)
  BY DEF DbInv
<1>3. CallsMove
  BY <1>1, <1>2 DEF CallsMove, ClientsTyped
<1>4. BusInv' /\ BusMoves /\ \A c \in DbClients : Contains(dbBus, Left(c)) => Contains(dbBus, Left(c))'
  BY <1>1, <1>2, <1>3, BusSame
<1>5. ExportsStay
  BY <1>1 DEF ExportsStay, DbInv, ServerTyped
<1>6. \A c \in DbClients : ClientInv(c)'
  BY <1>1, <1>2, <1>3, <1>5, ClientStays
<1> QED
  BY <1>1, <1>3, <1>4, <1>6, ProgramStep

LEMMA StepKeeps ==
  ASSUME DbInv, [DbNext]_dbVars
  PROVE  DbInv'
<1>1. ASSUME NEW c \in DbClients,
             \/ \E asked \in DbServerCalls[c] : serverCall(c, asked[1], asked[2])
             \/ \E method \in DbMethods : modelCall(c, method)
             \/ \E method \in {"next", "current", "close"} : iteratorCall(c, method)
             \/ callTimesOut(c) \/ deleteIterator(c) \/ leaveBus(c)
      PROVE  DbInv'
  BY <1>1, ServerCallKeeps, ModelCallKeeps, IteratorCallKeeps, CallTimesOutKeeps, DeleteIteratorKeeps, LeaveBusKeeps
     DEF IteratorMethods
<1>2. CASE \E created \in BOOLEAN : createModel(created)
  BY <1>2, CreateModelKeeps
<1>3. CASE removeModelOnBus
  BY <1>3, RemoveModelKeeps
<1>4. CASE adaptorCall
  BY <1>4, AdaptorCallKeeps
<1>5. CASE adaptorCurrent
  BY <1>5, AdaptorCurrentKeeps
<1>6. CASE adaptorClose
  BY <1>6, AdaptorCloseKeeps
<1>7. CASE slotServiceUnregistered
  BY <1>7, UnregisteredKeeps
<1>8. CASE \E e \in DOMAIN dbExports : _s_delayedResultReady(e) \/ \E fails \in BOOLEAN : executeOf(e, fails)
  BY <1>8, DelayedResultKeeps, ExecuteKeeps
<1>9. CASE \E more \in BOOLEAN : adaptorNext(more)
  BY <1>9, AdaptorNextKeeps
<1>10. CASE UNCHANGED dbVars
  BY <1>10, UnchangedKeeps
<1> QED
  BY <1>1, <1>2, <1>3, <1>4, <1>5, <1>6, <1>7, <1>8, <1>9, <1>10 DEF DbNext

\* dbusmodeladaptor.cpp, dbusexportiterator.cpp: an answer on the bus is that
\* to the call its program waits for, from the model it asked for or one whose
\* name becomes the same path, and the next element from the iterator it opened
\* unless the model was removed meanwhile; no write reaches a model while an
\* iterator can be read, and the iterator of a program that has left is closed
\* when the server hears of it.
THEOREM AnswersOnBus == DbInit /\ [][DbNext]_dbVars => []BusAnswersOwn
<1>1. DbInv => BusAnswersOwn
  BY DEF DbInv, GotInv, IteratorInv, BusAnswersOwn
<1>2. DbInv /\ [DbNext]_dbVars => DbInv'
  BY StepKeeps
<1> QED
  BY <1>1, <1>2, InitiallyInv, PTL

-----------------------------------------------------------------------------
(***************************************************************************)
(* SparqlEndpoint.                                                         *)
(***************************************************************************)
Ids(s) == {s[i].id : i \in DOMAIN s}

\* A sequence whose elements are known by their ids
Numbered(s) ==
  /\ \E S : s \in Seq(S)
  /\ \A i, j \in DOMAIN s : i # j => s[i].id # s[j].id

LEMMA NumberedParts ==
  ASSUME NEW s, Numbered(s)
  PROVE  /\ Len(s) \in Nat /\ DOMAIN s = 1..Len(s)
         /\ \A i, j \in DOMAIN s : s[i].id = s[j].id => i = j
BY DEF Numbered

LEMMA NoneNumbered == Numbered(<<>>) /\ Ids(<<>>) = {}
<1>1. <<>> \in Seq({}) /\ DOMAIN <<>> = {}
  OBVIOUS
<1> QED
  BY <1>1 DEF Numbered, Ids

LEMMA AppendNumbered ==
  ASSUME NEW s, Numbered(s), NEW x, x.id \notin Ids(s)
  PROVE  /\ Numbered(Append(s, x)) /\ Ids(Append(s, x)) = Ids(s) \cup {x.id}
         /\ Len(Append(s, x)) = Len(s) + 1
         /\ \A i \in DOMAIN s : Append(s, x)[i] = s[i]
         /\ Append(s, x)[Len(s) + 1] = x
         /\ DOMAIN Append(s, x) = DOMAIN s \cup {Len(s) + 1}
<1>1. PICK S : s \in Seq(S)
  BY DEF Numbered
<1>2. s \in Seq(S \cup {x}) /\ Append(s, x) \in Seq(S \cup {x})
  BY <1>1
<1>3. /\ Len(Append(s, x)) = Len(s) + 1 /\ Len(s) \in Nat /\ DOMAIN s = 1..Len(s)
      /\ \A i \in DOMAIN s : Append(s, x)[i] = s[i]
      /\ Append(s, x)[Len(s) + 1] = x
      /\ DOMAIN Append(s, x) = 1..(Len(s) + 1)
  BY <1>2
<1>4. DOMAIN Append(s, x) = DOMAIN s \cup {Len(s) + 1}
  BY <1>3
<1>5. Ids(Append(s, x)) = Ids(s) \cup {x.id}
  BY <1>3, <1>4 DEF Ids
<1>6. ASSUME NEW i \in DOMAIN Append(s, x), NEW j \in DOMAIN Append(s, x), i # j
      PROVE  Append(s, x)[i].id # Append(s, x)[j].id
  BY <1>3, <1>4, <1>6 DEF Numbered, Ids
<1> QED
  BY <1>2, <1>3, <1>4, <1>5, <1>6 DEF Numbered

LEMMA TailNumbered ==
  ASSUME NEW s, Numbered(s), s # <<>>
  PROVE  /\ Numbered(Tail(s)) /\ Ids(Tail(s)) = Ids(s) \ {s[1].id}
         /\ s[1].id \in Ids(s)
         /\ {s[i].id : i \in 2..Len(s)} = Ids(s) \ {s[1].id}
         /\ \A i \in DOMAIN Tail(s) : \E j \in DOMAIN s : Tail(s)[i] = s[j]
<1>1. PICK S : s \in Seq(S)
  BY DEF Numbered
<1>2. /\ Len(s) \in Nat \ {0} /\ DOMAIN s = 1..Len(s) /\ Tail(s) \in Seq(S)
      /\ DOMAIN Tail(s) = 1..(Len(s) - 1)
      /\ \A i \in 1..(Len(s) - 1) : Tail(s)[i] = s[i + 1]
  BY <1>1
<1>3. 1 \in DOMAIN s
  BY <1>2
<1>4. \A i \in DOMAIN s : s[i].id # s[1].id <=> i \in 2..Len(s)
  BY <1>2, <1>3 DEF Numbered
<1>5. {s[i].id : i \in 2..Len(s)} = Ids(s) \ {s[1].id}
  BY <1>2, <1>4 DEF Ids
<1>6. \A i \in DOMAIN Tail(s) : i + 1 \in DOMAIN s /\ i + 1 \in 2..Len(s) /\ Tail(s)[i] = s[i + 1]
  BY <1>2
<1>7. Ids(Tail(s)) = {s[i].id : i \in 2..Len(s)}
  <2> DEFINE tail == Tail(s)
  <2>0. DOMAIN tail = 1..(Len(s) - 1) /\ \A i \in DOMAIN tail : i + 1 \in 2..Len(s) /\ tail[i] = s[i + 1]
    BY <1>2, <1>6
  <2> HIDE DEF tail
  <2>1. \A i \in 2..Len(s) : i - 1 \in DOMAIN tail /\ tail[i - 1] = s[i]
    BY <1>2, <2>0
  <2>2. Ids(tail) = {s[i].id : i \in 2..Len(s)}
    BY <2>0, <2>1 DEF Ids
  <2> QED
    BY <2>2 DEF tail
<1>8. \A i, j \in DOMAIN Tail(s) : i # j => Tail(s)[i].id # Tail(s)[j].id
  BY <1>2, <1>6 DEF Numbered
<1> QED
  BY <1>2, <1>3, <1>5, <1>6, <1>7, <1>8 DEF Numbered, Ids

LEMMA FrontNumbered ==
  ASSUME NEW s, Numbered(s), s # <<>>
  PROVE  LET front == SubSeq(s, 1, Len(s) - 1) IN
         /\ Numbered(front) /\ Ids(front) = Ids(s) \ {s[Len(s)].id}
         /\ s[Len(s)].id \in Ids(s) /\ Len(s) \in DOMAIN s
         /\ Len(front) = Len(s) - 1 /\ DOMAIN front = 1..(Len(s) - 1)
         /\ \A i \in DOMAIN front : i \in DOMAIN s /\ front[i] = s[i]
<1> DEFINE front == SubSeq(s, 1, Len(s) - 1)
<1>1. PICK S : s \in Seq(S)
  BY DEF Numbered
<1>2. /\ Len(s) \in Nat \ {0} /\ DOMAIN s = 1..Len(s) /\ front \in Seq(S)
      /\ Len(front) = Len(s) - 1 /\ DOMAIN front = 1..(Len(s) - 1)
      /\ \A i \in 1..(Len(s) - 1) : front[i] = s[i]
  <2>1. Len(s) \in Nat \ {0} /\ DOMAIN s = 1..Len(s) /\ \A i \in 1..(Len(s) - 1) : s[i] \in S
    BY <1>1
  <2> HIDE DEF front
  <2>2. /\ front \in Seq(S) /\ Len(front) = Len(s) - 1
        /\ \A i \in 1..(Len(s) - 1) : front[i] = s[i]
    BY <2>1, SubSeqProperties DEF front
  <2> QED
    BY <2>1, <2>2
<1> HIDE DEF front
<1>3. \A i \in DOMAIN s : s[i].id # s[Len(s)].id <=> i \in DOMAIN front
  BY <1>2 DEF Numbered
<1>4. Ids(front) = Ids(s) \ {s[Len(s)].id}
  BY <1>2, <1>3 DEF Ids
<1>5. \A i, j \in DOMAIN front : i # j => front[i].id # front[j].id
  BY <1>2 DEF Numbered
<1>6. Numbered(front)
  BY <1>2, <1>5 DEF Numbered
<1>7. Len(s) \in DOMAIN s /\ s[Len(s)].id \in Ids(s)
  BY <1>2 DEF Ids
<1> QED
  BY <1>2, <1>4, <1>6, <1>7 DEF front

-----------------------------------------------------------------------------
Queued == Ids(spQueue)
Waiting == Ids(spWaiting)
Innermost == spWaiting[Len(spWaiting)]

IsFrame(f) ==
  /\ DOMAIN f = {"id", "op", "call", "rest", "alone"}
  /\ f.op = "removeAll" => f.call = "removeAll"

SpTypeOK ==
  /\ spNextId \in 1..(MaxRequests + 1)
  /\ Numbered(spQueue) /\ Numbered(spWaiting)
  /\ \A i \in DOMAIN spWaiting : IsFrame(spWaiting[i])

(***************************************************************************)
(* Ids are given out in order, and a request is queued, lost or served.    *)
(***************************************************************************)
InOnePlace ==
  /\ Queued \cup Waiting \cup spLost \cup DOMAIN spServed \subseteq 1..(spNextId - 1)
  /\ Queued \cap spLost = {} /\ (Queued \cup spLost) \cap DOMAIN spServed = {}
  /\ DOMAIN spDelivered \subseteq DOMAIN spServed
  /\ "id" \in DOMAIN spReturned => spReturned.id \in DOMAIN spServed

\* The command of an asynchronous request knows its kind.
CommandsKnown ==
  \A i \in DOMAIN spQueue : spQueue[i].id \in DOMAIN spCommands =>
    spCommands[spQueue[i].id].op = spQueue[i].op

\* What a call will find when it goes on
AnswersKept ==
  \A id \in DOMAIN spResults :
    /\ spData[id] = spServed[id].data
    /\ spResults[id] => spServed[id].data = None

(***************************************************************************)
(* lastError() is the last request's.  It is that of a call about to       *)
(* return as long as no other call began above it.                         *)
(***************************************************************************)
LastErrorOwn ==
  /\ \A i \in DOMAIN spWaiting : i # Len(spWaiting) => ~spWaiting[i].alone
  /\ ~EventLoop /\ Innermost.alone /\ spServed[Innermost.id].ok => ~spFailed

\* The parts of AnswersOwn
KeptExactly ==
  /\ DOMAIN spData = Queued \cup Waiting \cup spLost
  /\ spLoops = Waiting \ DOMAIN spResults
  /\ DOMAIN spResults = Waiting \cap DOMAIN spServed
  /\ DOMAIN spCommands = (Queued \cup spLost) \ Waiting
  /\ DOMAIN spDelivered \cap (Queued \cup spLost \cup Waiting) = {}

DeliveredOwn ==
  \A id \in DOMAIN spDelivered :
    /\ spDelivered[id].op = spServed[id].op
    /\ spDelivered[id].data = IF spServed[id].ok THEN spServed[id].data ELSE None
    /\ spServed[id].ok => ~spDelivered[id].failed

ReturnedOwn ==
  "id" \in DOMAIN spReturned =>
    LET served == spServed[spReturned.id]
    IN /\ spReturned.value \in {served.data, None}
       /\ spReturned.alone /\ spReturned.rc = "none" /\ spReturned.op # "removeAll" =>
            spReturned.value = served.data
       /\ spReturned.alone /\ served.ok => spReturned.rc = "none"

SpInv ==
  /\ SpTypeOK /\ InOnePlace /\ CommandsKnown /\ AnswersKept /\ LastErrorOwn
  /\ KeptExactly /\ DeliveredOwn /\ ReturnedOwn

LEMMA SpInvMeans == SpInv => AnswersOwn
BY DEF SpInv, KeptExactly, DeliveredOwn, ReturnedOwn, Queued, Waiting, Ids, AnswersOwn
-----------------------------------------------------------------------------
LEMMA SpInitInv == SpInit => SpInv
<1> SUFFICES ASSUME SpInit PROVE SpInv
  OBVIOUS
<1>1. Queued = {} /\ Waiting = {} /\ Numbered(spQueue) /\ Numbered(spWaiting)
  BY NoneNumbered DEF SpInit, Queued, Waiting
<1>2. /\ spQueue = <<>> /\ spWaiting = <<>> /\ spData = <<>> /\ spResults = <<>> /\ spCommands = <<>>
      /\ spServed = <<>> /\ spDelivered = <<>> /\ spLost = {} /\ spLoops = {} /\ spNextId = 1
      /\ DOMAIN <<>> = {} /\ "id" \notin DOMAIN spReturned
  BY DEF SpInit, NotReturned
<1>3. SpTypeOK
  BY <1>1, <1>2, SpBoundsAssumption DEF SpTypeOK
<1>4. InOnePlace /\ KeptExactly
  BY <1>1, <1>2 DEF InOnePlace, KeptExactly
<1>5. CommandsKnown /\ AnswersKept /\ LastErrorOwn /\ DeliveredOwn /\ ReturnedOwn
  BY <1>2 DEF CommandsKnown, AnswersKept, LastErrorOwn, DeliveredOwn, ReturnedOwn, EventLoop
<1> QED
  BY <1>3, <1>4, <1>5 DEF SpInv

(***************************************************************************)
(* A new request has an id of its own.                                     *)
(***************************************************************************)
LEMMA SentInv ==
  ASSUME SpInv, NEW op, NEW arg, sendQuery(op, arg)
  PROVE  /\ spNextId \in Nat /\ spNextId' = spNextId + 1 /\ spNextId' \in 1..(MaxRequests + 1)
         /\ spNextId \notin Queued \cup Waiting \cup spLost \cup DOMAIN spServed
         /\ Numbered(spQueue)' /\ Queued' = Queued \cup {spNextId}
         /\ \A i \in DOMAIN spQueue' : \/ i \in DOMAIN spQueue /\ spQueue'[i] = spQueue[i]
                                       \/ spQueue'[i] = [id |-> spNextId, op |-> op, arg |-> arg]
         /\ DOMAIN spData' = DOMAIN spData \cup {spNextId}
         /\ \A id \in DOMAIN spData : id # spNextId => spData'[id] = spData[id]
<1>1. /\ spNextId \in Nat /\ spNextId' = spNextId + 1 /\ spNextId' \in 1..(MaxRequests + 1)
  BY SpBoundsAssumption DEF sendQuery, SpInv, SpTypeOK
<1>2. spNextId \notin Queued \cup Waiting \cup spLost \cup DOMAIN spServed
  BY <1>1 DEF SpInv, InOnePlace
<1>3. /\ DOMAIN spData' = DOMAIN spData \cup {spNextId}
      /\ \A id \in DOMAIN spData : id # spNextId => spData'[id] = spData[id]
  <2>1. spData' = With(spData, spNextId, None)
    BY DEF sendQuery
  <2> QED
    BY <2>1 DEF With
<1> DEFINE request == [id |-> spNextId, op |-> op, arg |-> arg]
<1>4. request.id = spNextId /\ spQueue' = Append(spQueue, request) /\ Numbered(spQueue)
  BY DEF sendQuery, SpInv, SpTypeOK
<1> HIDE DEF request
<1>5. /\ Numbered(spQueue)' /\ Queued' = Queued \cup {spNextId}
      /\ \A i \in DOMAIN spQueue' : \/ i \in DOMAIN spQueue /\ spQueue'[i] = spQueue[i]
                                    \/ spQueue'[i] = request
  BY <1>2, <1>4, AppendNumbered DEF Queued
<1> QED
  BY <1>1, <1>2, <1>3, <1>5 DEF request

LEMMA SentInPlace ==
  ASSUME SpInv, NEW op, NEW arg, sendQuery(op, arg), Waiting' \subseteq Waiting \cup {spNextId},
         UNCHANGED <<spLost, spServed, spDelivered, spReturned>>
  PROVE  InOnePlace'
<1>1. /\ spNextId \in Nat /\ spNextId' = spNextId + 1 /\ Queued' = Queued \cup {spNextId}
      /\ spNextId \notin Queued \cup Waiting \cup spLost \cup DOMAIN spServed
  BY SentInv
<1>2. \A n \in 1..(spNextId - 1) : n \in 1..(spNextId' - 1)
  BY <1>1
<1>3. spNextId \in 1..(spNextId' - 1)
  BY <1>1 DEF SpInv, SpTypeOK
<1> QED
  BY <1>1, <1>2, <1>3 DEF SpInv, InOnePlace

LEMMA CallAsyncInv ==
  ASSUME SpInv, NEW op, NEW arg, callAsync(op, arg)
  PROVE  SpInv'
<1> USE DEF SpInv
<1>0. sendQuery(op, arg)
  BY DEF callAsync
<1>1. /\ DOMAIN spCommands' = DOMAIN spCommands \cup {spNextId}
      /\ spCommands'[spNextId] = [op |-> op, arg |-> arg]
      /\ \A id \in DOMAIN spCommands : id # spNextId => spCommands'[id] = spCommands[id]
      /\ UNCHANGED <<spStatus, spFailed, spResults, spLoops, spLost, spServed, spWaiting, spDelivered, spReturned>>
  <2> DEFINE command == [op |-> op, arg |-> arg]
  <2>1. /\ spCommands' = With(spCommands, spNextId, command)
        /\ UNCHANGED <<spStatus, spFailed, spResults, spLoops, spLost, spServed, spWaiting, spDelivered, spReturned>>
    BY DEF callAsync
  <2> HIDE DEF command
  <2>2. /\ DOMAIN spCommands' = DOMAIN spCommands \cup {spNextId}
        /\ spCommands'[spNextId] = command
        /\ \A id \in DOMAIN spCommands : id # spNextId => spCommands'[id] = spCommands[id]
    BY <2>1 DEF With
  <2> QED
    BY <2>1, <2>2 DEF command
<1>2. Waiting' = Waiting
  BY <1>1 DEF Waiting
<1>3. SpTypeOK'
  BY <1>0, <1>1, SentInv DEF SpTypeOK
<1>4. InOnePlace'
  BY <1>0, <1>1, <1>2, SentInPlace
<1>5. CommandsKnown'
  <2> SUFFICES ASSUME NEW i \in DOMAIN spQueue', spQueue'[i].id \in DOMAIN spCommands'
               PROVE  spCommands'[spQueue'[i].id].op = spQueue'[i].op
    BY DEF CommandsKnown
  <2>1. CASE i \in DOMAIN spQueue /\ spQueue'[i] = spQueue[i]
    <3>1. spQueue[i].id \in Queued
      BY <2>1 DEF Queued, Ids
    <3> QED
      BY <1>0, <1>1, <2>1, <3>1, SentInv DEF CommandsKnown
  <2>2. CASE spQueue'[i] = [id |-> spNextId, op |-> op, arg |-> arg]
    BY <1>1, <2>2
  <2> QED
    BY <1>0, <2>1, <2>2, SentInv
<1>6. AnswersKept'
  <2>1. \A id \in DOMAIN spResults : id \in DOMAIN spData /\ id # spNextId
    BY <1>0, SentInv DEF KeptExactly
  <2> QED
    BY <1>0, <1>1, <2>1, SentInv DEF AnswersKept
<1>7. LastErrorOwn'
  BY <1>1 DEF LastErrorOwn, EventLoop, Innermost
<1>8. KeptExactly'
  <2>1. /\ Queued' = Queued \cup {spNextId} /\ DOMAIN spData' = DOMAIN spData \cup {spNextId}
        /\ spNextId \notin Queued \cup Waiting \cup spLost \cup DOMAIN spServed
    BY <1>0, SentInv
  <2> QED
    BY <1>1, <1>2, <2>1 DEF KeptExactly, InOnePlace
<1>9. DeliveredOwn' /\ ReturnedOwn'
  BY <1>1 DEF DeliveredOwn, ReturnedOwn
<1> QED
  BY <1>3, <1>4, <1>5, <1>6, <1>7, <1>8, <1>9

\* A call that waits below another has seen a call begin above it.
LEMMA CoveredNumbered ==
  ASSUME NEW s, Numbered(s), \A i \in DOMAIN s : IsFrame(s[i])
  PROVE  /\ Numbered(Covered(s)) /\ Ids(Covered(s)) = Ids(s)
         /\ Len(Covered(s)) = Len(s) /\ DOMAIN Covered(s) = DOMAIN s
         /\ \A i \in DOMAIN s : IsFrame(Covered(s)[i]) /\ ~Covered(s)[i].alone
<1> DEFINE c == Covered(s)
           C == {c[i] : i \in DOMAIN s}
<1>1. Len(s) \in Nat /\ DOMAIN s = 1..Len(s)
  BY NumberedParts
<1>2. /\ c = [i \in DOMAIN s |-> c[i]]
      /\ \A i \in DOMAIN s : c[i] = [s[i] EXCEPT !.alone = FALSE]
  BY DEF Covered
<1>3. \A i \in DOMAIN s : IsFrame(c[i]) /\ ~c[i].alone /\ c[i].id = s[i].id
  BY <1>2 DEF IsFrame
<1> HIDE DEF c
<1>4. c \in [1..Len(s) -> C]
  BY <1>1, <1>2
<1>5. c \in Seq(C) /\ Len(c) = Len(s) /\ DOMAIN c = DOMAIN s
  BY <1>1, <1>4
<1>6. Ids(c) = Ids(s)
  BY <1>3, <1>5 DEF Ids
<1>7. \A i, j \in DOMAIN c : i # j => c[i].id # c[j].id
  BY <1>3, <1>5 DEF Numbered
<1>8. Numbered(c)
  BY <1>5, <1>7 DEF Numbered
<1> QED
  BY <1>3, <1>5, <1>6, <1>8 DEF c

LEMMA CallSpInv ==
  ASSUME SpInv, NEW op, NEW arg, callSync(op, arg)
  PROVE  SpInv'
<1> USE DEF SpInv
<1>1. PICK request :
        /\ blockingQuery(Covered(spWaiting), Frame(request, request, {}), request, arg)
        /\ UNCHANGED <<spContent, spStatus, spFailed, spResults, spLost, spServed, spCommands, spDelivered, spReturned>>
  BY DEF callSync
<1>2. /\ sendQuery(request, arg) /\ spLoops' = spLoops \cup {spNextId}
      /\ UNCHANGED <<spResults, spLost, spServed, spCommands, spDelivered, spReturned>>
  BY <1>1 DEF blockingQuery
<1> DEFINE frame == Frame(request, request, {})
           below == Covered(spWaiting)
<1>3. spWaiting' = Append(below, frame)
  BY <1>1 DEF blockingQuery
<1>4. frame.id = spNextId /\ IsFrame(frame)
  BY DEF Frame, IsFrame
<1>5. /\ Numbered(below) /\ Ids(below) = Waiting /\ Len(below) \in Nat
      /\ DOMAIN below = 1..Len(below)
      /\ \A i \in DOMAIN below : IsFrame(below[i]) /\ ~below[i].alone
  BY CoveredNumbered, NumberedParts DEF SpTypeOK, Waiting
<1> HIDE DEF frame, below
<1>6. spNextId \notin Waiting
  BY <1>2, SentInv
<1>7. /\ Numbered(spWaiting') /\ Waiting' = Waiting \cup {spNextId}
      /\ Len(spWaiting') = Len(below) + 1
      /\ \A i \in DOMAIN below : spWaiting'[i] = below[i]
      /\ spWaiting'[Len(below) + 1] = frame
      /\ DOMAIN spWaiting' = DOMAIN below \cup {Len(below) + 1}
  BY <1>3, <1>4, <1>5, <1>6, AppendNumbered DEF Waiting
<1>8. SpTypeOK'
  <2>1. \A i \in DOMAIN spWaiting' : IsFrame(spWaiting'[i])
    BY <1>4, <1>5, <1>7
  <2> QED
    BY <1>2, <1>7, <2>1, SentInv DEF SpTypeOK
<1>9. InOnePlace'
  BY <1>2, <1>7, SentInPlace
<1>10. CommandsKnown'
  <2> SUFFICES ASSUME NEW i \in DOMAIN spQueue', spQueue'[i].id \in DOMAIN spCommands'
               PROVE  spCommands'[spQueue'[i].id].op = spQueue'[i].op
    BY DEF CommandsKnown
  <2>1. CASE i \in DOMAIN spQueue /\ spQueue'[i] = spQueue[i]
    BY <1>2, <2>1 DEF CommandsKnown
  <2>2. CASE spQueue'[i] = [id |-> spNextId, op |-> request, arg |-> arg]
    BY <1>2, <2>2, SentInv DEF KeptExactly
  <2> QED
    BY <1>2, <2>1, <2>2, SentInv
<1>11. AnswersKept'
  <2>1. \A id \in DOMAIN spResults : id \in DOMAIN spData /\ id # spNextId
    BY <1>2, SentInv DEF KeptExactly
  <2> QED
    BY <1>2, <2>1, SentInv DEF AnswersKept
<1>12. LastErrorOwn'
  <2>1. \A i \in DOMAIN spWaiting' : i # Len(spWaiting') => ~spWaiting'[i].alone
    BY <1>5, <1>7
  <2>2. EventLoop'
    BY <1>2, <1>4, <1>7 DEF EventLoop
  <2> QED
    BY <2>1, <2>2 DEF LastErrorOwn
<1>13. KeptExactly'
  <2>1. /\ Queued' = Queued \cup {spNextId} /\ DOMAIN spData' = DOMAIN spData \cup {spNextId}
        /\ spNextId \notin Queued \cup Waiting \cup spLost \cup DOMAIN spServed
    BY <1>2, SentInv
  <2> QED
    BY <1>2, <1>7, <2>1 DEF KeptExactly, InOnePlace
<1>14. DeliveredOwn' /\ ReturnedOwn'
  BY <1>2 DEF DeliveredOwn, ReturnedOwn
<1> QED
  BY <1>8, <1>9, <1>10, <1>11, <1>12, <1>13, <1>14

LEMMA RefusedSpInv ==
  ASSUME SpInv, NEW op, NEW arg, returnRefused(op, arg)
  PROVE  SpInv'
<1>1. UNCHANGED <<spQueue, spNextId, spStatus, spFailed, spData, spResults, spLoops, spLost, spServed,
                  spWaiting, spCommands, spDelivered>>
  BY DEF returnRefused, spProtocol
<1>2. "id" \notin DOMAIN spReturned'
  BY DEF returnRefused
<1>3. Queued' = Queued /\ Waiting' = Waiting
  BY <1>1 DEF Queued, Waiting
<1>4. InOnePlace' /\ KeptExactly' /\ ReturnedOwn' /\ DeliveredOwn'
  BY <1>1, <1>2, <1>3 DEF SpInv, InOnePlace, KeptExactly, ReturnedOwn, DeliveredOwn
<1>5. SpTypeOK' /\ CommandsKnown' /\ AnswersKept'
  BY <1>1 DEF SpInv, SpTypeOK, CommandsKnown, AnswersKept
<1>6. LastErrorOwn'
  BY <1>1 DEF SpInv, LastErrorOwn, EventLoop, Innermost
<1> QED
  BY <1>4, <1>5, <1>6 DEF SpInv

(***************************************************************************)
(* slotRequestFinished for the request at the head of the queue.  Whoever  *)
(* waits for it finds its answer; the others keep what they have.          *)
(***************************************************************************)
LEMMA FinishedInv ==
  ASSUME SpInv, spQueue # <<>>, EventLoop, NEW httpError \in BOOLEAN, NEW ok \in BOOLEAN, NEW data,
         slotRequestFinished(spQueue[1].id, httpError, data),
         spServed' = With(spServed, spQueue[1].id, [ok |-> ok, op |-> spQueue[1].op, data |-> data]),
         ok => ~httpError /\ spStatus' = "200",
         ~ok => data = None,
         \/ spQueue' = Tail(spQueue) /\ spLost' = spLost
         \/ spQueue' = <<>> /\ spLost' = spLost \cup {spQueue[i].id : i \in 2..Len(spQueue)},
         spNextId' \in spNextId..(MaxRequests + 1), spWaiting' = spWaiting, spReturned' = spReturned
  PROVE  SpInv'
<1> USE DEF SpInv
<1> DEFINE r == spQueue[1].id
           error == httpError \/ spStatus' # "200"
           served == [ok |-> ok, op |-> spQueue[1].op, data |-> data]
<1>1. /\ Numbered(spQueue) /\ Numbered(Tail(spQueue)) /\ Ids(Tail(spQueue)) = Queued \ {r}
      /\ r \in Queued /\ {spQueue[i].id : i \in 2..Len(spQueue)} = Queued \ {r}
      /\ \A i \in DOMAIN Tail(spQueue) : \E j \in DOMAIN spQueue : Tail(spQueue)[i] = spQueue[j]
  BY TailNumbered DEF SpTypeOK, Queued
<1>2. /\ Numbered(spQueue') /\ Queued' \cup spLost' = (Queued \cup spLost) \ {r}
      /\ Queued' \subseteq Queued \ {r} /\ Queued' \cap spLost' = {}
      /\ \A i \in DOMAIN spQueue' : \E j \in DOMAIN spQueue : spQueue'[i] = spQueue[j]
  <2>1. r \notin spLost /\ Queued \cap spLost = {}
    BY <1>1 DEF InOnePlace
  <2>2. Queued' = Ids(spQueue')
    BY DEF Queued
  <2>3. CASE spQueue' = Tail(spQueue) /\ spLost' = spLost
    BY <1>1, <2>1, <2>2, <2>3
  <2>4. CASE spQueue' = <<>> /\ spLost' = spLost \cup {spQueue[i].id : i \in 2..Len(spQueue)}
    <3>1. Ids(<<>>) = {} /\ Numbered(<<>>) /\ DOMAIN <<>> = {}
      BY NoneNumbered
    <3> QED
      BY <1>1, <2>1, <2>2, <2>4, <3>1
  <2> QED
    BY <2>3, <2>4
<1>3. Waiting' = Waiting
  BY DEF Waiting
<1>4. /\ r \notin DOMAIN spServed /\ r \notin DOMAIN spDelivered /\ r \notin DOMAIN spResults
      /\ r \in 1..(spNextId - 1) /\ r \in DOMAIN spData
  BY <1>1 DEF InOnePlace, KeptExactly
<1> HIDE DEF served
<1>5. /\ DOMAIN spServed' = DOMAIN spServed \cup {r} /\ spServed'[r] = served
      /\ \A id \in DOMAIN spServed : spServed'[id] = spServed[id]
  <2>1. spServed' = With(spServed, r, served)
    BY DEF served
  <2> HIDE DEF r
  <2> QED
    BY <1>4, <2>1 DEF With
<1>6. served.ok = ok /\ served.data = data /\ served.op = spQueue[1].op
  BY DEF served
<1> HIDE DEF error
<1>7. /\ spFailed' = (spStatus' # "200") /\ (ok => ~error /\ ~spFailed') /\ (error => data = None)
  BY DEF error, slotRequestFinished
<1>8. CASE /\ r \in spLoops
           /\ spLoops' = spLoops \ {r} /\ spResults' = With(spResults, r, error) /\ spData' = With(spData, r, data)
           /\ UNCHANGED <<spCommands, spDelivered>>
  <2> HIDE DEF r
  <2>1. /\ DOMAIN spData' = DOMAIN spData /\ DOMAIN spResults' = DOMAIN spResults \cup {r}
        /\ spData'[r] = data /\ spResults'[r] = error
        /\ \A id \in DOMAIN spResults : spResults'[id] = spResults[id] /\ spData'[id] = spData[id]
    <3>1. /\ DOMAIN spData' = DOMAIN spData /\ spData'[r] = data
          /\ \A id \in DOMAIN spData : id # r => spData'[id] = spData[id]
      BY <1>4, <1>8 DEF With
    <3>2. /\ DOMAIN spResults' = DOMAIN spResults \cup {r} /\ spResults'[r] = error
          /\ \A id \in DOMAIN spResults : spResults'[id] = spResults[id]
      BY <1>4, <1>8 DEF With
    <3>3. \A id \in DOMAIN spResults : id \in DOMAIN spData /\ id # r
      BY <1>4 DEF KeptExactly
    <3> QED
      BY <3>1, <3>2, <3>3
  <2>2. r \in Waiting
    BY <1>8 DEF KeptExactly
  <2>3. InOnePlace'
    BY <1>2, <1>3, <1>4, <1>5, <1>8, SpBoundsAssumption DEF InOnePlace, SpTypeOK
  <2>4. CommandsKnown'
    BY <1>2, <1>8 DEF CommandsKnown
  <2>5. AnswersKept'
    <3>1. \A id \in DOMAIN spResults : id \in DOMAIN spServed
      BY DEF KeptExactly
    <3> QED
      BY <1>5, <1>6, <1>7, <2>1, <3>1 DEF AnswersKept
  <2>6. KeptExactly'
    BY <1>2, <1>3, <1>4, <1>5, <1>8, <2>1, <2>2 DEF KeptExactly
  <2>7. DeliveredOwn'
    BY <1>5, <1>8 DEF DeliveredOwn, InOnePlace
  <2>8. LastErrorOwn'
    <3>1. ASSUME ~EventLoop', spServed'[Innermost.id].ok PROVE ~spFailed'
      <4>1. spWaiting # <<>> /\ Innermost.id \in spLoops /\ Innermost.id \notin spLoops'
        BY <3>1 DEF EventLoop, Innermost
      <4>2. Innermost.id = r
        BY <1>8, <4>1
      <4> QED
        BY <1>5, <1>6, <1>7, <3>1, <4>2
    <3>2. Innermost' = Innermost
      BY DEF Innermost
    <3> QED
      BY <3>1, <3>2 DEF LastErrorOwn
  <2> QED
    BY <1>2, <1>5, <2>3, <2>4, <2>5, <2>6, <2>7, <2>8, SpBoundsAssumption DEF SpTypeOK, ReturnedOwn, InOnePlace
<1>9. CASE /\ r \notin spLoops
           /\ spData' = Dropped(spData, r) /\ spCommands' = Dropped(spCommands, r)
           /\ spDelivered' = With(spDelivered, r,
                  [op |-> IF r \in DOMAIN spDelivered THEN "twice" ELSE spCommands[r].op,
                   data |-> IF error THEN None ELSE data, failed |-> spFailed'])
           /\ UNCHANGED <<spLoops, spResults>>
  <2>1. r \notin Waiting /\ r \in DOMAIN spCommands
    BY <1>1, <1>4, <1>9 DEF KeptExactly
  <2>2. spCommands[r].op = spQueue[1].op
    <3>1. 1 \in DOMAIN spQueue
      BY <1>1, NumberedParts
    <3> QED
      BY <2>1, <3>1 DEF CommandsKnown
  <2> DEFINE given == [op |-> IF r \in DOMAIN spDelivered THEN "twice" ELSE spCommands[r].op,
                       data |-> IF error THEN None ELSE data, failed |-> spFailed']
  <2>3. given.op = spQueue[1].op /\ given.data = (IF ok THEN data ELSE None) /\ (ok => ~given.failed)
    BY <1>4, <1>7, <2>2
  <2> HIDE DEF given, r
  <2>4. /\ DOMAIN spDelivered' = DOMAIN spDelivered \cup {r} /\ spDelivered'[r] = given
        /\ \A id \in DOMAIN spDelivered : spDelivered'[id] = spDelivered[id]
    <3>1. spDelivered' = With(spDelivered, r, given)
      BY <1>9 DEF given
    <3> QED
      BY <1>4, <3>1 DEF With
  <2>5. /\ DOMAIN spData' = DOMAIN spData \ {r} /\ DOMAIN spCommands' = DOMAIN spCommands \ {r}
        /\ \A id \in DOMAIN spData : id # r => spData'[id] = spData[id]
        /\ \A id \in DOMAIN spCommands : id # r => spCommands'[id] = spCommands[id]
    BY <1>9 DEF Dropped
  <2>6. InOnePlace'
    BY <1>2, <1>3, <1>4, <1>5, <2>4, SpBoundsAssumption DEF InOnePlace, SpTypeOK
  <2>7. CommandsKnown'
    BY <1>2, <2>5 DEF CommandsKnown
  <2>8. AnswersKept'
    <3>1. \A id \in DOMAIN spResults : id \in DOMAIN spServed /\ id \in DOMAIN spData /\ id # r
      BY <1>4 DEF KeptExactly
    <3> QED
      BY <1>5, <1>9, <2>5, <3>1 DEF AnswersKept
  <2>9. KeptExactly'
    BY <1>2, <1>3, <1>4, <1>5, <1>9, <2>1, <2>4, <2>5 DEF KeptExactly
  <2>10. DeliveredOwn'
    BY <1>5, <1>6, <2>3, <2>4 DEF DeliveredOwn, InOnePlace
  <2>11. LastErrorOwn'
    BY <1>9 DEF LastErrorOwn, EventLoop
  <2> QED
    BY <1>2, <1>5, <2>6, <2>7, <2>8, <2>9, <2>10, <2>11, SpBoundsAssumption DEF SpTypeOK, ReturnedOwn, InOnePlace
<1> QED
  BY <1>8, <1>9 DEF slotRequestFinished, error

LEMMA FinishInv ==
  ASSUME SpInv, NEW outcome \in {"served", "refused", "broken"}, finish(outcome)
  PROVE  SpInv'
<1> DEFINE data == IF outcome = "served" THEN Answer(spQueue[1]) ELSE None
           ok == outcome = "served"
           httpError == outcome = "broken"
<1>1. /\ spQueue # <<>> /\ EventLoop
      /\ spServed' = With(spServed, spQueue[1].id, [ok |-> ok, op |-> spQueue[1].op, data |-> data])
      /\ slotRequestFinished(spQueue[1].id, httpError, data)
      /\ UNCHANGED <<spNextId, spWaiting, spReturned>>
  BY DEF finish
<1>2. (ok => ~httpError /\ spStatus' = "200") /\ (~ok => data = None)
  BY DEF finish
<1>3. \/ spQueue' = Tail(spQueue) /\ spLost' = spLost
      \/ spQueue' = <<>> /\ spLost' = spLost \cup {spQueue[i].id : i \in 2..Len(spQueue)}
  BY DEF finish
<1>4. ok \in BOOLEAN /\ httpError \in BOOLEAN /\ spNextId' \in spNextId..(MaxRequests + 1)
  BY <1>1, SpBoundsAssumption DEF SpInv, SpTypeOK
<1> HIDE DEF data, ok, httpError
<1> QED
  BY <1>1, <1>2, <1>3, <1>4, FinishedInv

LEMMA DestroyInv ==
  ASSUME SpInv, destroySparqlModel
  PROVE  SpInv'
<1>1. /\ spQueue # <<>> /\ EventLoop
      /\ spServed' = With(spServed, spQueue[1].id, [ok |-> FALSE, op |-> spQueue[1].op, data |-> None])
      /\ slotRequestFinished(spQueue[1].id, TRUE, None)
      /\ spQueue' = <<>> /\ spLost' = spLost \cup {spQueue[i].id : i \in 2..Len(spQueue)}
      /\ UNCHANGED <<spWaiting, spReturned>>
  BY DEF destroySparqlModel, EventLoop
<1>2. spNextId' \in spNextId..(MaxRequests + 1)
  BY SpBoundsAssumption DEF destroySparqlModel, SpInv, SpTypeOK
<1> QED
  BY <1>1, <1>2, FinishedInv

(***************************************************************************)
(* The innermost call goes on behind its event loop: it asks for the next  *)
(* removal in the same frame, or returns.                                  *)
(***************************************************************************)
LEMMA AtReturn ==
  ASSUME SpInv, spWaiting # <<>>, ~EventLoop
  PROVE  LET below == SubSeq(spWaiting, 1, Len(spWaiting) - 1) IN
         /\ Innermost.id \in Waiting /\ Innermost.id \in DOMAIN spResults /\ Innermost.id \notin spLoops
         /\ Innermost.id \in DOMAIN spServed /\ Innermost.id \notin Queued \cup spLost
         /\ IsFrame(Innermost)
         /\ Numbered(below) /\ Ids(below) = Waiting \ {Innermost.id}
         /\ Len(below) \in Nat /\ DOMAIN below = 1..Len(below)
         /\ \A i \in DOMAIN below : IsFrame(below[i]) /\ ~below[i].alone
<1> DEFINE below == SubSeq(spWaiting, 1, Len(spWaiting) - 1)
<1>1. /\ Numbered(spWaiting) /\ Len(spWaiting) \in Nat
      /\ Numbered(below) /\ Ids(below) = Ids(spWaiting) \ {spWaiting[Len(spWaiting)].id}
      /\ spWaiting[Len(spWaiting)].id \in Ids(spWaiting) /\ Len(spWaiting) \in DOMAIN spWaiting
      /\ Len(below) = Len(spWaiting) - 1 /\ DOMAIN below = 1..(Len(spWaiting) - 1)
      /\ \A i \in DOMAIN below : i \in DOMAIN spWaiting /\ below[i] = spWaiting[i]
  BY FrontNumbered, NumberedParts DEF SpInv, SpTypeOK
<1> HIDE DEF below
<1>2. \A i \in DOMAIN below : IsFrame(below[i]) /\ ~below[i].alone
  <2>1. \A i \in DOMAIN below : i # Len(spWaiting)
    BY <1>1
  <2> QED
    BY <1>1, <2>1 DEF SpInv, SpTypeOK, LastErrorOwn
<1>3. Innermost.id \in Waiting /\ Innermost.id \notin spLoops /\ IsFrame(Innermost)
  BY <1>1 DEF Innermost, Waiting, EventLoop, SpInv, SpTypeOK
<1>4. Innermost.id \in DOMAIN spResults /\ Innermost.id \in DOMAIN spServed
  BY <1>3 DEF SpInv, KeptExactly
<1>5. Innermost.id \notin Queued \cup spLost
  BY <1>4 DEF SpInv, InOnePlace
<1>6. Len(below) \in Nat /\ DOMAIN below = 1..Len(below)
  BY <1>1, NumberedParts
<1> QED
  BY <1>1, <1>2, <1>3, <1>4, <1>5, <1>6 DEF below, Innermost, Waiting

LEMMA AskAgainInv ==
  ASSUME SpInv, spWaiting # <<>>, ~EventLoop, NEW st, NEW rest,
         spResults' = Dropped(spResults, Innermost.id),
         spData' = With(Dropped(spData, Innermost.id), spNextId, None),
         spNextId <= MaxRequests,
         spQueue' = Append(spQueue, [id |-> spNextId, op |-> "remove", arg |-> st]),
         spNextId' = spNextId + 1,
         spLoops' = spLoops \cup {spNextId},
         spWaiting' = Append(SubSeq(spWaiting, 1, Len(spWaiting) - 1),
                             [Frame("remove", "removeAll", rest) EXCEPT !.alone = Innermost.alone]),
         UNCHANGED <<spReturned, spStatus, spFailed, spLost, spServed, spCommands, spDelivered>>
  PROVE  SpInv'
<1> USE DEF SpInv
<1> DEFINE below == SubSeq(spWaiting, 1, Len(spWaiting) - 1)
           frame == [Frame("remove", "removeAll", rest) EXCEPT !.alone = Innermost.alone]
           request == [id |-> spNextId, op |-> "remove", arg |-> st]
           top == Innermost.id
<1>1. /\ top \in Waiting /\ top \in DOMAIN spResults /\ top \notin spLoops
      /\ top \in DOMAIN spServed /\ top \notin Queued \cup spLost
      /\ Numbered(below) /\ Ids(below) = Waiting \ {top}
      /\ Len(below) \in Nat /\ DOMAIN below = 1..Len(below)
      /\ \A i \in DOMAIN below : IsFrame(below[i]) /\ ~below[i].alone
  BY AtReturn
<1>2. frame.id = spNextId /\ IsFrame(frame)
  BY DEF Frame, IsFrame
<1>3. request.id = spNextId /\ request.op = "remove"
  OBVIOUS
<1>4. /\ spWaiting' = Append(below, frame) /\ spQueue' = Append(spQueue, request)
      /\ spResults' = Dropped(spResults, top)
      /\ spData' = With(Dropped(spData, top), spNextId, None)
  OBVIOUS
<1>5. /\ spNextId \in Nat /\ spNextId' \in 1..(MaxRequests + 1) /\ spNextId' = spNextId + 1
      /\ spNextId \notin Queued \cup Waiting \cup spLost \cup DOMAIN spServed
  BY SpBoundsAssumption DEF SpTypeOK, InOnePlace
<1> HIDE DEF below, frame, request, top
<1>6. /\ Numbered(spQueue') /\ Queued' = Queued \cup {spNextId}
      /\ \A i \in DOMAIN spQueue' : \/ i \in DOMAIN spQueue /\ spQueue'[i] = spQueue[i]
                                    \/ spQueue'[i] = request
  BY <1>3, <1>4, <1>5, AppendNumbered DEF Queued, SpTypeOK
<1>7. /\ Numbered(spWaiting') /\ Waiting' = (Waiting \ {top}) \cup {spNextId}
      /\ Len(spWaiting') = Len(below) + 1
      /\ \A i \in DOMAIN below : spWaiting'[i] = below[i]
      /\ spWaiting'[Len(below) + 1] = frame
      /\ DOMAIN spWaiting' = DOMAIN below \cup {Len(below) + 1}
  <2>1. Numbered(below) /\ frame.id \notin Ids(below)
    BY <1>1, <1>2, <1>5
  <2>2. Waiting' = Ids(Append(below, frame))
    BY <1>4 DEF Waiting
  <2>3. /\ Numbered(Append(below, frame)) /\ Ids(Append(below, frame)) = Ids(below) \cup {frame.id}
        /\ Len(Append(below, frame)) = Len(below) + 1
        /\ \A i \in DOMAIN below : Append(below, frame)[i] = below[i]
        /\ Append(below, frame)[Len(below) + 1] = frame
        /\ DOMAIN Append(below, frame) = DOMAIN below \cup {Len(below) + 1}
    BY <2>1, AppendNumbered
  <2> QED
    BY <1>1, <1>2, <1>4, <2>2, <2>3, Zenon
<1>8. /\ DOMAIN spData' = (DOMAIN spData \ {top}) \cup {spNextId}
      /\ \A id \in DOMAIN spData : id # top /\ id # spNextId => spData'[id] = spData[id]
      /\ DOMAIN spResults' = DOMAIN spResults \ {top}
      /\ \A id \in DOMAIN spResults : id # top => spResults'[id] = spResults[id]
  <2> DEFINE kept == Dropped(spData, top)
  <2>1. DOMAIN kept = DOMAIN spData \ {top} /\ \A id \in DOMAIN kept : kept[id] = spData[id]
    BY DEF Dropped
  <2>2. spData' = With(kept, spNextId, None)
    BY <1>4
  <2> HIDE DEF kept
  <2>3. /\ DOMAIN spData' = DOMAIN kept \cup {spNextId}
        /\ \A id \in DOMAIN kept : id # spNextId => spData'[id] = kept[id]
    BY <2>2 DEF With
  <2>4. /\ DOMAIN spResults' = DOMAIN spResults \ {top}
        /\ \A id \in DOMAIN spResults : id # top => spResults'[id] = spResults[id]
    BY <1>4 DEF Dropped
  <2> QED
    BY <2>1, <2>3, <2>4
<1>9. SpTypeOK'
  BY <1>1, <1>2, <1>5, <1>6, <1>7 DEF SpTypeOK
<1>10. InOnePlace'
  <2>1. \A n \in 1..(spNextId - 1) : n \in 1..(spNextId' - 1)
    BY <1>5
  <2>2. spNextId \in 1..(spNextId' - 1)
    BY <1>5 DEF SpTypeOK
  <2> QED
    BY <1>5, <1>6, <1>7, <2>1, <2>2 DEF InOnePlace
<1>11. CommandsKnown'
  <2> SUFFICES ASSUME NEW i \in DOMAIN spQueue', spQueue'[i].id \in DOMAIN spCommands'
               PROVE  spCommands'[spQueue'[i].id].op = spQueue'[i].op
    BY DEF CommandsKnown
  <2>1. CASE i \in DOMAIN spQueue /\ spQueue'[i] = spQueue[i]
    BY <2>1 DEF CommandsKnown
  <2>2. CASE spQueue'[i] = request
    BY <1>3, <1>5, <2>2 DEF KeptExactly
  <2> QED
    BY <1>6, <2>1, <2>2
<1>12. AnswersKept'
  <2>1. \A id \in DOMAIN spResults : id \in DOMAIN spData /\ id # spNextId
    BY <1>5 DEF KeptExactly
  <2> QED
    BY <1>8, <2>1 DEF AnswersKept
<1>13. LastErrorOwn'
  <2>1. \A i \in DOMAIN spWaiting' : i # Len(spWaiting') => ~spWaiting'[i].alone
    BY <1>1, <1>7
  <2>2. EventLoop'
    BY <1>2, <1>7 DEF EventLoop
  <2> QED
    BY <2>1, <2>2 DEF LastErrorOwn
<1>14. KeptExactly'
  BY <1>1, <1>5, <1>6, <1>7, <1>8 DEF KeptExactly, InOnePlace
<1>15. DeliveredOwn' /\ ReturnedOwn'
  BY DEF DeliveredOwn, ReturnedOwn
<1> QED
  BY <1>9, <1>10, <1>11, <1>12, <1>13, <1>14, <1>15

LEMMA ReturnInv ==
  ASSUME SpInv, returnSync
  PROVE  SpInv'
<1> DEFINE below == SubSeq(spWaiting, 1, Len(spWaiting) - 1)
           top == Innermost.id
           data == IF spFailed THEN None ELSE blockingData(top)
           rc == IF spFailed THEN "error" ELSE "none"
           rest == IF Innermost.op = "removeAll" THEN (IF data = None THEN {} ELSE data[2]) ELSE Innermost.rest
           again == Innermost.call = "removeAll" /\ rest # {} /\ (Innermost.op = "remove" => ~spFailed)
<1>1. /\ spWaiting # <<>> /\ ~EventLoop /\ spResults' = Dropped(spResults, top)
      /\ UNCHANGED <<spStatus, spFailed, spLost, spServed, spCommands, spDelivered>>
  BY DEF returnSync, Innermost
<1>2. CASE again
  <2>1. PICK st \in rest :
          /\ spData' = With(Dropped(spData, top), spNextId, None)
          /\ spNextId <= MaxRequests
          /\ spQueue' = Append(spQueue, [id |-> spNextId, op |-> "remove", arg |-> st])
          /\ spNextId' = spNextId + 1
          /\ spLoops' = spLoops \cup {spNextId}
          /\ spWaiting' = Append(below, [Frame("remove", "removeAll", rest \ {st}) EXCEPT !.alone = Innermost.alone])
          /\ UNCHANGED spReturned
    BY <1>2 DEF returnSync, Innermost
  <2> HIDE DEF rest
  <2> QED
    BY <1>1, <2>1, AskAgainInv
<1>3. CASE ~again
  <2> DEFINE code == IF Innermost.op = "removeAll" THEN "none" ELSE rc
  <2>1. /\ spData' = Dropped(spData, top)
        /\ spReturned' = [op |-> Innermost.call, id |-> top, alone |-> Innermost.alone, value |-> data, rc |-> code]
        /\ spWaiting' = below
        /\ UNCHANGED <<spQueue, spNextId, spLoops>>
    BY <1>3 DEF returnSync, returnFrom, Innermost
  <2>2. /\ top \in Waiting /\ top \in DOMAIN spResults /\ top \notin spLoops
        /\ top \in DOMAIN spServed /\ top \notin Queued \cup spLost
        /\ Numbered(below) /\ Ids(below) = Waiting \ {top}
        /\ Len(below) \in Nat /\ DOMAIN below = 1..Len(below)
        /\ \A i \in DOMAIN below : IsFrame(below[i]) /\ ~below[i].alone
    BY <1>1, AtReturn
  <2>3. /\ spReturned'.op = Innermost.call /\ spReturned'.id = top /\ spReturned'.alone = Innermost.alone
        /\ spReturned'.value = data /\ spReturned'.rc = code
    BY <2>1
  <2>4. /\ data \in {spServed[top].data, None}
        /\ ~spFailed => data = spServed[top].data
    BY <2>2 DEF blockingData, SpInv, AnswersKept
  <2>5. /\ code \in {"none", "error"} /\ (code = "none" /\ Innermost.op # "removeAll" => ~spFailed)
        /\ (~spFailed => code = "none")
    OBVIOUS
  <2>6. Innermost.op = "removeAll" => Innermost.call = "removeAll"
    BY <1>1, AtReturn DEF IsFrame
  <2>7. Innermost.alone /\ spServed[top].ok => ~spFailed
    BY <1>1 DEF SpInv, LastErrorOwn
  <2> HIDE DEF below, top, data, code
  <2>8. ReturnedOwn'
    BY <1>1, <2>3, <2>4, <2>5, <2>6, <2>7 DEF ReturnedOwn
  <2>9. Queued' = Queued /\ Waiting' = Waiting \ {top}
    BY <2>1, <2>2 DEF Queued, Waiting
  <2>10. /\ DOMAIN spData' = DOMAIN spData \ {top} /\ DOMAIN spResults' = DOMAIN spResults \ {top}
         /\ \A id \in DOMAIN spData : id # top => spData'[id] = spData[id]
         /\ \A id \in DOMAIN spResults : id # top => spResults'[id] = spResults[id]
    BY <1>1, <2>1 DEF Dropped
  <2>11. SpTypeOK' /\ CommandsKnown'
    BY <1>1, <2>1, <2>2 DEF SpInv, SpTypeOK, CommandsKnown
  <2>12. InOnePlace'
    BY <1>1, <2>1, <2>2, <2>3, <2>9 DEF SpInv, InOnePlace
  <2>13. AnswersKept'
    BY <1>1, <2>10 DEF SpInv, AnswersKept, KeptExactly
  <2>14. LastErrorOwn'
    <3>1. spWaiting' # <<>> => Len(below) \in DOMAIN below /\ ~Innermost'.alone
      BY <2>1, <2>2 DEF Innermost
    <3>2. spWaiting' = <<>> => EventLoop'
      BY DEF EventLoop
    <3> QED
      BY <2>1, <2>2, <3>1, <3>2 DEF LastErrorOwn
  <2>15. KeptExactly'
    BY <1>1, <2>1, <2>2, <2>9, <2>10 DEF SpInv, KeptExactly
  <2>16. DeliveredOwn'
    BY <1>1 DEF SpInv, DeliveredOwn
  <2> QED
    BY <2>8, <2>11, <2>12, <2>13, <2>14, <2>15, <2>16 DEF SpInv
<1> QED
  BY <1>2, <1>3
-----------------------------------------------------------------------------
LEMMA SpStepInv == SpInv /\ [SpNext]_spVars => SpInv'
<1> SUFFICES ASSUME SpInv, [SpNext]_spVars PROVE SpInv'
  OBVIOUS
<1>1. CASE UNCHANGED spVars
  <2>1. UNCHANGED <<spQueue, spNextId, spStatus, spFailed, spData, spResults, spLoops, spLost, spServed,
                    spWaiting, spCommands, spDelivered, spReturned>>
    BY <1>1 DEF spVars, spProtocol
  <2>2. Queued' = Queued /\ Waiting' = Waiting
    BY <2>1 DEF Queued, Waiting
  <2>3. InOnePlace' /\ KeptExactly' /\ ReturnedOwn' /\ DeliveredOwn'
    BY <2>1, <2>2 DEF SpInv, InOnePlace, KeptExactly, ReturnedOwn, DeliveredOwn
  <2>4. SpTypeOK' /\ CommandsKnown' /\ AnswersKept'
    BY <2>1 DEF SpInv, SpTypeOK, CommandsKnown, AnswersKept
  <2>5. LastErrorOwn'
    BY <2>1 DEF SpInv, LastErrorOwn, EventLoop, Innermost
  <2> QED
    BY <2>3, <2>4, <2>5 DEF SpInv
<1>2. CASE SpNext
  BY <1>2, CallAsyncInv, CallSpInv, RefusedSpInv, FinishInv, ReturnInv, DestroyInv DEF SpNext
<1> QED
  BY <1>1, <1>2

(***************************************************************************)
(* SparqlProtocol and SparqlModel with any statements and templates, any   *)
(* number of requests and any depth of calls made from receivers of        *)
(* answers: an answer goes to the call that asked, and nothing is kept for *)
(* a request nobody waits for.                                             *)
(***************************************************************************)
THEOREM AnswersStayOwn == SpInit /\ [][SpNext]_spVars => []AnswersOwn
<1> QED
  BY SpInitInv, SpStepInv, SpInvMeans, PTL

-----------------------------------------------------------------------------
(***************************************************************************)
(* Iterators: the elements at some positions of a list, in order.          *)
(***************************************************************************)
Rank(positions, i) == Cardinality({j \in positions : j <= i})

\* The positions in a finite set of numbers are counted by their ranks.
LEMMA RanksCount ==
  ASSUME NEW P \in SUBSET Nat, IsFiniteSet(P)
  PROVE  /\ Cardinality(P) \in Nat
         /\ \A i \in P : Rank(P, i) \in 1..Cardinality(P)
         /\ \A i, j \in P : i < j => Rank(P, i) < Rank(P, j)
         /\ \A k \in 1..Cardinality(P) : \E i \in P : Rank(P, i) = k
<1> DEFINE upTo(i) == {j \in P : j <= i}
<1>1. Cardinality(P) \in Nat
  BY FS_CardinalityType
<1>2. \A i : IsFiniteSet(upTo(i)) /\ Cardinality(upTo(i)) \in Nat /\ Cardinality(upTo(i)) <= Cardinality(P)
  BY FS_Subset, FS_CardinalityType
<1>3. ASSUME NEW i \in P PROVE Rank(P, i) \in 1..Cardinality(P)
  <2>1. upTo(i) # {}
    OBVIOUS
  <2>2. Cardinality(upTo(i)) # 0
    BY <1>2, <2>1, FS_EmptySet
  <2> QED
    BY <1>1, <1>2, <2>2 DEF Rank
<1>4. ASSUME NEW i \in P, NEW j \in P, i < j PROVE Rank(P, i) < Rank(P, j)
  <2>0. \A x \in P : x \in Nat
    OBVIOUS
  <2>1. j \notin upTo(i) /\ upTo(i) \cup {j} \subseteq upTo(j)
    <3>1. \A x \in P : x <= i => x <= j
      BY <1>4, <2>0
    <3>2. ~(j <= i) /\ j <= j
      BY <1>4, <2>0
    <3> QED
      BY <3>1, <3>2
  <2>2. Cardinality(upTo(i) \cup {j}) = Cardinality(upTo(i)) + 1
    BY <1>2, <2>1, FS_AddElement
  <2>3. Cardinality(upTo(i) \cup {j}) <= Cardinality(upTo(j))
    <3>1. IsFiniteSet(upTo(j)) /\ upTo(i) \cup {j} \in SUBSET upTo(j)
      BY <1>2, <2>1
    <3> HIDE DEF upTo
    <3> QED
      BY <3>1, FS_Subset
  <2> HIDE DEF upTo
  <2>4. Cardinality(upTo(i)) < Cardinality(upTo(j))
    BY <1>2, <2>2, <2>3
  <2> QED
    BY <2>4 DEF Rank, upTo
<1>5. ASSUME NEW k \in 1..Cardinality(P) PROVE \E i \in P : Rank(P, i) = k
  <2> DEFINE f == [i \in P |-> Rank(P, i)]
             T == 1..Cardinality(P)
  <2>1. f \in [P -> T]
    BY <1>3
  <2>2. \A i, j \in P : f[i] = f[j] => i = j
    <3>1. \A i, j \in P : i # j => i < j \/ j < i
      OBVIOUS
    <3>2. \A i \in P : f[i] \in Nat /\ f[i] = Rank(P, i)
      BY <1>1, <1>3
    <3> HIDE DEF f
    <3> QED
      BY <1>4, <3>1, <3>2
  <2>3. f \in Injection(P, T)
    BY <2>1, <2>2 DEF Injection, IsInjective
  <2>4. IsFiniteSet(T) /\ Cardinality(T) = Cardinality(P)
    BY <1>1, FS_Interval
  <2>5. f \in Surjection(P, T)
    BY <2>3, <2>4, FS_Injection
  <2>6. \E i \in P : f[i] = k
    BY <2>5 DEF Surjection
  <2> QED
    BY <2>6
<1> QED
  BY <1>1, <1>3, <1>4, <1>5

\* So each rank is that of one position.
LEMMA NthIs ==
  ASSUME NEW P \in SUBSET Nat, IsFiniteSet(P)
  PROVE  /\ Cardinality(P) \in Nat
         /\ \A k \in 1..Cardinality(P) : NthPosition(P, k) \in P /\ Rank(P, NthPosition(P, k)) = k
         /\ \A i \in P : Rank(P, i) \in 1..Cardinality(P) /\ NthPosition(P, Rank(P, i)) = i
<1>1. \A k : NthPosition(P, k) = CHOOSE i \in P : Rank(P, i) = k
  BY DEF NthPosition, Rank
<1>2. \A i, j \in P : Rank(P, i) = Rank(P, j) => i = j
  <2>1. \A i, j \in P : i # j => i < j \/ j < i
    OBVIOUS
  <2>2. \A i \in P : Rank(P, i) \in Nat
    BY RanksCount
  <2>3. \A i, j \in P : i < j => Rank(P, i) < Rank(P, j)
    BY RanksCount
  <2> QED
    BY <2>1, <2>2, <2>3
<1>3. \A k \in 1..Cardinality(P) : \E i \in P : Rank(P, i) = k
  BY RanksCount
<1>4. \A k \in 1..Cardinality(P) : NthPosition(P, k) \in P /\ Rank(P, NthPosition(P, k)) = k
  BY <1>1, <1>3
<1>5. \A i \in P : Rank(P, i) \in 1..Cardinality(P)
  BY RanksCount
<1> QED
  BY <1>2, <1>4, <1>5, RanksCount

LEMMA NoElements == \A s : Elements(s, {}) = <<>>
<1>1. Cardinality({}) = 0
  BY FS_EmptySet
<1> QED
  BY <1>1 DEF Elements

LEMMA OneElement ==
  ASSUME NEW s, NEW j \in Nat
  PROVE  Elements(s, {j}) = <<s[j]>>
<1>1. IsFiniteSet({j}) /\ Cardinality({j}) = 1
  BY FS_Singleton
<1>2. NthPosition({j}, 1) = j
  BY <1>1, NthIs
<1> QED
  BY <1>1, <1>2 DEF Elements

ItElements == ItStatements \cup {st.c : st \in ItStatements}

Before(P, Q) == \A i \in P : \A j \in Q : i < j

\* Positions behind all others come behind them.
LEMMA ElementsJoin ==
  ASSUME NEW s \in Seq(ItElements), NEW P \in SUBSET (1..Len(s)), NEW Q \in SUBSET (1..Len(s)),
         Before(P, Q)
  PROVE  /\ Elements(s, P) \in Seq(ItElements) /\ Elements(s, Q) \in Seq(ItElements)
         /\ Elements(s, P \cup Q) = Elements(s, P) \o Elements(s, Q)
<1> DEFINE m == Cardinality(P)
           n == Cardinality(Q)
<1>0. \A i \in P : \A j \in Q : i \in Nat /\ j \in Nat /\ i <= j /\ ~(j <= i)
  BY DEF Before
<1>1. IsFiniteSet(P) /\ IsFiniteSet(Q) /\ IsFiniteSet(P \cup Q)
  <2>1. IsFiniteSet(1..Len(s))
    BY FS_Interval
  <2> QED
    BY <2>1, FS_Subset
<1>2. m \in Nat /\ n \in Nat
  BY <1>1, FS_CardinalityType
<1>3. Cardinality(P \cup Q) = m + n
  <2>1. P \cap Q = {}
    BY <1>0
  <2>2. Cardinality(P \cap Q) = 0
    BY <2>1, FS_EmptySet
  <2>3. Cardinality(P \cup Q) = m + n - Cardinality(P \cap Q)
    BY <1>1, FS_Union
  <2> QED
    BY <1>2, <2>2, <2>3
<1>4. ASSUME NEW i \in P PROVE Rank(P \cup Q, i) = Rank(P, i)
  <2>1. {j \in P \cup Q : j <= i} = {j \in P : j <= i}
    BY <1>0
  <2> QED
    BY <2>1 DEF Rank
<1>5. ASSUME NEW i \in Q PROVE Rank(P \cup Q, i) = m + Rank(Q, i)
  <2> DEFINE R == {j \in Q : j <= i}
  <2>1. {j \in P \cup Q : j <= i} = P \cup R /\ P \cap R = {} /\ R \subseteq Q
    BY <1>0
  <2>2. IsFiniteSet(R) /\ Cardinality(R) \in Nat
    BY <1>1, <2>1, FS_Subset, FS_CardinalityType
  <2>3. Cardinality(P \cap R) = 0
    BY <2>1, FS_EmptySet
  <2>4. Cardinality(P \cup R) = m + Cardinality(R) - Cardinality(P \cap R)
    BY <1>1, <2>2, FS_Union
  <2> HIDE DEF R, m
  <2>5. Cardinality(P \cup R) = m + Cardinality(R)
    BY <1>2, <2>2, <2>3, <2>4
  <2> QED
    BY <2>1, <2>5 DEF Rank, R
<1>6. \A k \in 1..m : NthPosition(P, k) \in P /\ Rank(P, NthPosition(P, k)) = k
  BY <1>1, NthIs
<1>7. \A k \in 1..n : NthPosition(Q, k) \in Q /\ Rank(Q, NthPosition(Q, k)) = k
  BY <1>1, NthIs
<1>8. \A i \in P \cup Q : NthPosition(P \cup Q, Rank(P \cup Q, i)) = i
  <2>1. P \cup Q \in SUBSET Nat
    OBVIOUS
  <2> QED
    BY <1>1, <2>1, NthIs
<1> HIDE DEF m, n
<1>9. \A k \in 1..m : NthPosition(P \cup Q, k) = NthPosition(P, k)
  BY <1>4, <1>6, <1>8
<1>10. \A k \in 1..n : NthPosition(P \cup Q, m + k) = NthPosition(Q, k)
  BY <1>5, <1>7, <1>8
<1>11. Elements(s, P) = [k \in 1..m |-> s[NthPosition(P, k)]] /\ Elements(s, Q) = [k \in 1..n |-> s[NthPosition(Q, k)]]
  BY DEF Elements, m, n
<1>12. Elements(s, P \cup Q) = [k \in 1..(m + n) |-> s[NthPosition(P \cup Q, k)]]
  BY <1>3 DEF Elements
<1>13. Elements(s, P) \in Seq(ItElements) /\ Elements(s, Q) \in Seq(ItElements)
  <2>1. \A i \in P \cup Q : s[i] \in ItElements
    OBVIOUS
  <2>2. (\A k \in 1..m : s[NthPosition(P, k)] \in ItElements) /\ (\A k \in 1..n : s[NthPosition(Q, k)] \in ItElements)
    BY <1>6, <1>7, <2>1
  <2> QED
    BY <1>2, <1>11, <2>2
<1>14. Len(Elements(s, P)) = m /\ Len(Elements(s, Q)) = n
  BY <1>2, <1>11
<1>15. ASSUME NEW k \in 1..(m + n)
       PROVE  s[NthPosition(P \cup Q, k)] = (Elements(s, P) \o Elements(s, Q))[k]
  <2>1. CASE k <= m
    <3>1. k \in 1..m
      BY <1>2, <2>1
    <3>2. (Elements(s, P) \o Elements(s, Q))[k] = Elements(s, P)[k]
      BY <1>2, <1>13, <1>14, <3>1
    <3> QED
      BY <1>9, <1>11, <3>1, <3>2
  <2>2. CASE k > m
    <3>1. k - m \in 1..n /\ m + (k - m) = k
      BY <1>2, <2>2
    <3>2. NthPosition(P \cup Q, k) = NthPosition(Q, k - m)
      BY <1>10, <3>1
    <3>3. (Elements(s, P) \o Elements(s, Q))[k] = Elements(s, Q)[k - m]
      BY <1>2, <1>13, <1>14, <2>2
    <3> QED
      BY <1>11, <3>1, <3>2, <3>3
  <2>3. k <= m \/ k > m
    BY <1>2
  <2> QED
    BY <2>1, <2>2, <2>3
<1>16. Elements(s, P) \o Elements(s, Q) = [k \in 1..(m + n) |-> (Elements(s, P) \o Elements(s, Q))[k]]
  <2> HIDE DEF m, n
  <2> DEFINE a == Elements(s, P)
             b == Elements(s, Q)
  <2>0. \A q \in Seq(ItElements) : q = [k \in 1..Len(q) |-> q[k]]
    OBVIOUS
  <2>1. a \in Seq(ItElements) /\ b \in Seq(ItElements) /\ Len(a) = m /\ Len(b) = n
    BY <1>13, <1>14
  <2> HIDE DEF a, b
  <2>2. a \o b \in Seq(ItElements) /\ Len(a \o b) = m + n
    BY <2>1
  <2>3. a \o b = [k \in 1..(m + n) |-> (a \o b)[k]]
    BY <2>0, <2>2
  <2> QED
    BY <2>3 DEF a, b
<1> QED
  BY <1>12, <1>13, <1>15, <1>16

LEMMA PrefixOfJoin ==
  ASSUME NEW S, NEW s \in Seq(S), NEW t \in Seq(S)
  PROVE  IsPrefix(s, s \o t)
<1>1. Len(s) <= Len(s \o t) /\ SubSeq(s, 1, Len(s)) = SubSeq(s \o t, 1, Len(s))
  OBVIOUS
<1> QED
  BY <1>1 DEF IsPrefix
-----------------------------------------------------------------------------
Backends ==
  [kind : {"list", "nodes", "graph", "wrapper"}, todo : Seq(ItElements), filter : ItTemplates \cup {EmptyStatement},
   pos : Nat, first : BOOLEAN, closed : BOOLEAN, deleted : BOOLEAN, inner : Nat, which : Parts \cup {"all"}]

\* How far a backend has been read, ...
Reached(x) == IF x.first THEN 0 ELSE x.pos
ReadPositions(x) == {j \in FittingFrom(x, 1) : j <= Reached(x)}

\* ... and what has been shown of it
ReadSoFar(x, shown) ==
  /\ x.pos \in 1..(Len(x.todo) + 1) /\ (x.first => x.pos = 1)
  /\ ~x.first /\ ~AtEnd(x) => Fits(x, x.todo[x.pos])
  /\ ~x.first /\ AtEnd(x) => x.closed
  /\ shown = Elements(x.todo, ReadPositions(x))

LEMMA ListsAreLists ==
  ASSUME NEW S, IsFiniteSet(S)
  PROVE  SetToSeq(S) \in Seq(S)
<1> DEFINE n == Cardinality(S)
<1>1. n \in Nat /\ ExistsBijection(1..n, S)
  BY FS_CardinalityType
<1>2. \E f \in [1..n -> S] : \A a, b \in DOMAIN f : f[a] = f[b] => a = b
  BY <1>1 DEF ExistsBijection, Bijection, Injection, IsInjective
<1>3. SetToSeq(S) \in [1..n -> S]
  BY <1>2 DEF SetToSeq, IsInjective
<1> QED
  BY <1>1, <1>3

LEMMA PositionsAre ==
  ASSUME NEW x \in Backends, NEW i \in Nat \ {0}
  PROVE  /\ Len(x.todo) \in Nat /\ FittingFrom(x, i) \in SUBSET (1..Len(x.todo)) /\ IsFiniteSet(FittingFrom(x, i))
         /\ x.todo \in Seq(ItElements) /\ FittingFrom(x, i) = {j \in FittingFrom(x, 1) : i <= j}
<1>1. x.todo \in Seq(ItElements)
  BY DEF Backends
<1>2. Len(x.todo) \in Nat
  BY <1>1
<1>3. FittingFrom(x, i) \in SUBSET (1..Len(x.todo)) /\ FittingFrom(x, i) = {j \in FittingFrom(x, 1) : i <= j}
  BY <1>2 DEF FittingFrom
<1>4. IsFiniteSet(1..Len(x.todo))
  BY <1>2, FS_Interval
<1> QED
  BY <1>1, <1>2, <1>3, <1>4, FS_Subset

\* Skip finds the first position that fits.
LEMMA SkipFinds ==
  ASSUME NEW x \in Backends, NEW i \in Nat \ {0}, FittingFrom(x, i) # {}
  PROVE  /\ Skip(x, i) \in FittingFrom(x, i)
         /\ \A k \in FittingFrom(x, i) : Skip(x, i) <= k
<1> DEFINE P == FittingFrom(x, i)
<1>1. P \in SUBSET Nat /\ IsFiniteSet(P)
  BY PositionsAre
<1>2. Cardinality(P) \in Nat /\ Cardinality(P) # 0
  BY <1>1, FS_EmptySet, FS_CardinalityType
<1>3. PICK j \in P : Rank(P, j) = 1
  BY <1>1, <1>2, RanksCount
<1>4. \A k \in P : Rank(P, k) \in Nat /\ Rank(P, k) >= 1 /\ (k < j => Rank(P, k) < 1)
  BY <1>1, <1>2, <1>3, RanksCount
<1>5. \A k \in P : j <= k
  BY <1>1, <1>4
<1>6. \E m \in P : \A k \in P : m <= k
  BY <1>5
<1>7. Skip(x, i) = CHOOSE m \in P : \A k \in P : m <= k
  BY DEF Skip
<1> HIDE DEF P
<1> QED
  BY <1>6, <1>7 DEF P

LEMMA JoinPositions ==
  ASSUME NEW list \in Seq(ItElements), NEW A \in SUBSET (1..Len(list)), NEW j \in 1..Len(list), Before(A, {j})
  PROVE  Elements(list, A \cup {j}) = Append(Elements(list, A), list[j])
<1> DEFINE B == {j}
<1>1. list \in Seq(ItElements) /\ A \in SUBSET (1..Len(list)) /\ B \in SUBSET (1..Len(list)) /\ Before(A, B)
  OBVIOUS
<1>2. Elements(list, {j}) = <<list[j]>> /\ list[j] \in ItElements
  <2>1. j \in Nat
    OBVIOUS
  <2> QED
    BY <2>1, OneElement
<1> HIDE DEF B
<1>3. /\ Elements(list, A) \in Seq(ItElements) /\ Elements(list, B) \in Seq(ItElements)
      /\ Elements(list, A \cup B) = Elements(list, A) \o Elements(list, B)
  BY <1>1, ElementsJoin
<1>4. \A a \in Seq(ItElements) : \A e \in ItElements : a \o <<e>> = Append(a, e)
  OBVIOUS
<1> QED
  BY <1>2, <1>3, <1>4 DEF B

LEMMA ClosedMore ==
  ASSUME NEW x \in Backends, NEW shown, ReadSoFar(x, shown), NEW c \in BOOLEAN
  PROVE  ReadSoFar([x EXCEPT !.closed = @ \/ c], shown)
<1> DEFINE y == [x EXCEPT !.closed = @ \/ c]
<1>1. /\ y.pos = x.pos /\ y.first = x.first /\ y.todo = x.todo /\ y.kind = x.kind /\ y.filter = x.filter
      /\ y.closed = (x.closed \/ c)
  BY DEF Backends
<1> HIDE DEF y
<1>2. AtEnd(y) = AtEnd(x) /\ (\A e : Fits(y, e) = Fits(x, e)) /\ Reached(y) = Reached(x)
  BY <1>1 DEF AtEnd, Fits, Reached
<1>3. ReadPositions(y) = ReadPositions(x)
  BY <1>1, <1>2 DEF ReadPositions, FittingFrom
<1>4. ReadSoFar(y, shown)
  BY <1>1, <1>2, <1>3 DEF ReadSoFar
<1> QED
  BY <1>4 DEF y

\* One next()
AfterNext(x) == LET moved == Advance(x) IN [moved EXCEPT !.closed = @ \/ AtEnd(moved)]

LEMMA BackendMoves ==
  ASSUME NEW x \in Backends, NEW shown, ReadSoFar(x, shown), NEW moved, moved = Advance(x),
         NEW y, y = AfterNext(x)
  PROVE  /\ y \in Backends /\ y.kind = x.kind /\ y.inner = x.inner /\ y.deleted = x.deleted
         /\ AtEnd(moved) => ReadSoFar(y, shown)
         /\ ~AtEnd(moved) => ReadSoFar(y, Append(shown, moved.todo[moved.pos])) /\ moved.todo[moved.pos] \in ItElements
<1> DEFINE n == Len(x.todo)
           i == IF x.first THEN x.pos ELSE x.pos + 1
<1>1. /\ n \in Nat /\ x.todo \in Seq(ItElements) /\ x.pos \in 1..(n + 1) /\ (x.first => x.pos = 1) /\ x.first \in BOOLEAN
      /\ ~x.first /\ AtEnd(x) => x.closed
      /\ shown = Elements(x.todo, ReadPositions(x))
  BY PositionsAre DEF ReadSoFar, Backends
<1>2. moved = [x EXCEPT !.first = FALSE, !.pos = IF AtEnd(x) THEN x.pos ELSE Skip(x, i)]
  BY DEF Advance
<1>3. i \in Nat \ {0} /\ i = Reached(x) + 1 /\ Reached(x) \in Nat
  BY <1>1 DEF Reached
<1> DEFINE pos == IF AtEnd(x) THEN x.pos ELSE Skip(x, i)
<1>4. FittingFrom(x, i) \in SUBSET (1..n) /\ FittingFrom(x, 1) \in SUBSET (1..n)
      /\ FittingFrom(x, i) = {j \in FittingFrom(x, 1) : i <= j}
  BY <1>3, PositionsAre
<1>5. ReadPositions(x) = {j \in FittingFrom(x, 1) : j < i}
  <2>1. \A j \in FittingFrom(x, 1) : j <= Reached(x) <=> j < i
    BY <1>1, <1>3, <1>4
  <2> QED
    BY <2>1 DEF ReadPositions
<1>6. \/ pos = n + 1 /\ ReadPositions(x) = FittingFrom(x, 1)
      \/ /\ pos \in FittingFrom(x, i)
         /\ {j \in FittingFrom(x, 1) : j <= pos} = ReadPositions(x) \cup {pos}
  <2>1. CASE AtEnd(x)
    <3>1. pos = n + 1 /\ i >= n + 1
      BY <1>1, <2>1 DEF AtEnd
    <3> QED
      BY <1>1, <1>3, <1>4, <1>5, <3>1
  <2>2. CASE ~AtEnd(x) /\ FittingFrom(x, i) = {}
    <3>1. pos = n + 1
      BY <2>2 DEF Skip
    <3>2. \A j \in FittingFrom(x, 1) : j < i
      BY <1>1, <1>3, <1>4, <2>2
    <3> QED
      BY <1>5, <3>1, <3>2
  <2>3. CASE ~AtEnd(x) /\ FittingFrom(x, i) # {}
    <3>1. pos \in FittingFrom(x, i) /\ \A k \in FittingFrom(x, i) : pos <= k
      BY <1>3, <2>3, SkipFinds
    <3> HIDE DEF pos, i
    <3>2. {j \in FittingFrom(x, 1) : j <= pos} = ReadPositions(x) \cup {pos}
      BY <1>3, <1>4, <1>5, <3>1
    <3> QED
      BY <3>1, <3>2
  <2> QED
    BY <2>1, <2>2, <2>3
<1>7. pos \in 1..(n + 1)
  BY <1>1, <1>4, <1>6
<1> HIDE DEF pos, i
<1>8. /\ moved = [x EXCEPT !.first = FALSE, !.pos = pos]
      /\ y = [x EXCEPT !.first = FALSE, !.pos = pos, !.closed = @ \/ AtEnd(moved)]
  BY <1>2 DEF pos, Backends, AfterNext
<1>9. /\ moved.todo = x.todo /\ moved.pos = pos /\ (AtEnd(moved) <=> pos > n)
      /\ y \in Backends /\ y.kind = x.kind /\ y.inner = x.inner /\ y.deleted = x.deleted
      /\ y.todo = x.todo /\ y.filter = x.filter /\ y.pos = pos /\ y.first = FALSE /\ (y.closed <=> x.closed \/ AtEnd(moved))
  <2>1. moved.todo = x.todo /\ moved.pos = pos
    BY <1>8 DEF Backends
  <2>2. AtEnd(moved) \in BOOLEAN /\ (AtEnd(moved) <=> pos > n)
    BY <2>1 DEF AtEnd
  <2>3. pos \in Nat /\ x.closed \in BOOLEAN
    BY <1>1, <1>7 DEF Backends
  <2> HIDE DEF n
  <2> DEFINE end == AtEnd(moved)
  <2> HIDE DEF end
  <2>4. y = [x EXCEPT !.first = FALSE, !.pos = pos, !.closed = @ \/ end]
    BY <1>8 DEF end
  <2>5. y = [x EXCEPT !.first = FALSE, !.pos = pos, !.closed = x.closed \/ end]
    BY <2>4
  <2>6. /\ y \in Backends /\ y.kind = x.kind /\ y.inner = x.inner /\ y.deleted = x.deleted
        /\ y.todo = x.todo /\ y.filter = x.filter /\ y.pos = pos /\ y.first = FALSE
    BY <2>3, <2>5 DEF Backends
  <2>7. y.closed <=> x.closed \/ end
    BY <2>5 DEF Backends
  <2> QED
    BY <2>1, <2>2, <2>6, <2>7 DEF end
<1> HIDE DEF n
<1>10. /\ FittingFrom(y, 1) = FittingFrom(x, 1) /\ Reached(y) = pos /\ (AtEnd(y) <=> AtEnd(moved))
       /\ \A e : Fits(y, e) <=> Fits(x, e)
  BY <1>9 DEF FittingFrom, Fits, Reached, AtEnd
<1>11. CASE pos = n + 1 /\ ReadPositions(x) = FittingFrom(x, 1)
  <2>1. AtEnd(moved)
    BY <1>1, <1>9, <1>11
  <2>2. ReadPositions(y) = ReadPositions(x)
    BY <1>1, <1>4, <1>10, <1>11 DEF ReadPositions
  <2>3. ReadSoFar(y, shown)
    BY <1>1, <1>7, <1>9, <1>10, <2>1, <2>2 DEF ReadSoFar, n
  <2> QED
    BY <1>9, <2>1, <2>3
<1>12. CASE pos \in FittingFrom(x, i) /\ {j \in FittingFrom(x, 1) : j <= pos} = ReadPositions(x) \cup {pos}
  <2>1. pos \in 1..n /\ ~AtEnd(moved)
    BY <1>1, <1>4, <1>9, <1>12
  <2>2. ReadPositions(y) = ReadPositions(x) \cup {pos}
    BY <1>10, <1>12 DEF ReadPositions
  <2>3. ReadPositions(x) \in SUBSET (1..n) /\ \A j \in ReadPositions(x) : j < pos
    BY <1>3, <1>4, <1>5, <1>12
  <2>4. Elements(x.todo, ReadPositions(y)) = Append(shown, x.todo[pos])
    <3> DEFINE s == x.todo
               P == ReadPositions(x)
    <3>1. s \in Seq(ItElements) /\ P \in SUBSET (1..Len(s)) /\ pos \in 1..Len(s) /\ Before(P, {pos})
      BY <1>1, <2>1, <2>3 DEF n, Before
    <3> HIDE DEF s, P
    <3>2. Elements(s, P \cup {pos}) = Append(Elements(s, P), s[pos])
      BY <3>1, JoinPositions
    <3> QED
      BY <1>1, <2>2, <3>2 DEF s, P
  <2>5. Fits(y, y.todo[y.pos])
    BY <1>9, <1>10, <1>12 DEF FittingFrom
  <2>6. ReadSoFar(y, Append(shown, x.todo[pos]))
    BY <1>7, <1>9, <1>10, <2>1, <2>4, <2>5 DEF ReadSoFar, n
  <2>7. x.todo[pos] \in ItElements
    BY <1>1, <2>1 DEF n
  <2> QED
    BY <1>9, <2>1, <2>6, <2>7
<1> QED
  BY <1>6, <1>11, <1>12

\* next() until the end
AtTheEnd(x) == [x EXCEPT !.pos = Len(x.todo) + 1, !.first = FALSE, !.closed = TRUE]

LEMMA BackendFinishes ==
  ASSUME NEW x \in Backends, NEW shown, ReadSoFar(x, shown), NEW from, from = IF x.first THEN 1 ELSE x.pos + 1,
         NEW y, y = AtTheEnd(x)
  PROVE  /\ y \in Backends /\ y.kind = x.kind /\ y.inner = x.inner /\ y.deleted = x.deleted
         /\ ReadSoFar(y, shown \o Elements(x.todo, FittingFrom(x, from)))
         /\ Elements(x.todo, FittingFrom(x, from)) \in Seq(ItElements)
<1> DEFINE n == Len(x.todo)
           P == ReadPositions(x)
           Q == FittingFrom(x, from)
<1>1. /\ n \in Nat /\ x.todo \in Seq(ItElements) /\ x.pos \in 1..(n + 1) /\ (x.first => x.pos = 1) /\ x.first \in BOOLEAN
      /\ shown = Elements(x.todo, P)
  BY PositionsAre DEF ReadSoFar, Backends
<1>2. from \in Nat \ {0} /\ from = Reached(x) + 1 /\ Reached(x) \in Nat
  BY <1>1 DEF Reached
<1>3. FittingFrom(x, 1) \in SUBSET (1..n) /\ Q = {j \in FittingFrom(x, 1) : from <= j}
  BY <1>2, PositionsAre
<1>4. P = {j \in FittingFrom(x, 1) : j < from}
  <2>1. \A j \in FittingFrom(x, 1) : j <= Reached(x) <=> j < from
    BY <1>1, <1>2, <1>3
  <2> QED
    BY <2>1 DEF ReadPositions
<1> HIDE DEF P, Q
<1>5. P \in SUBSET (1..n) /\ Q \in SUBSET (1..n) /\ P \cup Q = FittingFrom(x, 1) /\ Before(P, Q)
  BY <1>2, <1>3, <1>4 DEF Before
<1>6. Elements(x.todo, P \cup Q) = shown \o Elements(x.todo, Q) /\ Elements(x.todo, Q) \in Seq(ItElements)
  <2> DEFINE s == x.todo
  <2>1. s \in Seq(ItElements) /\ P \in SUBSET (1..Len(s)) /\ Q \in SUBSET (1..Len(s))
    BY <1>1, <1>5
  <2> HIDE DEF s
  <2>2. Elements(s, P \cup Q) = Elements(s, P) \o Elements(s, Q) /\ Elements(s, Q) \in Seq(ItElements)
    BY <1>5, <2>1, ElementsJoin
  <2> QED
    BY <1>1, <2>2 DEF s
<1>7. /\ y \in Backends /\ y.kind = x.kind /\ y.inner = x.inner /\ y.deleted = x.deleted
      /\ y.todo = x.todo /\ y.filter = x.filter /\ y.pos = n + 1 /\ y.first = FALSE /\ y.closed
  <2>1. n + 1 \in Nat
    BY <1>1
  <2> DEFINE end == n + 1
  <2>2. y = [x EXCEPT !.pos = end, !.first = FALSE, !.closed = TRUE]
    BY DEF AtTheEnd
  <2> HIDE DEF end
  <2>3. /\ y \in Backends /\ y.kind = x.kind /\ y.inner = x.inner /\ y.deleted = x.deleted
        /\ y.todo = x.todo /\ y.filter = x.filter /\ y.pos = end /\ y.first = FALSE /\ y.closed
    BY <2>1, <2>2 DEF Backends, end
  <2> QED
    BY <2>3 DEF end
<1> HIDE DEF n
<1>8. FittingFrom(y, 1) = FittingFrom(x, 1) /\ Reached(y) = n + 1 /\ AtEnd(y)
  BY <1>1, <1>7 DEF FittingFrom, Fits, Reached, AtEnd, n
<1>9. ReadPositions(y) = P \cup Q
  <2>1. \A j \in FittingFrom(x, 1) : j <= n + 1
    BY <1>1, <1>3
  <2> QED
    BY <1>5, <1>8, <2>1 DEF ReadPositions
<1>10. ReadSoFar(y, shown \o Elements(x.todo, Q))
  <2> DEFINE all == shown \o Elements(x.todo, Q)
  <2>1. all = Elements(y.todo, ReadPositions(y))
    BY <1>6, <1>7, <1>9
  <2>2. y.pos \in 1..(Len(y.todo) + 1)
    BY <1>1, <1>7 DEF n
  <2> HIDE DEF all
  <2>3. ReadSoFar(y, all)
    BY <1>7, <1>8, <2>1, <2>2 DEF ReadSoFar
  <2> QED
    BY <2>3 DEF all
<1> QED
  BY <1>6, <1>7, <1>10 DEF Q
-----------------------------------------------------------------------------
\* A Private whose backend is a wrapper
Wraps(privs, backends, p) == p # 0 /\ privs[p] # 0 /\ backends[privs[p]].kind = "wrapper"
Inner(privs, backends, p) == backends[privs[p]].inner

\* A Private is alive if a handle has it, or a wrapper that a handle has.
Held(handles, privs, backends, p) ==
  /\ p # 0
  /\ \E h \in Handles : \/ p = handles[h]
                        \/ Wraps(privs, backends, handles[h]) /\ p = Inner(privs, backends, handles[h])

\* A wrapper never wraps another one, and it wraps something.
Flat(handles, privs, backends) ==
  \A h \in Handles : Wraps(privs, backends, handles[h]) =>
    /\ Inner(privs, backends, handles[h]) # 0
    /\ ~Wraps(privs, backends, Inner(privs, backends, handles[h]))

LEMMA LiveAreHeld ==
  ASSUME NEW handles, NEW privs, NEW backends, Flat(handles, privs, backends)
  PROVE  \A p : p \in LivePrivs(handles, privs, backends) <=> Held(handles, privs, backends, p)
<1> DEFINE fromHandles == {handles[h] : h \in Handles} \ {0}
           ofWrapper(p) == IF p # 0 /\ privs[p] # 0 /\ backends[privs[p]].kind = "wrapper"
                           THEN {backends[privs[p]].inner} ELSE {}
           up(S) == S \cup UNION {ofWrapper(p) : p \in S}
           wrapped == UNION {ofWrapper(p) : p \in fromHandles}
<1>1. LivePrivs(handles, privs, backends) = up(up(up(fromHandles)))
  BY DEF LivePrivs
<1>2. \A p : ofWrapper(p) = IF Wraps(privs, backends, p) THEN {Inner(privs, backends, p)} ELSE {}
  BY DEF Wraps, Inner
<1> HIDE DEF ofWrapper
<1>3. ASSUME NEW p \in wrapped PROVE ofWrapper(p) = {} /\ p # 0
  <2>1. PICK q \in fromHandles : p \in ofWrapper(q)
    BY <1>3
  <2>2. PICK h \in Handles : q = handles[h]
    BY <2>1
  <2>3. Wraps(privs, backends, handles[h]) /\ p = Inner(privs, backends, handles[h])
    BY <1>2, <2>1, <2>2
  <2>4. p # 0 /\ ~Wraps(privs, backends, p)
    BY <2>3 DEF Flat
  <2> QED
    BY <1>2, <2>4
<1> HIDE DEF fromHandles
<1>4. up(fromHandles) = fromHandles \cup wrapped
  OBVIOUS
<1>5. up(fromHandles \cup wrapped) = fromHandles \cup wrapped
  BY <1>3
<1>6. LivePrivs(handles, privs, backends) = fromHandles \cup wrapped
  BY <1>1, <1>4, <1>5
<1>7. \A p : p \in wrapped <=> \E h \in Handles : handles[h] # 0 /\ p \in ofWrapper(handles[h])
  BY DEF fromHandles
<1> HIDE DEF wrapped
<1>8. \A p : p \in fromHandles \cup wrapped <=> Held(handles, privs, backends, p)
  <2>1. ASSUME NEW p, p \in wrapped PROVE Held(handles, privs, backends, p)
    <3>1. PICK h \in Handles : handles[h] # 0 /\ p \in ofWrapper(handles[h])
      BY <1>7, <2>1
    <3> QED
      BY <1>2, <1>3, <2>1, <3>1 DEF Held
  <2>2. ASSUME NEW p, p \in fromHandles PROVE Held(handles, privs, backends, p)
    BY <2>2 DEF Held, fromHandles
  <2>3. ASSUME NEW p, Held(handles, privs, backends, p) PROVE p \in fromHandles \cup wrapped
    <3>1. PICK h \in Handles : \/ p = handles[h]
                               \/ Wraps(privs, backends, handles[h]) /\ p = Inner(privs, backends, handles[h])
      BY <2>3 DEF Held
    <3>2. CASE p = handles[h]
      BY <2>3, <3>2 DEF Held, fromHandles
    <3>3. CASE Wraps(privs, backends, handles[h]) /\ p = Inner(privs, backends, handles[h])
      <4>1. p \in ofWrapper(handles[h]) /\ handles[h] # 0
        BY <1>2, <3>3 DEF Wraps
      <4> QED
        BY <1>7, <4>1
    <3> QED
      BY <3>1, <3>2, <3>3
  <2> QED
    BY <2>1, <2>2, <2>3
<1> QED
  BY <1>6, <1>8
-----------------------------------------------------------------------------
ItTyped ==
  /\ itGraph \subseteq ItStatements
  /\ itBackends \in Seq(Backends)
  /\ itShown \in Seq(Seq(ItElements)) /\ Len(itShown) = Len(itBackends)
  /\ itPriv \in Seq(0..Len(itBackends))
  /\ itHandles \in [Handles -> 0..Len(itPriv)]
  /\ itReplaced \in SUBSET (1..Len(itBackends))

\* What a wrapper wraps was made before it and wraps nothing itself.
WrapperOK(x) ==
  IF x.kind = "wrapper"
  THEN /\ ~x.deleted /\ x.inner \in 1..Len(itPriv)
       /\ itPriv[x.inner] # 0 => itBackends[itPriv[x.inner]].kind # "wrapper"
  ELSE x.inner = 0

\* A backend has one Private for ever, alive or not, but for one that was replaced.
LinkedOnce == \A p, q \in 1..Len(itPriv) : itPriv[p] = itPriv[q] /\ itPriv[p] # 0 => p = q
ReplacedFree == \A b \in itReplaced : itBackends[b].kind = "list" /\ \A p \in 1..Len(itPriv) : itPriv[p] # b
WrappersFlat == \A b \in 1..Len(itBackends) : WrapperOK(itBackends[b])
Linked == LinkedOnce /\ ReplacedFree /\ WrappersFlat

Alive(p) == Held(itHandles, itPriv, itBackends, p)

\* A backend is deleted when its Private is gone.
Owned ==
  \A b \in 1..Len(itBackends) :
    itBackends[b].deleted <=> b \notin itReplaced /\ \A p \in 1..Len(itPriv) : itPriv[p] = b => ~Alive(p)

Read ==
  \A b \in 1..Len(itBackends) :
    ReadSoFar(itBackends[b], itShown[b]) /\ (itBackends[b].deleted => itShown[b] = <<>>)

ItInv == ItTyped /\ Linked /\ Owned /\ Read

LEMMA InvIsFlat ==
  ASSUME ItTyped, Linked
  PROVE  /\ Flat(itHandles, itPriv, itBackends)
         /\ \A p : Wraps(itPriv, itBackends, p) /\ p \in 0..Len(itPriv) =>
              /\ Inner(itPriv, itBackends, p) \in 1..Len(itPriv)
              /\ ~Wraps(itPriv, itBackends, Inner(itPriv, itBackends, p))
<1>1. \A p \in 1..Len(itPriv) : itPriv[p] \in 0..Len(itBackends)
  BY DEF ItTyped
<1>2. \A p \in 0..Len(itPriv) : Wraps(itPriv, itBackends, p) =>
              /\ Inner(itPriv, itBackends, p) \in 1..Len(itPriv)
              /\ ~Wraps(itPriv, itBackends, Inner(itPriv, itBackends, p))
  <2> SUFFICES ASSUME NEW p \in 0..Len(itPriv), Wraps(itPriv, itBackends, p)
               PROVE  /\ Inner(itPriv, itBackends, p) \in 1..Len(itPriv)
                      /\ ~Wraps(itPriv, itBackends, Inner(itPriv, itBackends, p))
    OBVIOUS
  <2>1. p \in 1..Len(itPriv) /\ itPriv[p] \in 1..Len(itBackends)
    BY <1>1 DEF Wraps, ItTyped
  <2> QED
    BY <2>1 DEF Linked, LinkedOnce, ReplacedFree, WrappersFlat, WrapperOK, Wraps, Inner
<1>3. \A h \in Handles : itHandles[h] \in 0..Len(itPriv)
  BY DEF ItTyped
<1>4. Flat(itHandles, itPriv, itBackends)
  BY <1>2, <1>3 DEF Flat
<1> QED
  BY <1>2, <1>4

\* Each part of the property from the invariant
LEMMA OwnedOnce ==
  ASSUME ItInv
  PROVE  BackendsOwnedOnce
<1>1. ItTyped /\ Linked /\ Owned
  BY DEF ItInv
<1>2. \A p : p \in LivePrivs(itHandles, itPriv, itBackends) <=> Alive(p)
  BY <1>1, InvIsFlat, LiveAreHeld DEF Alive
<1>3. \A p : Alive(p) => p \in 1..Len(itPriv)
  <2> SUFFICES ASSUME NEW p, Alive(p) PROVE p \in 1..Len(itPriv)
    OBVIOUS
  <2>1. \A h \in Handles : itHandles[h] \in 0..Len(itPriv)
    BY <1>1 DEF ItTyped
  <2>2. PICK h \in Handles : \/ p = itHandles[h]
                             \/ Wraps(itPriv, itBackends, itHandles[h]) /\ p = Inner(itPriv, itBackends, itHandles[h])
    BY DEF Alive, Held
  <2>3. p # 0
    BY DEF Alive, Held
  <2> QED
    BY <1>1, <2>1, <2>2, <2>3, InvIsFlat
<1>4. \A b : Owners(b) = {p \in 1..Len(itPriv) : Alive(p) /\ itPriv[p] = b}
  BY <1>2, <1>3 DEF Owners
<1>5. ASSUME NEW b \in 1..Len(itBackends) PROVE Cardinality(Owners(b)) <= 1
  <2>1. CASE Owners(b) = {}
    BY <2>1, FS_EmptySet
  <2>2. CASE Owners(b) # {}
    <3>1. PICK p : p \in Owners(b)
      BY <2>2
    <3>2. Owners(b) = {p}
      BY <1>1, <1>4, <3>1 DEF Linked, LinkedOnce, ReplacedFree, WrappersFlat
    <3>3. Cardinality({p}) = 1
      BY FS_Singleton
    <3> QED
      BY <3>2, <3>3
  <2> QED
    BY <2>1, <2>2
<1>6. \A b \in 1..Len(itBackends) : itBackends[b].deleted <=> Owners(b) = {} /\ b \notin itReplaced
  BY <1>1, <1>4 DEF Owned
<1>7. DOMAIN itBackends = 1..Len(itBackends)
  BY <1>1 DEF ItTyped
<1> QED
  BY <1>5, <1>6, <1>7 DEF BackendsOwnedOnce

LEMMA ShownOnce ==
  ASSUME ItInv
  PROVE  ElementsShownOnce
<1> SUFFICES ASSUME NEW b \in 1..Len(itBackends)
             PROVE  LET x == itBackends[b]
                        all == Elements(x.todo, FittingFrom(x, 1))
                    IN  /\ IsPrefix(itShown[b], all)
                        /\ AtEnd(x) /\ ~x.first => itShown[b] = all /\ x.closed
                        /\ ~AtEnd(x) /\ ~x.first => Last(itShown[b]) = x.todo[x.pos]
  <2>1. DOMAIN itBackends = 1..Len(itBackends)
    BY DEF ItInv, ItTyped
  <2>2. \A b \in 1..Len(itBackends), h \in Handles :
          BackendOf(itHandles[h]) = b /\ ~AtEnd(itBackends[b]) =>
            CurrentOf(h) = Part(itBackends[itPriv[itHandles[h]]].which, itBackends[b].todo[itBackends[b].pos])
    BY DEF CurrentOf
  <2> QED
    BY <2>1, <2>2 DEF ElementsShownOnce
<1> DEFINE x == itBackends[b]
           P == ReadPositions(x)
           F == FittingFrom(x, 1)
           R == {j \in F : ~(j <= Reached(x))}
<1>1. x \in Backends /\ ReadSoFar(x, itShown[b])
  BY DEF ItInv, ItTyped, Read
<1>2. /\ Len(x.todo) \in Nat /\ F \in SUBSET (1..Len(x.todo)) /\ x.todo \in Seq(ItElements)
  BY <1>1, PositionsAre
<1>3. x.pos \in Nat /\ x.first \in BOOLEAN /\ Reached(x) \in Nat
  BY <1>1 DEF Backends, Reached
<1>4. F = P \cup R /\ P \in SUBSET (1..Len(x.todo)) /\ R \in SUBSET (1..Len(x.todo)) /\ Before(P, R)
  BY <1>2, <1>3 DEF ReadPositions, Before
<1>5. itShown[b] = Elements(x.todo, P)
  BY <1>1 DEF ReadSoFar
<1> HIDE DEF x, P, F, R
<1>6. /\ Elements(x.todo, P) \in Seq(ItElements) /\ Elements(x.todo, R) \in Seq(ItElements)
      /\ Elements(x.todo, P \cup R) = Elements(x.todo, P) \o Elements(x.todo, R)
  <2> DEFINE s == x.todo
  <2>1. s \in Seq(ItElements) /\ P \in SUBSET (1..Len(s)) /\ R \in SUBSET (1..Len(s)) /\ Before(P, R)
    BY <1>2, <1>4
  <2> HIDE DEF s
  <2>2. /\ Elements(s, P) \in Seq(ItElements) /\ Elements(s, R) \in Seq(ItElements)
        /\ Elements(s, P \cup R) = Elements(s, P) \o Elements(s, R)
    BY <2>1, ElementsJoin
  <2> QED
    BY <2>2 DEF s
<1>7. IsPrefix(itShown[b], Elements(x.todo, F))
  BY <1>4, <1>5, <1>6, PrefixOfJoin
<1>8. ASSUME AtEnd(x), ~x.first PROVE itShown[b] = Elements(x.todo, F) /\ x.closed
  <2>1. \A j \in F : j <= Reached(x)
    BY <1>2, <1>3, <1>8 DEF AtEnd, Reached
  <2>2. F = P
    BY <2>1 DEF P, F, ReadPositions
  <2> QED
    BY <1>1, <1>5, <1>8, <2>2 DEF ReadSoFar
<1>9. ASSUME ~AtEnd(x), ~x.first PROVE Last(itShown[b]) = x.todo[x.pos]
  <2> DEFINE A == P \ {x.pos}
             pos == x.pos
             s == x.todo
  <2>1. pos \in 1..Len(s) /\ Fits(x, s[pos]) /\ Reached(x) = pos
    BY <1>1, <1>2, <1>9 DEF ReadSoFar, AtEnd, Reached
  <2>2. pos \in P /\ \A j \in P : j <= pos
    BY <1>2, <2>1 DEF P, ReadPositions, FittingFrom
  <2>3. P = A \cup {pos} /\ A \in SUBSET (1..Len(s)) /\ Before(A, {pos}) /\ s \in Seq(ItElements)
    <3>1. \A j \in P : j \in 1..Len(s)
      BY <1>4
    <3>2. \A j \in P : j \in Nat
      BY <1>2, <3>1
    <3>3. \A j \in P : j # pos => j < pos
      BY <2>1, <2>2, <3>2
    <3>4. Before(A, {pos})
      BY <3>3 DEF Before
    <3>5. P = A \cup {pos} /\ A \in SUBSET (1..Len(s))
      BY <2>2, <3>1
    <3> QED
      BY <1>2, <3>4, <3>5
  <2> HIDE DEF A, pos, s
  <2>4. Elements(s, A \cup {pos}) = Append(Elements(s, A), s[pos])
    BY <2>1, <2>3, JoinPositions
  <2>5. Elements(s, A) \in Seq(ItElements) /\ s[pos] \in ItElements
    <3>1. {} \in SUBSET (1..Len(s)) /\ Before(A, {})
      BY DEF Before
    <3>2. /\ Elements(s, A) \in Seq(ItElements) /\ Elements(s, {}) \in Seq(ItElements)
      BY <2>3, <3>1, ElementsJoin
    <3> QED
      BY <2>1, <2>3, <3>2
  <2>6. \A q \in Seq(ItElements) : \A e \in ItElements : Last(Append(q, e)) = e
    BY DEF Last
  <2>7. itShown[b] = Append(Elements(s, A), s[pos])
    BY <1>5, <2>3, <2>4 DEF s
  <2>8. Last(itShown[b]) = s[pos]
    BY <2>5, <2>6, <2>7
  <2> QED
    BY <2>8 DEF pos, s
<1> QED
  BY <1>7, <1>8, <1>9 DEF x, F
-----------------------------------------------------------------------------
\* The types of everything, at once
LEMMA ItTypes ==
  ASSUME ItTyped
  PROVE  /\ Len(itBackends) \in Nat /\ Len(itPriv) \in Nat /\ Len(itShown) = Len(itBackends)
         /\ DOMAIN itBackends = 1..Len(itBackends) /\ DOMAIN itShown = 1..Len(itBackends) /\ DOMAIN itPriv = 1..Len(itPriv)
         /\ \A b \in 1..Len(itBackends) : itBackends[b] \in Backends /\ itShown[b] \in Seq(ItElements)
         /\ \A p \in 1..Len(itPriv) : itPriv[p] \in 0..Len(itBackends)
         /\ \A h \in Handles : itHandles[h] \in 0..Len(itPriv)
BY DEF ItTyped

\* A backend that nobody has read
LEMMA FreshBackend ==
  ASSUME NEW x \in Backends, x.first, x.pos = 1
  PROVE  ReadSoFar(x, <<>>)
<1>1. Len(x.todo) \in Nat /\ FittingFrom(x, 1) \in SUBSET (1..Len(x.todo))
  BY PositionsAre
<1>2. Reached(x) = 0
  BY DEF Reached
<1>3. ReadPositions(x) = {}
  BY <1>1, <1>2 DEF ReadPositions
<1> QED
  BY <1>1, <1>3, NoElements DEF ReadSoFar

LEMMA MadeBackends ==
  ASSUME NEW list \in Seq(ItElements)
  PROVE  /\ \A kind \in {"list", "nodes", "graph"}, filter \in ItTemplates \cup {EmptyStatement} :
              LET x == [ListBackend(list) EXCEPT !.kind = kind, !.filter = filter]
              IN  x \in Backends /\ x.first /\ x.pos = 1 /\ x.kind = kind /\ x.inner = 0 /\ ~x.deleted
         /\ ListBackend(list) \in Backends /\ ListBackend(list).first /\ ListBackend(list).pos = 1
         /\ ListBackend(list).kind = "list" /\ ListBackend(list).inner = 0 /\ ~ListBackend(list).deleted
BY DEF ListBackend, Backends

LEMMA MadeWrapper ==
  ASSUME NEW p \in Nat, NEW w \in Parts, NEW x, x = WrapperBackend(p, w)
  PROVE  x \in Backends /\ x.first /\ x.pos = 1 /\ x.kind = "wrapper" /\ x.inner = p /\ ~x.deleted
<1>1. <<>> \in Seq(ItElements)
  OBVIOUS
<1> QED
  BY <1>1 DEF WrapperBackend, ListBackend, Backends

LEMMA MadeDeleted ==
  /\ Deleted \in Backends /\ Deleted.first /\ Deleted.pos = 1
  /\ Deleted.kind = "list" /\ Deleted.inner = 0 /\ Deleted.deleted
<1>1. <<>> \in Seq(ItElements)
  OBVIOUS
<1> QED
  BY <1>1 DEF Deleted, ListBackend, Backends

LEMMA ItStarts == ItInit => ItInv
<1> SUFFICES ASSUME ItInit PROVE ItInv
  OBVIOUS
<1>1. Len(itPriv) = 0 /\ Len(itBackends) = 0 /\ 1..0 = {}
  BY DEF ItInit
<1>2. ItTyped
  BY <1>1 DEF ItInit, ItTyped
<1> QED
  BY <1>1, <1>2 DEF ItInit, ItInv, Linked, LinkedOnce, ReplacedFree, WrappersFlat, Owned, Read

\* What reading leaves alone: who is alive depends on the kinds and what is wrapped only.
LEMMA HeldSame ==
  ASSUME NEW handles, NEW privs, NEW backends, NEW privs2, NEW backends2,
         \A h \in Handles :
           /\ Wraps(privs2, backends2, handles[h]) <=> Wraps(privs, backends, handles[h])
           /\ Wraps(privs, backends, handles[h]) =>
                Inner(privs2, backends2, handles[h]) = Inner(privs, backends, handles[h])
  PROVE  \A p : Held(handles, privs2, backends2, p) <=> Held(handles, privs, backends, p)
BY DEF Held

\* Reading keeps the invariant, ...
LEMMA ReadOn ==
  ASSUME ItInv, UNCHANGED <<itGraph, itHandles, itPriv, itReplaced>>,
         itBackends' \in Seq(Backends), Len(itBackends') = Len(itBackends),
         itShown' \in Seq(Seq(ItElements)), Len(itShown') = Len(itBackends),
         \A b \in 1..Len(itBackends) :
           /\ itBackends'[b].kind = itBackends[b].kind /\ itBackends'[b].inner = itBackends[b].inner
           /\ itBackends'[b].deleted = itBackends[b].deleted
           /\ ReadSoFar(itBackends'[b], itShown'[b])
           /\ itBackends[b].deleted => itShown'[b] = itShown[b]
  PROVE  ItInv'
<1> USE DEF ItInv
<1>0. /\ Len(itBackends) \in Nat /\ Len(itPriv) \in Nat
      /\ \A p \in 1..Len(itPriv) : itPriv[p] \in 0..Len(itBackends)
      /\ \A h \in Handles : itHandles[h] \in 0..Len(itPriv)
  BY ItTypes
<1>1. ItTyped'
  BY DEF ItTyped
<1>2. \A p \in 0..Len(itPriv) :
        /\ Wraps(itPriv, itBackends', p) <=> Wraps(itPriv, itBackends, p)
        /\ Wraps(itPriv, itBackends, p) => Inner(itPriv, itBackends', p) = Inner(itPriv, itBackends, p)
  BY <1>0 DEF Wraps, Inner
<1>3. \A p : Held(itHandles, itPriv, itBackends', p) <=> Held(itHandles, itPriv, itBackends, p)
  BY <1>0, <1>2, HeldSame
<1>4. Linked'
  <2>1. \A b \in 1..Len(itBackends) : WrapperOK(itBackends[b])'
    <3> SUFFICES ASSUME NEW b \in 1..Len(itBackends) PROVE WrapperOK(itBackends[b])'
      OBVIOUS
    <3>1. WrapperOK(itBackends[b])
      BY DEF Linked, LinkedOnce, ReplacedFree, WrappersFlat
    <3>2. itBackends[b].kind = "wrapper" /\ itPriv[itBackends[b].inner] # 0 =>
            itPriv[itBackends[b].inner] \in 1..Len(itBackends)
      BY <1>0, <3>1 DEF WrapperOK
    <3> QED
      BY <3>1, <3>2 DEF WrapperOK
  <2>2. \A b \in itReplaced : itBackends'[b].kind = "list"
    BY DEF Linked, ReplacedFree, ItTyped
  <2>3. LinkedOnce'
    BY DEF Linked, LinkedOnce
  <2>4. ReplacedFree'
    BY <2>2 DEF Linked, ReplacedFree
  <2>5. WrappersFlat'
    BY <2>1 DEF WrappersFlat
  <2> QED
    BY <2>3, <2>4, <2>5 DEF Linked
<1>5. Owned'
  <2>1. \A p : Alive(p)' <=> Alive(p)
    BY <1>3 DEF Alive
  <2> SUFFICES ASSUME NEW b \in 1..Len(itBackends)
               PROVE  itBackends'[b].deleted <=>
                        b \notin itReplaced /\ \A p \in 1..Len(itPriv) : itPriv[p] = b => ~Alive(p)
    BY <2>1 DEF Owned
  <2> QED
    BY DEF Owned
<1>6. Read'
  BY DEF Read
<1> QED
  BY <1>1, <1>4, <1>5, <1>6

\* ... and so does what touches no iterator.
LEMMA NoIterator ==
  ASSUME ItInv, UNCHANGED <<itHandles, itPriv, itBackends, itShown, itReplaced>>, itGraph' \subseteq ItStatements
  PROVE  ItInv'
BY DEF ItInv, ItTyped, Linked, LinkedOnce, ReplacedFree, WrappersFlat, WrapperOK, Owned, Alive, Read
-----------------------------------------------------------------------------
\* A handle that alone keeps no Private alive
Spare(h) ==
  \A p \in 1..Len(itPriv) : Alive(p) =>
    \E g \in Handles \ {h} :
      p = itHandles[g] \/ (Wraps(itPriv, itBackends, itHandles[g]) /\ p = Inner(itPriv, itBackends, itHandles[g]))

LEMMA UnusedIsSpare ==
  ASSUME NEW h \in Handles, itHandles[h] = 0
  PROVE  Spare(h)
<1> SUFFICES ASSUME NEW p \in 1..Len(itPriv), Alive(p)
             PROVE  \E g \in Handles \ {h} :
                      \/ p = itHandles[g]
                      \/ Wraps(itPriv, itBackends, itHandles[g]) /\ p = Inner(itPriv, itBackends, itHandles[g])
  BY DEF Spare
<1>1. p # 0
  BY DEF Alive, Held
<1>2. PICK g \in Handles : \/ p = itHandles[g]
                           \/ Wraps(itPriv, itBackends, itHandles[g]) /\ p = Inner(itPriv, itBackends, itHandles[g])
  BY DEF Alive, Held
<1>3. g # h
  BY <1>1, <1>2 DEF Wraps
<1> QED
  BY <1>2, <1>3

\* A new Private for such a handle: the others live and die as before.
OneMore(h, v, q, handles, privs, backends) ==
  /\ q = Len(itPriv) + 1 /\ handles = [itHandles EXCEPT ![h] = q] /\ privs = Append(itPriv, v)
  /\ \A b \in 1..Len(itBackends) : backends[b].kind = itBackends[b].kind /\ backends[b].inner = itBackends[b].inner
  /\ v # 0 /\ backends[v].kind = "wrapper" => backends[v].inner \in 1..Len(itPriv) /\ Alive(backends[v].inner)

LEMMA OneMoreHeld ==
  ASSUME ItTyped, Linked, NEW h \in Handles, Spare(h),
         NEW v, NEW q, NEW handles, NEW privs, NEW backends, OneMore(h, v, q, handles, privs, backends)
  PROVE  /\ \A p \in 1..Len(itPriv) : Held(handles, privs, backends, p) <=> Alive(p)
         /\ Held(handles, privs, backends, q)
<1> USE DEF OneMore
<1>0. /\ Len(itBackends) \in Nat /\ Len(itPriv) \in Nat
      /\ \A p \in 1..Len(itPriv) : itPriv[p] \in 0..Len(itBackends)
      /\ \A g \in Handles : itHandles[g] \in 0..Len(itPriv)
  BY ItTypes
<1>1. /\ \A p \in 1..Len(itPriv) : privs[p] = itPriv[p]
      /\ privs[q] = v /\ q # 0 /\ \A p \in 1..Len(itPriv) : p # q /\ p # 0
  <2>1. itPriv \in Seq(0..Len(itBackends))
    BY DEF ItTyped
  <2> QED
    BY <1>0, <2>1
<1>2. handles[h] = q /\ \A g \in Handles \ {h} : handles[g] = itHandles[g]
  BY DEF ItTyped
<1>3. \A p \in 0..Len(itPriv) :
        /\ Wraps(privs, backends, p) <=> Wraps(itPriv, itBackends, p)
        /\ Wraps(itPriv, itBackends, p) => Inner(privs, backends, p) = Inner(itPriv, itBackends, p)
  BY <1>0, <1>1 DEF Wraps, Inner
<1>4. ASSUME NEW p \in 1..Len(itPriv), Held(handles, privs, backends, p) PROVE Alive(p)
  <2>1. PICK g \in Handles : \/ p = handles[g]
                             \/ Wraps(privs, backends, handles[g]) /\ p = Inner(privs, backends, handles[g])
    BY <1>4 DEF Held
  <2>2. CASE g = h
    <3>1. Wraps(privs, backends, q) /\ p = Inner(privs, backends, q)
      BY <1>1, <1>2, <2>1, <2>2
    <3> QED
      BY <1>1, <3>1 DEF Wraps, Inner
  <2>3. CASE g # h
    BY <1>0, <1>1, <1>2, <1>3, <2>1, <2>3 DEF Alive, Held
  <2> QED
    BY <2>2, <2>3
<1>5. ASSUME NEW p \in 1..Len(itPriv), Alive(p) PROVE Held(handles, privs, backends, p)
  <2>1. PICK g \in Handles \ {h} :
          \/ p = itHandles[g]
          \/ Wraps(itPriv, itBackends, itHandles[g]) /\ p = Inner(itPriv, itBackends, itHandles[g])
    BY <1>5 DEF Spare
  <2> QED
    BY <1>0, <1>1, <1>2, <1>3, <2>1 DEF Held
<1>6. Held(handles, privs, backends, q)
  BY <1>1, <1>2 DEF Held
<1> QED
  BY <1>4, <1>5, <1>6

\* A new iterator with a backend of its own
LEMMA OneMoreBackend ==
  ASSUME ItInv, NEW h \in Handles, Spare(h), NEW x \in Backends,
         x.first, x.pos = 1, ~x.deleted, x.kind # "wrapper" => x.inner = 0,
         x.kind = "wrapper" => /\ x.inner \in 1..Len(itPriv) /\ Alive(x.inner)
                               /\ itPriv[x.inner] # 0 => itBackends[itPriv[x.inner]].kind # "wrapper",
         itBackends' = Append(itBackends, x), itShown' = Append(itShown, <<>>),
         itPriv' = Append(itPriv, Len(itBackends) + 1),
         itHandles' = [itHandles EXCEPT ![h] = Len(itPriv) + 1],
         UNCHANGED <<itGraph, itReplaced>>
  PROVE  ItInv'
<1> DEFINE n == Len(itBackends) + 1
           q == Len(itPriv) + 1
           Alive2(p) == Held(itHandles', itPriv', itBackends', p)
<1>0. /\ Len(itBackends) \in Nat /\ Len(itPriv) \in Nat /\ ItTyped /\ Linked /\ Owned /\ Read
      /\ \A p \in 1..Len(itPriv) : itPriv[p] \in 0..Len(itBackends)
      /\ \A g \in Handles : itHandles[g] \in 0..Len(itPriv)
      /\ itBackends \in Seq(Backends) /\ itPriv \in Seq(0..Len(itBackends)) /\ itShown \in Seq(Seq(ItElements))
      /\ Len(itShown) = Len(itBackends) /\ itHandles \in [Handles -> 0..Len(itPriv)]
  BY ItTypes DEF ItInv, ItTyped
<1>1. /\ itBackends' \in Seq(Backends) /\ Len(itBackends') = n
      /\ itBackends'[n] = x /\ \A b \in 1..Len(itBackends) : itBackends'[b] = itBackends[b]
  BY <1>0
<1>2. /\ itShown' \in Seq(Seq(ItElements)) /\ Len(itShown') = n
      /\ itShown'[n] = <<>> /\ \A b \in 1..Len(itBackends) : itShown'[b] = itShown[b]
  <2>1. <<>> \in Seq(ItElements)
    OBVIOUS
  <2> QED
    BY <1>0, <2>1
<1>3. /\ itPriv' \in Seq(0..n) /\ Len(itPriv') = q
      /\ itPriv'[q] = n /\ \A p \in 1..Len(itPriv) : itPriv'[p] = itPriv[p]
  <2>1. itPriv \in Seq(0..n) /\ n \in 0..n
    BY <1>0
  <2> QED
    BY <1>0, <2>1
<1>4. itHandles' \in [Handles -> 0..q]
  BY <1>0
<1>5. /\ \A b \in 1..n : b \in 1..Len(itBackends) \/ b = n
      /\ \A p \in 1..q : p \in 1..Len(itPriv) \/ p = q
      /\ n \notin 0..Len(itBackends) /\ q \notin 1..Len(itPriv) /\ n # 0 /\ q \in 1..q
  BY <1>0
<1>6. ItTyped'
  <2>1. itReplaced' \in SUBSET (1..n)
    BY <1>0 DEF ItTyped
  <2> QED
    BY <1>0, <1>1, <1>2, <1>3, <1>4, <2>1 DEF ItTyped
<1>7. n # 0 /\ itBackends'[n].kind = "wrapper" => itBackends'[n].inner \in 1..Len(itPriv) /\ Alive(itBackends'[n].inner)
  BY <1>1
<1>8. (\A p \in 1..Len(itPriv) : Alive2(p) <=> Alive(p)) /\ Alive2(q)
  <2> DEFINE handles == itHandles'
             privs == itPriv'
             backends == itBackends'
  <2>1. \A b \in 1..Len(itBackends) : backends[b].kind = itBackends[b].kind /\ backends[b].inner = itBackends[b].inner
    BY <1>1
  <2>2. /\ privs = Append(itPriv, n) /\ handles = [itHandles EXCEPT ![h] = q] /\ q = Len(itPriv) + 1
        /\ n # 0 /\ backends[n].kind = "wrapper" => backends[n].inner \in 1..Len(itPriv) /\ Alive(backends[n].inner)
        /\ ItTyped /\ Linked /\ Spare(h) /\ h \in Handles
    BY <1>0, <1>7
  <2>3. OneMore(h, n, q, handles, privs, backends)
    BY <2>1, <2>2 DEF OneMore
  <2> HIDE DEF n, q, handles, privs, backends
  <2>4. /\ \A p \in 1..Len(itPriv) : Held(handles, privs, backends, p) <=> Alive(p)
        /\ Held(handles, privs, backends, q)
    BY <2>2, <2>3, OneMoreHeld
  <2> QED
    BY <2>4 DEF handles, privs, backends
<1> HIDE DEF n, q
<1>9. Linked'
  <2>1. \A p, r \in 1..q : itPriv'[p] = itPriv'[r] /\ itPriv'[p] # 0 => p = r
    <3>1. \A p \in 1..q : p = q \/ (p \in 1..Len(itPriv) /\ itPriv'[p] = itPriv[p] /\ itPriv'[p] # n)
      <4>1. \A p \in 1..Len(itPriv) : itPriv[p] \in 0..Len(itBackends) /\ itPriv'[p] = itPriv[p]
        BY <1>0, <1>3
      <4>2. \A p \in 1..q : p = q \/ p \in 1..Len(itPriv)
        BY <1>5
      <4>3. n \notin 0..Len(itBackends)
        BY <1>5
      <4> QED
        BY <4>1, <4>2, <4>3
    <3>2. \A p, r \in 1..Len(itPriv) : itPriv[p] = itPriv[r] /\ itPriv[p] # 0 => p = r
      <4>1. Linked
        BY <1>0
      <4> QED
        BY <4>1 DEF Linked, LinkedOnce
    <3>3. itPriv'[q] = n
      BY <1>3
    <3> SUFFICES ASSUME NEW p \in 1..q, NEW r \in 1..q, itPriv'[p] = itPriv'[r], itPriv'[p] # 0
                 PROVE  p = r
      OBVIOUS
    <3>4. CASE p = q \/ r = q
      BY <3>1, <3>3, <3>4
    <3>5. CASE p # q /\ r # q
      <4>1. p \in 1..Len(itPriv) /\ r \in 1..Len(itPriv) /\ itPriv'[p] = itPriv[p] /\ itPriv'[r] = itPriv[r]
        BY <3>1, <3>5
      <4> QED
        BY <3>2, <4>1
    <3> QED
      BY <3>4, <3>5
  <2>2. \A b \in itReplaced : itBackends'[b].kind = "list" /\ \A p \in 1..q : itPriv'[p] # b
    <3>1. \A b \in itReplaced : b \in 1..Len(itBackends) /\ b # n
      BY <1>0, <1>5 DEF ItTyped
    <3> QED
      BY <1>0, <1>1, <1>3, <1>5, <3>1 DEF Linked, LinkedOnce, ReplacedFree, WrappersFlat
  <2>3. ASSUME NEW b \in 1..n PROVE WrapperOK(itBackends[b])'
    <3>1. CASE b \in 1..Len(itBackends)
      <4>1. WrapperOK(itBackends[b])
        BY <1>0, <3>1 DEF Linked, LinkedOnce, ReplacedFree, WrappersFlat
      <4>2. itBackends[b].kind = "wrapper" /\ itPriv[itBackends[b].inner] # 0 =>
              itPriv[itBackends[b].inner] \in 1..Len(itBackends)
        BY <1>0, <4>1 DEF WrapperOK
      <4>3. itBackends'[b] = itBackends[b]
        BY <1>1, <3>1
      <4>4. \A p \in 1..Len(itPriv) : p \in 1..Len(itPriv')
        BY <1>0, <1>3 DEF q
      <4> QED
        BY <1>1, <1>3, <4>1, <4>2, <4>3, <4>4 DEF WrapperOK
    <3>2. CASE b = n
      <4>1. x.kind = "wrapper" /\ itPriv[x.inner] # 0 => itPriv[x.inner] \in 1..Len(itBackends)
        BY <1>0
      <4>2. \A p \in 1..Len(itPriv) : p \in 1..Len(itPriv')
        BY <1>0, <1>3 DEF q
      <4> QED
        BY <1>1, <1>3, <3>2, <4>1, <4>2 DEF WrapperOK
    <3> QED
      BY <1>5, <3>1, <3>2
  <2>4. Len(itPriv') = q /\ Len(itBackends') = n /\ itReplaced' = itReplaced
    BY <1>1, <1>3
  <2> HIDE DEF Alive2
  <2>5. LinkedOnce'
    BY <2>1, <2>4 DEF LinkedOnce
  <2>6. ReplacedFree'
    BY <2>2, <2>4 DEF ReplacedFree
  <2>7. WrappersFlat'
    BY <2>3, <2>4 DEF WrappersFlat
  <2> QED
    BY <2>5, <2>6, <2>7 DEF Linked
<1>10. Owned'
  <2> SUFFICES ASSUME NEW b \in 1..n
               PROVE  itBackends'[b].deleted <=>
                        b \notin itReplaced /\ \A p \in 1..q : itPriv'[p] = b => ~Alive2(p)
    BY <1>1, <1>3 DEF Owned, Alive
  <2>1. CASE b \in 1..Len(itBackends)
    <3>1. \A p \in 1..q : itPriv'[p] = b <=> p \in 1..Len(itPriv) /\ itPriv[p] = b
      BY <1>3, <1>5, <2>1
    <3>2. \A p \in 1..Len(itPriv) : p \in 1..q
      BY <1>0 DEF q
    <3>3. itBackends[b].deleted <=> b \notin itReplaced /\ \A p \in 1..Len(itPriv) : itPriv[p] = b => ~Alive(p)
      BY <1>0, <2>1 DEF Owned
    <3> QED
      BY <1>1, <1>8, <2>1, <3>1, <3>2, <3>3
  <2>2. CASE b = n
    <3>1. itPriv'[q] = n /\ q \in 1..q /\ Alive2(q) /\ ~itBackends'[n].deleted
      BY <1>1, <1>3, <1>5, <1>8
    <3> QED
      BY <2>2, <3>1
  <2> QED
    BY <1>5, <2>1, <2>2
<1>11. Read'
  <2> SUFFICES ASSUME NEW b \in 1..n
               PROVE  ReadSoFar(itBackends'[b], itShown'[b]) /\ (itBackends'[b].deleted => itShown'[b] = <<>>)
    BY <1>1 DEF Read
  <2>1. CASE b \in 1..Len(itBackends)
    BY <1>0, <1>1, <1>2, <2>1 DEF Read
  <2>2. CASE b = n
    BY <1>1, <1>2, <2>2, FreshBackend
  <2> QED
    BY <1>5, <2>1, <2>2
<1> QED
  BY <1>6, <1>9, <1>10, <1>11 DEF ItInv

\* An iterator without a backend
LEMMA OneMoreInvalid ==
  ASSUME ItInv, NEW h \in Handles, invalidIterator(h)
  PROVE  ItInv'
<1> DEFINE q == Len(itPriv) + 1
           Alive2(p) == Held(itHandles', itPriv', itBackends, p)
<1>0. /\ Len(itBackends) \in Nat /\ Len(itPriv) \in Nat /\ ItTyped /\ Linked /\ Owned /\ Read
      /\ \A p \in 1..Len(itPriv) : itPriv[p] \in 0..Len(itBackends)
      /\ itPriv \in Seq(0..Len(itBackends)) /\ itHandles \in [Handles -> 0..Len(itPriv)]
  BY ItTypes DEF ItInv, ItTyped
<1>1. /\ itPriv' = Append(itPriv, 0) /\ itHandles[h] = 0 /\ itHandles' = [itHandles EXCEPT ![h] = Len(itPriv')]
      /\ UNCHANGED <<itGraph, itBackends, itShown, itReplaced>>
  BY DEF invalidIterator
<1>2. /\ itPriv' \in Seq(0..Len(itBackends)) /\ Len(itPriv') = q
      /\ itPriv'[q] = 0 /\ \A p \in 1..Len(itPriv) : itPriv'[p] = itPriv[p]
  <2>1. 0 \in 0..Len(itBackends)
    BY <1>0
  <2> QED
    BY <1>0, <1>1, <2>1
<1>3. itHandles' = [itHandles EXCEPT ![h] = q] /\ itHandles' \in [Handles -> 0..q]
  BY <1>0, <1>1, <1>2
<1>4. \A p \in 1..q : p \in 1..Len(itPriv) \/ p = q
  BY <1>0
<1>5. \A p \in 1..Len(itPriv) : Alive2(p) <=> Alive(p)
  <2> DEFINE handles == itHandles'
             privs == itPriv'
  <2>1. privs = Append(itPriv, 0) /\ handles = [itHandles EXCEPT ![h] = q] /\ q = Len(itPriv) + 1
    BY <1>1, <1>3
  <2>2. Spare(h) /\ ItTyped /\ Linked /\ h \in Handles
    BY <1>0, <1>1, UnusedIsSpare
  <2>4. OneMore(h, 0, q, handles, privs, itBackends)
    BY <2>1 DEF OneMore
  <2> HIDE DEF q, handles, privs
  <2>3. \A p \in 1..Len(itPriv) : Held(handles, privs, itBackends, p) <=> Alive(p)
    BY <2>2, <2>4, OneMoreHeld
  <2> QED
    BY <2>3 DEF handles, privs
<1>6. ItTyped'
  BY <1>0, <1>1, <1>2, <1>3 DEF ItTyped
<1>7. \A p \in 1..Len(itPriv) : p \in 1..q
  BY <1>0
<1> HIDE DEF q, Alive2
<1>8. Linked'
  <2>1. \A p, r \in 1..q : itPriv'[p] = itPriv'[r] /\ itPriv'[p] # 0 => p = r
    <3>1. \A p \in 1..q : itPriv'[p] # 0 => p \in 1..Len(itPriv) /\ itPriv'[p] = itPriv[p]
      BY <1>2, <1>4
    <3>2. \A p, r \in 1..Len(itPriv) : itPriv[p] = itPriv[r] /\ itPriv[p] # 0 => p = r
      BY <1>0 DEF Linked, LinkedOnce, ReplacedFree, WrappersFlat
    <3> QED
      BY <3>1, <3>2
  <2>2. \A b \in itReplaced : itBackends[b].kind = "list" /\ \A p \in 1..q : itPriv'[p] # b
    <3>1. \A b \in itReplaced : b # 0
      BY <1>0 DEF ItTyped
    <3> QED
      BY <1>0, <1>2, <1>4, <3>1 DEF Linked, LinkedOnce, ReplacedFree, WrappersFlat
  <2>3. ASSUME NEW b \in 1..Len(itBackends) PROVE WrapperOK(itBackends[b])'
    <3>1. WrapperOK(itBackends[b])
      BY <1>0 DEF Linked, LinkedOnce, ReplacedFree, WrappersFlat
    <3> QED
      BY <1>1, <1>2, <1>7, <3>1 DEF WrapperOK
  <2>4. LinkedOnce'
    BY <1>2, <2>1 DEF LinkedOnce
  <2>5. ReplacedFree'
    BY <1>1, <1>2, <2>2 DEF ReplacedFree
  <2>6. WrappersFlat'
    BY <1>1, <2>3 DEF WrappersFlat
  <2> QED
    BY <2>4, <2>5, <2>6 DEF Linked
<1>9. Owned'
  <2> SUFFICES ASSUME NEW b \in 1..Len(itBackends)
               PROVE  itBackends[b].deleted <=>
                        b \notin itReplaced /\ \A p \in 1..q : itPriv'[p] = b => ~Alive2(p)
    <3>1. \A p : Alive(p)' <=> Alive2(p)
      BY <1>1 DEF Alive, Alive2
    <3>2. Len(itPriv') = q /\ itBackends' = itBackends /\ itReplaced' = itReplaced
      BY <1>1, <1>2
    <3> QED
      BY <3>1, <3>2 DEF Owned
  <2>1. \A p \in 1..q : itPriv'[p] = b <=> p \in 1..Len(itPriv) /\ itPriv[p] = b
    BY <1>0, <1>2, <1>4
  <2>2. itBackends[b].deleted <=> b \notin itReplaced /\ \A p \in 1..Len(itPriv) : itPriv[p] = b => ~Alive(p)
    BY <1>0 DEF Owned
  <2> QED
    BY <1>5, <1>7, <2>1, <2>2
<1>10. Read'
  BY <1>0, <1>1 DEF Read
<1> QED
  BY <1>6, <1>8, <1>9, <1>10 DEF ItInv

\* A Private gets another list: what it had is deleted by nobody.
LEMMA BackendReplaced ==
  ASSUME ItInv, NEW x \in Backends, x.first, x.pos = 1, ~x.deleted, x.kind = "list", x.inner = 0,
         NEW p \in 1..Len(itPriv), Alive(p), itPriv[p] # 0 => itBackends[itPriv[p]].kind = "list",
         itBackends' = Append(itBackends, x), itShown' = Append(itShown, <<>>),
         itPriv' = [itPriv EXCEPT ![p] = Len(itBackends) + 1],
         itReplaced' = itReplaced \cup ({itPriv[p]} \ {0}),
         UNCHANGED <<itGraph, itHandles>>
  PROVE  ItInv'
<1> DEFINE n == Len(itBackends) + 1
           Alive2(r) == Held(itHandles, itPriv', itBackends', r)
<1>0. /\ Len(itBackends) \in Nat /\ Len(itPriv) \in Nat /\ ItTyped /\ Linked /\ Owned /\ Read
      /\ \A r \in 1..Len(itPriv) : itPriv[r] \in 0..Len(itBackends)
      /\ \A g \in Handles : itHandles[g] \in 0..Len(itPriv)
      /\ itBackends \in Seq(Backends) /\ itPriv \in Seq(0..Len(itBackends)) /\ itShown \in Seq(Seq(ItElements))
      /\ Len(itShown) = Len(itBackends) /\ itReplaced \in SUBSET (1..Len(itBackends))
  BY ItTypes DEF ItInv, ItTyped
<1>1. /\ itBackends' \in Seq(Backends) /\ Len(itBackends') = n
      /\ itBackends'[n] = x /\ \A b \in 1..Len(itBackends) : itBackends'[b] = itBackends[b]
  BY <1>0
<1>2. /\ itShown' \in Seq(Seq(ItElements)) /\ Len(itShown') = n
      /\ itShown'[n] = <<>> /\ \A b \in 1..Len(itBackends) : itShown'[b] = itShown[b]
  <2>1. <<>> \in Seq(ItElements)
    OBVIOUS
  <2> QED
    BY <1>0, <2>1
<1>3. /\ itPriv' \in Seq(0..n) /\ Len(itPriv') = Len(itPriv)
      /\ itPriv'[p] = n /\ \A r \in 1..Len(itPriv) : r # p => itPriv'[r] = itPriv[r]
  <2>1. itPriv \in Seq(0..n) /\ n \in 0..n
    BY <1>0
  <2> QED
    BY <1>0, <2>1
<1>4. /\ \A b \in 1..n : b \in 1..Len(itBackends) \/ b = n
      /\ n \notin 0..Len(itBackends) /\ n # 0 /\ p # 0 /\ \A b \in 1..Len(itBackends) : b \in 1..n
  BY <1>0
<1>5. itReplaced' \in SUBSET (1..n)
  <2>1. itPriv[p] # 0 => itPriv[p] \in 1..n
    BY <1>0
  <2>2. \A b \in itReplaced : b \in 1..n
    BY <1>0, <1>4
  <2> HIDE DEF n
  <2> QED
    BY <2>1, <2>2
<1>6. ItTyped'
  BY <1>0, <1>1, <1>2, <1>3, <1>5 DEF ItTyped
<1> HIDE DEF n
<1>7. \A r : Alive2(r) <=> Alive(r)
  <2> DEFINE privs == itPriv'
             backends == itBackends'
  <2>1. ASSUME NEW r \in 0..Len(itPriv)
        PROVE  /\ Wraps(privs, backends, r) <=> Wraps(itPriv, itBackends, r)
               /\ Wraps(itPriv, itBackends, r) => Inner(privs, backends, r) = Inner(itPriv, itBackends, r)
    <3>1. CASE r = p
      BY <1>1, <1>3, <3>1 DEF Wraps
    <3>2. CASE r # p /\ r # 0
      BY <1>0, <1>1, <1>3, <3>2 DEF Wraps, Inner
    <3>3. CASE r = 0
      BY <3>3 DEF Wraps
    <3> QED
      BY <3>1, <3>2, <3>3
  <2> HIDE DEF privs, backends
  <2>2. \A r : Held(itHandles, privs, backends, r) <=> Held(itHandles, itPriv, itBackends, r)
    BY <1>0, <2>1, HeldSame
  <2> QED
    BY <2>2 DEF Alive, privs, backends
<1> HIDE DEF Alive2
<1>8. Linked'
  <2>1. \A q, r \in 1..Len(itPriv) : itPriv'[q] = itPriv'[r] /\ itPriv'[q] # 0 => q = r
    BY <1>0, <1>3, <1>4 DEF Linked, LinkedOnce, ReplacedFree, WrappersFlat
  <2>2. ASSUME NEW b \in itReplaced' PROVE itBackends'[b].kind = "list" /\ \A r \in 1..Len(itPriv) : itPriv'[r] # b
    <3>1. b \in 1..Len(itBackends) /\ b # n
      BY <1>0, <1>4
    <3>2. CASE b \in itReplaced
      BY <1>0, <1>1, <1>3, <3>1, <3>2 DEF Linked, LinkedOnce, ReplacedFree, WrappersFlat
    <3>3. CASE b = itPriv[p] /\ b # 0
      <4>1. itBackends'[b].kind = "list"
        BY <1>1, <3>1, <3>3
      <4>2. \A r \in 1..Len(itPriv) : r # p => itPriv[r] # b
        BY <1>0, <3>3 DEF Linked, LinkedOnce, ReplacedFree, WrappersFlat
      <4>3. \A r \in 1..Len(itPriv) : itPriv'[r] # b
        BY <1>3, <3>1, <4>2
      <4> QED
        BY <4>1, <4>3
    <3> QED
      BY <3>2, <3>3
  <2>3. ASSUME NEW b \in 1..n PROVE WrapperOK(itBackends[b])'
    <3>1. CASE b \in 1..Len(itBackends)
      <4>1. WrapperOK(itBackends[b])
        BY <1>0, <3>1 DEF Linked, LinkedOnce, ReplacedFree, WrappersFlat
      <4>2. \A r \in 1..Len(itPriv) : r # p /\ itPriv[r] # 0 => itPriv[r] \in 1..Len(itBackends)
        <5>1. ItTyped
          BY <1>0
        <5>2. Len(itBackends) \in Nat /\ \A r \in 1..Len(itPriv) : itPriv[r] \in 0..Len(itBackends)
          BY <5>1, ItTypes
        <5> QED
          BY <5>2
      <4>3. itBackends'[b] = itBackends[b] /\ itBackends'[itPriv'[p]].kind = "list"
        BY <1>1, <1>3, <3>1
      <4> DEFINE i == itBackends[b].inner
      <4>4. itBackends[b].kind = "wrapper" /\ itPriv'[i] # 0 => itBackends'[itPriv'[i]].kind # "wrapper"
        <5> SUFFICES ASSUME itBackends[b].kind = "wrapper", itPriv'[i] # 0
                     PROVE  itBackends'[itPriv'[i]].kind # "wrapper"
          OBVIOUS
        <5>1. i \in 1..Len(itPriv) /\ (itPriv[i] # 0 => itBackends[itPriv[i]].kind # "wrapper")
          BY <4>1 DEF WrapperOK
        <5>2. CASE i = p
          BY <4>3, <5>2
        <5>3. CASE i # p
          <6>1. itPriv'[i] = itPriv[i] /\ itPriv[i] \in 1..Len(itBackends)
            BY <1>3, <4>2, <5>1, <5>3
          <6> QED
            BY <1>1, <5>1, <6>1
        <5> QED
          BY <5>2, <5>3
      <4> QED
        BY <1>3, <4>1, <4>3, <4>4 DEF WrapperOK
    <3>2. CASE b = n
      BY <1>1, <3>2 DEF WrapperOK
    <3> QED
      BY <1>4, <3>1, <3>2
  <2>4. Len(itPriv') = Len(itPriv) /\ Len(itBackends') = n
    BY <1>1, <1>3
  <2>5. LinkedOnce'
    BY <2>1, <2>4 DEF LinkedOnce
  <2>6. ReplacedFree'
    BY <2>2, <2>4 DEF ReplacedFree
  <2>7. WrappersFlat'
    BY <2>3, <2>4 DEF WrappersFlat
  <2> QED
    BY <2>5, <2>6, <2>7 DEF Linked
<1>9. Owned'
  <2> SUFFICES ASSUME NEW b \in 1..n
               PROVE  itBackends'[b].deleted <=>
                        b \notin itReplaced' /\ \A r \in 1..Len(itPriv) : itPriv'[r] = b => ~Alive2(r)
    BY <1>1, <1>3 DEF Owned, Alive, Alive2
  <2>1. CASE b \in 1..Len(itBackends) /\ b # itPriv[p]
    <3>1. \A r \in 1..Len(itPriv) : itPriv'[r] = b <=> itPriv[r] = b
      BY <1>3, <1>4, <2>1
    <3>2. itBackends[b].deleted <=> b \notin itReplaced /\ \A r \in 1..Len(itPriv) : itPriv[r] = b => ~Alive(r)
      BY <1>0, <2>1 DEF Owned
    <3>3. itBackends'[b].deleted = itBackends[b].deleted /\ (b \in itReplaced' <=> b \in itReplaced)
      BY <1>1, <2>1
    <3> QED
      BY <1>7, <3>1, <3>2, <3>3
  <2>2. CASE b \in 1..Len(itBackends) /\ b = itPriv[p]
    <3>1. ~itBackends[b].deleted
      BY <1>0, <2>2 DEF Owned
    <3>2. b \in itReplaced' /\ itBackends'[b] = itBackends[b]
      BY <1>0, <1>1, <2>2
    <3> QED
      BY <3>1, <3>2
  <2>3. CASE b = n
    <3>1. itPriv'[p] = n /\ Alive2(p) /\ ~itBackends'[n].deleted
      BY <1>1, <1>3, <1>7
    <3> QED
      BY <2>3, <3>1
  <2> QED
    BY <1>4, <2>1, <2>2, <2>3
<1>10. Read'
  <2> SUFFICES ASSUME NEW b \in 1..n
               PROVE  ReadSoFar(itBackends'[b], itShown'[b]) /\ (itBackends'[b].deleted => itShown'[b] = <<>>)
    BY <1>1 DEF Read
  <2>1. CASE b \in 1..Len(itBackends)
    BY <1>0, <1>1, <1>2, <2>1 DEF Read
  <2>2. CASE b = n
    BY <1>1, <1>2, <2>2, FreshBackend
  <2> QED
    BY <1>4, <2>1, <2>2
<1> QED
  BY <1>6, <1>8, <1>9, <1>10 DEF ItInv

\* A handle that takes what another one has, or nothing, may be the end of Privates.
LEMMA HandlesMove ==
  ASSUME ItInv, itHandles' \in [Handles -> 0..Len(itPriv)],
         \A h \in Handles : itHandles'[h] = 0 \/ \E g \in Handles : itHandles'[h] = itHandles[g],
         itBackends' = Release(itHandles', itPriv, itBackends),
         itShown' = ShownAfter(itBackends'),
         UNCHANGED <<itGraph, itPriv, itReplaced>>
  PROVE  ItInv'
<1> DEFINE handles == itHandles'
           Still(p) == Held(handles, itPriv, itBackends, p)
           gone == {p \in 1..Len(itPriv) : Alive(p) /\ ~Still(p)}
           dead == {itPriv[p] : p \in gone} \ {0}
           Alive2(p) == Held(handles, itPriv, itBackends', p)
<1>0. /\ Len(itBackends) \in Nat /\ Len(itPriv) \in Nat /\ ItTyped /\ Linked /\ Owned /\ Read
      /\ \A p \in 1..Len(itPriv) : itPriv[p] \in 0..Len(itBackends)
      /\ \A g \in Handles : itHandles[g] \in 0..Len(itPriv)
      /\ \A g \in Handles : handles[g] \in 0..Len(itPriv)
      /\ \A b \in 1..Len(itBackends) : itBackends[b] \in Backends /\ itShown[b] \in Seq(ItElements)
      /\ DOMAIN itBackends = 1..Len(itBackends)
      /\ itReplaced \in SUBSET (1..Len(itBackends))
  <2>1. ItTyped /\ Linked /\ Owned /\ Read
    BY DEF ItInv
  <2>2. itReplaced \in SUBSET (1..Len(itBackends))
    BY <2>1 DEF ItTyped
  <2> QED
    BY <2>1, <2>2, ItTypes
<1>1. \A p \in 0..Len(itPriv) : Wraps(itPriv, itBackends, p) =>
        /\ Inner(itPriv, itBackends, p) \in 1..Len(itPriv)
        /\ ~Wraps(itPriv, itBackends, Inner(itPriv, itBackends, p))
  BY <1>0, InvIsFlat
<1>2. Flat(itHandles, itPriv, itBackends) /\ Flat(handles, itPriv, itBackends)
  <2>1. 0 \notin 1..Len(itPriv)
    BY <1>0
  <2> QED
    BY <1>0, <1>1, <2>1 DEF Flat
<1>3. \A p : p \in LivePrivs(itHandles, itPriv, itBackends) <=> Alive(p)
  BY <1>2, LiveAreHeld DEF Alive
<1>4. \A p : p \in LivePrivs(handles, itPriv, itBackends) <=> Still(p)
  BY <1>2, LiveAreHeld
<1>5. \A p : Still(p) => Alive(p)
  <2>1. ASSUME NEW p, Still(p) PROVE Alive(p)
    <3>1. p # 0
      BY <2>1 DEF Held
    <3>2. PICK h \in Handles : \/ p = handles[h]
                               \/ Wraps(itPriv, itBackends, handles[h]) /\ p = Inner(itPriv, itBackends, handles[h])
      BY <2>1 DEF Held
    <3>3. handles[h] # 0
      BY <3>1, <3>2 DEF Wraps
    <3>4. PICK g \in Handles : handles[h] = itHandles[g]
      BY <3>3
    <3> QED
      BY <3>1, <3>2, <3>4 DEF Alive, Held
  <2> QED
    BY <2>1
<1>6. \A p : Alive(p) => p \in 1..Len(itPriv)
  <2>1. ASSUME NEW p, Alive(p) PROVE p \in 1..Len(itPriv)
    <3>1. p # 0
      BY <2>1 DEF Alive, Held
    <3>2. PICK h \in Handles : \/ p = itHandles[h]
                               \/ Wraps(itPriv, itBackends, itHandles[h]) /\ p = Inner(itPriv, itBackends, itHandles[h])
      BY <2>1 DEF Alive, Held
    <3> QED
      BY <1>0, <1>1, <3>1, <3>2
  <2> QED
    BY <2>1
<1>7. LivePrivs(itHandles, itPriv, itBackends) \ LivePrivs(handles, itPriv, itBackends) = gone
  <2> HIDE DEF handles, Still
  <2> QED
    BY <1>3, <1>4, <1>6
<1>8. \E closing :
        itBackends' = [b \in DOMAIN itBackends |->
          IF b \in dead THEN Deleted ELSE [itBackends[b] EXCEPT !.closed = @ \/ b \in closing]]
  <2> HIDE DEF gone, handles
  <2>1. itBackends' = Release(handles, itPriv, itBackends)
    BY DEF handles
  <2> DEFINE closing == dead \cup ({BackendOf(p) : p \in gone} \ {0})
  <2>2. itBackends' = [b \in DOMAIN itBackends |->
          IF b \in dead THEN Deleted ELSE [itBackends[b] EXCEPT !.closed = @ \/ b \in closing]]
    BY <1>7, <2>1 DEF Release
  <2> HIDE DEF closing
  <2> QED
    BY <2>2
<1> HIDE DEF handles, Still, gone
<1>9. PICK closing :
        itBackends' = [b \in DOMAIN itBackends |->
          IF b \in dead THEN Deleted ELSE [itBackends[b] EXCEPT !.closed = @ \/ b \in closing]]
  BY <1>8
<1> HIDE DEF dead
<1>10. /\ DOMAIN itBackends' = 1..Len(itBackends)
       /\ \A b \in 1..Len(itBackends) : b \in dead => itBackends'[b] = Deleted
       /\ \A b \in 1..Len(itBackends) : b \notin dead =>
            itBackends'[b] = [itBackends[b] EXCEPT !.closed = @ \/ (b \in closing)]
  BY <1>0, <1>9
<1>11. ASSUME NEW b \in 1..Len(itBackends), b \notin dead
       PROVE  /\ itBackends'[b] \in Backends /\ itBackends'[b].kind = itBackends[b].kind
              /\ itBackends'[b].inner = itBackends[b].inner /\ itBackends'[b].deleted = itBackends[b].deleted
              /\ ReadSoFar(itBackends'[b], itShown[b])
  <2> DEFINE x == itBackends[b]
             c == b \in closing
  <2>1. itBackends'[b] = [x EXCEPT !.closed = @ \/ c] /\ x \in Backends /\ ReadSoFar(x, itShown[b]) /\ c \in BOOLEAN
    BY <1>0, <1>10, <1>11 DEF Read
  <2> HIDE DEF x, c
  <2>2. ReadSoFar([x EXCEPT !.closed = @ \/ c], itShown[b])
    BY <2>1, ClosedMore
  <2>3. LET y == [x EXCEPT !.closed = @ \/ c]
        IN  y \in Backends /\ y.kind = x.kind /\ y.inner = x.inner /\ y.deleted = x.deleted
    BY <2>1 DEF Backends
  <2> QED
    BY <2>1, <2>2, <2>3 DEF x
<1>12. \A b \in 1..Len(itBackends) : b \in dead =>
         /\ itBackends'[b] \in Backends /\ itBackends'[b].kind = "list" /\ itBackends'[b].inner = 0
         /\ itBackends'[b].deleted /\ itBackends'[b].first /\ itBackends'[b].pos = 1
  BY <1>10, MadeDeleted
<1>13. itBackends' \in Seq(Backends) /\ Len(itBackends') = Len(itBackends)
  <2>1. itBackends' = [b \in 1..Len(itBackends) |-> itBackends'[b]]
    BY <1>0, <1>9
  <2>2. \A b \in 1..Len(itBackends) : itBackends'[b] \in Backends
    BY <1>11, <1>12
  <2> DEFINE backends == itBackends'
             n == Len(itBackends)
  <2>3. n \in Nat /\ backends = [b \in 1..n |-> backends[b]] /\ \A b \in 1..n : backends[b] \in Backends
    BY <1>0, <2>1, <2>2
  <2> HIDE DEF backends, n
  <2>4. backends \in Seq(Backends) /\ Len(backends) = n
    BY <2>3
  <2> QED
    BY <2>4 DEF backends, n
<1>14. /\ itShown' \in Seq(Seq(ItElements)) /\ Len(itShown') = Len(itBackends)
       /\ \A b \in 1..Len(itBackends) : itShown'[b] = IF itBackends'[b].deleted THEN <<>> ELSE itShown[b]
  <2>1. itShown' = [b \in 1..Len(itBackends) |-> IF itBackends'[b].deleted THEN <<>> ELSE itShown[b]]
    BY <1>10 DEF ShownAfter
  <2>2. <<>> \in Seq(ItElements)
    OBVIOUS
  <2> DEFINE n == Len(itBackends)
             shown == [b \in 1..n |-> IF itBackends'[b].deleted THEN <<>> ELSE itShown[b]]
  <2>3. n \in Nat /\ \A b \in 1..n : shown[b] \in Seq(ItElements)
    BY <1>0, <2>2
  <2>4. itShown' = shown
    BY <2>1
  <2> HIDE DEF n
  <2>5. shown \in Seq(Seq(ItElements)) /\ Len(shown) = n
    BY <2>3
  <2> QED
    BY <2>1, <2>4, <2>5 DEF n
<1>15. ItTyped'
  BY <1>0, <1>13, <1>14 DEF ItTyped, handles
<1>16. dead = {b \in 1..Len(itBackends) : \E p \in gone : itPriv[p] = b}
  <2>1. \A p \in gone : itPriv[p] \in 0..Len(itBackends)
    BY <1>0 DEF gone
  <2> QED
    BY <1>0, <2>1 DEF dead
<1>17. \A p \in 1..Len(itPriv) : itPriv[p] \in dead => Alive(p) /\ ~Still(p)
  <2>1. ASSUME NEW p \in 1..Len(itPriv), itPriv[p] \in dead PROVE p \in gone
    <3>1. PICK r \in gone : itPriv[r] = itPriv[p]
      BY <1>16, <2>1
    <3>2. itPriv[p] # 0
      BY <2>1 DEF dead
    <3>3. r = p
      BY <1>0, <3>1, <3>2 DEF Linked, LinkedOnce, ReplacedFree, WrappersFlat, gone
    <3> QED
      BY <3>1, <3>3
  <2> QED
    BY <2>1 DEF gone
<1>18. \A p : Alive2(p) <=> Still(p)
  <2> DEFINE backends == itBackends'
  <2>1. ASSUME NEW h \in Handles
        PROVE  /\ Wraps(itPriv, backends, handles[h]) <=> Wraps(itPriv, itBackends, handles[h])
               /\ Wraps(itPriv, itBackends, handles[h]) =>
                    Inner(itPriv, backends, handles[h]) = Inner(itPriv, itBackends, handles[h])
    <3>1. CASE handles[h] = 0
      BY <3>1 DEF Wraps
    <3>2. CASE handles[h] # 0
      <4>1. Still(handles[h])
        BY <3>2 DEF Still, Held
      <4>2. handles[h] \in 1..Len(itPriv) /\ itPriv[handles[h]] \notin dead
        BY <1>0, <1>17, <3>2, <4>1
      <4>3. itPriv[handles[h]] # 0 => itPriv[handles[h]] \in 1..Len(itBackends)
        BY <1>0, <4>2
      <4> QED
        BY <1>11, <4>2, <4>3 DEF Wraps, Inner
    <3> QED
      BY <3>1, <3>2
  <2> HIDE DEF backends
  <2>2. \A p : Held(handles, itPriv, backends, p) <=> Held(handles, itPriv, itBackends, p)
    BY <2>1, HeldSame
  <2> QED
    BY <2>2 DEF Still, backends
<1> HIDE DEF Alive2
<1>19. Linked'
  <2>1. ASSUME NEW b \in itReplaced PROVE itBackends'[b].kind = "list"
    <3>1. b \in 1..Len(itBackends) /\ itBackends[b].kind = "list"
      BY <1>0, <2>1 DEF Linked, LinkedOnce, ReplacedFree, WrappersFlat
    <3> QED
      BY <1>11, <1>12, <3>1
  <2>2. ASSUME NEW b \in 1..Len(itBackends) PROVE WrapperOK(itBackends[b])'
    <3>1. WrapperOK(itBackends[b])
      BY <1>0 DEF Linked, LinkedOnce, ReplacedFree, WrappersFlat
    <3>2. CASE b \in dead
      BY <1>12, <3>2 DEF WrapperOK
    <3>3. CASE b \notin dead
      <4>1. itBackends[b].kind = "wrapper" /\ itPriv[itBackends[b].inner] # 0 =>
              /\ itPriv[itBackends[b].inner] \in 1..Len(itBackends)
              /\ itBackends[itPriv[itBackends[b].inner]].kind # "wrapper"
        BY <1>0, <3>1 DEF WrapperOK
      <4>2. \A a \in 1..Len(itBackends) : itBackends[a].kind # "wrapper" => itBackends'[a].kind # "wrapper"
        BY <1>11, <1>12
      <4> QED
        BY <1>11, <3>1, <3>3, <4>1, <4>2 DEF WrapperOK
    <3> QED
      BY <3>2, <3>3
  <2>3. LinkedOnce'
    BY <1>0 DEF Linked, LinkedOnce
  <2>4. ReplacedFree'
    BY <1>0, <2>1 DEF Linked, ReplacedFree
  <2>5. WrappersFlat'
    BY <1>13, <2>2 DEF WrappersFlat
  <2> QED
    BY <2>3, <2>4, <2>5 DEF Linked
<1>20. Owned'
  <2> SUFFICES ASSUME NEW b \in 1..Len(itBackends)
               PROVE  itBackends'[b].deleted <=>
                        b \notin itReplaced /\ \A p \in 1..Len(itPriv) : itPriv[p] = b => ~Still(p)
    BY <1>13, <1>18 DEF Owned, Alive, Alive2, handles
  <2>1. itBackends[b].deleted <=> b \notin itReplaced /\ \A p \in 1..Len(itPriv) : itPriv[p] = b => ~Alive(p)
    BY <1>0 DEF Owned
  <2>2. CASE b \in dead
    <3>1. PICK r \in gone : itPriv[r] = b
      BY <1>16, <2>2
    <3>2. b \notin itReplaced
      BY <1>0, <3>1 DEF Linked, LinkedOnce, ReplacedFree, WrappersFlat, gone
    <3> QED
      BY <1>12, <1>17, <2>2, <3>2
  <2>3. CASE b \notin dead
    <3>1. \A p \in 1..Len(itPriv) : itPriv[p] = b => (Alive(p) <=> Still(p))
      BY <1>5, <1>16, <2>3 DEF gone
    <3> QED
      BY <1>11, <2>1, <2>3, <3>1
  <2> QED
    BY <2>2, <2>3
<1>21. Read'
  <2> SUFFICES ASSUME NEW b \in 1..Len(itBackends)
               PROVE  ReadSoFar(itBackends'[b], itShown'[b]) /\ (itBackends'[b].deleted => itShown'[b] = <<>>)
    BY <1>13 DEF Read
  <2>1. CASE b \in dead
    BY <1>12, <1>14, <2>1, FreshBackend
  <2>2. CASE b \notin dead
    BY <1>0, <1>11, <1>14, <2>2 DEF Read
  <2> QED
    BY <2>1, <2>2
<1> QED
  BY <1>15, <1>19, <1>20, <1>21 DEF ItInv
-----------------------------------------------------------------------------
\* The backend that does the work is that of the Private, or of what it wraps, ...
LEMMA WorkIsDoneBy ==
  ASSUME ItTyped, Linked, NEW p \in 1..Len(itPriv)
  PROVE  /\ BackendOf(p) = IF Wraps(itPriv, itBackends, p) THEN itPriv[Inner(itPriv, itBackends, p)] ELSE itPriv[p]
         /\ BackendOf(p) \in 0..Len(itBackends)
<1> DEFINE down(b) == IF b # 0 /\ itBackends[b].kind = "wrapper" THEN itPriv[itBackends[b].inner] ELSE b
<1>1. BackendOf(p) = down(down(down(itPriv[p])))
  BY DEF BackendOf
<1>2. itPriv[p] \in 0..Len(itBackends) /\ p # 0
  BY ItTypes
<1>3. CASE Wraps(itPriv, itBackends, p)
  <2> DEFINE r == Inner(itPriv, itBackends, p)
  <2>1. r \in 1..Len(itPriv) /\ ~Wraps(itPriv, itBackends, r) /\ r # 0
    BY <1>3, InvIsFlat, ItTypes
  <2>2. down(itPriv[p]) = itPriv[r]
    BY <1>3 DEF Wraps, Inner
  <2>3. down(itPriv[r]) = itPriv[r]
    BY <2>1 DEF Wraps
  <2>4. itPriv[r] \in 0..Len(itBackends)
    BY <2>1, ItTypes
  <2> HIDE DEF down, r
  <2>5. BackendOf(p) = itPriv[r]
    BY <1>1, <2>2, <2>3
  <2> QED
    BY <1>3, <2>4, <2>5 DEF r
<1>4. CASE ~Wraps(itPriv, itBackends, p)
  <2>1. down(itPriv[p]) = itPriv[p]
    BY <1>2, <1>4 DEF Wraps
  <2> QED
    BY <1>1, <1>2, <1>4, <2>1
<1> QED
  BY <1>3, <1>4

\* ... and it is there while a handle has the Private.
LEMMA WorkerLives ==
  ASSUME ItInv, NEW h \in Handles, itHandles[h] # 0, BackendOf(itHandles[h]) # 0
  PROVE  BackendOf(itHandles[h]) \in 1..Len(itBackends) /\ ~itBackends[BackendOf(itHandles[h])].deleted
<1> DEFINE p == itHandles[h]
           r == IF Wraps(itPriv, itBackends, p) THEN Inner(itPriv, itBackends, p) ELSE p
<1>1. ItTyped /\ Linked /\ Owned
  BY DEF ItInv
<1>2. p \in 1..Len(itPriv)
  BY <1>1, ItTypes
<1>3. BackendOf(p) = itPriv[r] /\ BackendOf(p) \in 1..Len(itBackends)
  <2> HIDE DEF p
  <2>1. BackendOf(p) = itPriv[r] /\ BackendOf(p) \in 0..Len(itBackends)
    BY <1>1, <1>2, WorkIsDoneBy
  <2> QED
    BY <2>1 DEF p
<1>4. r \in 1..Len(itPriv) /\ r # 0
  BY <1>1, <1>2, InvIsFlat, ItTypes
<1>5. Alive(r)
  BY <1>4 DEF Alive, Held
<1>6. ~itBackends[itPriv[r]].deleted
  BY <1>1, <1>3, <1>4, <1>5 DEF Owned
<1> QED
  BY <1>3, <1>6

LEMMA NextReads ==
  ASSUME ItInv, NEW h \in Handles, Next(h)
  PROVE  ItInv'
<1> DEFINE b == BackendOf(itHandles[h])
           x == itBackends[b]
           moved == Advance(x)
           y == AfterNext(x)
           end == AtEnd(moved)
<1>1. itHandles[h] # 0 /\ UNCHANGED <<itGraph, itHandles, itPriv, itReplaced>>
  BY DEF Next
<1>2. CASE b = 0
  BY <1>1, <1>2, NoIterator DEF Next, ItInv, ItTyped
<1>3. CASE b # 0
  <2>1. /\ itBackends' = [a \in DOMAIN itBackends |->
                            IF a = b THEN y
                            ELSE IF a \in Wrapping(h, b) THEN [itBackends[a] EXCEPT !.closed = @ \/ end]
                            ELSE itBackends[a]]
        /\ itShown' = IF end THEN itShown ELSE [itShown EXCEPT ![b] = Append(@, moved.todo[moved.pos])]
    BY <1>3 DEF Next, AfterNext
  <2>2. b \in 1..Len(itBackends) /\ ~x.deleted
    BY <1>1, <1>3, WorkerLives
  <2>3. /\ Len(itBackends) \in Nat /\ DOMAIN itBackends = 1..Len(itBackends)
        /\ itShown \in Seq(Seq(ItElements)) /\ Len(itShown) = Len(itBackends) /\ end \in BOOLEAN
        /\ \A a \in 1..Len(itBackends) : /\ itBackends[a] \in Backends /\ itShown[a] \in Seq(ItElements)
                                         /\ ReadSoFar(itBackends[a], itShown[a])
    BY ItTypes DEF ItInv, ItTyped, Read, AtEnd
  <2> DEFINE shown == itShown[b]
  <2>4. x \in Backends /\ ReadSoFar(x, shown) /\ moved = Advance(x) /\ y = AfterNext(x)
    BY <2>2, <2>3
  <2> HIDE DEF x, moved, y, shown
  <2>5. /\ y \in Backends /\ y.kind = x.kind /\ y.inner = x.inner /\ y.deleted = x.deleted
        /\ end => ReadSoFar(y, shown)
        /\ ~end => ReadSoFar(y, Append(shown, moved.todo[moved.pos])) /\ moved.todo[moved.pos] \in ItElements
    BY <2>4, BackendMoves
  <2> HIDE DEF b, end
  <2>6. ASSUME NEW a \in 1..Len(itBackends), a # b
        PROVE  /\ itBackends'[a] \in Backends /\ itBackends'[a].kind = itBackends[a].kind
               /\ itBackends'[a].inner = itBackends[a].inner /\ itBackends'[a].deleted = itBackends[a].deleted
               /\ ReadSoFar(itBackends'[a], itShown[a])
    <3> DEFINE z == itBackends[a]
    <3>1. itBackends'[a] = [z EXCEPT !.closed = @ \/ end] \/ itBackends'[a] = z
      BY <2>1, <2>3, <2>6
    <3>2. z \in Backends /\ ReadSoFar(z, itShown[a])
      BY <2>3
    <3> HIDE DEF z
    <3>3. ReadSoFar([z EXCEPT !.closed = @ \/ end], itShown[a])
      BY <2>3, <3>2, ClosedMore
    <3>4. LET w == [z EXCEPT !.closed = @ \/ end]
          IN  w \in Backends /\ w.kind = z.kind /\ w.inner = z.inner /\ w.deleted = z.deleted
      BY <2>3, <3>2 DEF Backends
    <3> QED
      BY <3>1, <3>2, <3>3, <3>4 DEF z
  <2>7. itBackends'[b] = y
    BY <2>1, <2>2, <2>3
  <2>8. itBackends' \in Seq(Backends) /\ Len(itBackends') = Len(itBackends)
    <3> DEFINE backends == itBackends'
               n == Len(itBackends)
    <3>1. DOMAIN backends = 1..n /\ backends = [a \in 1..n |-> backends[a]]
      BY <2>1, <2>3
    <3>2. n \in Nat /\ \A a \in 1..n : backends[a] \in Backends
      BY <2>3, <2>5, <2>6, <2>7
    <3> HIDE DEF backends, n
    <3>3. backends \in Seq(Backends) /\ Len(backends) = n
      BY <3>1, <3>2
    <3> QED
      BY <3>3 DEF backends, n
  <2>9. /\ itShown' \in Seq(Seq(ItElements)) /\ Len(itShown') = Len(itBackends)
        /\ \A a \in 1..Len(itBackends) : a # b => itShown'[a] = itShown[a]
        /\ itShown'[b] = IF end THEN shown ELSE Append(shown, moved.todo[moved.pos])
    <3>1. CASE end
      BY <2>1, <2>3, <3>1 DEF shown
    <3>2. CASE ~end
      <4> DEFINE e == moved.todo[moved.pos]
      <4>1. itShown' = [itShown EXCEPT ![b] = Append(shown, e)] /\ e \in ItElements /\ shown \in Seq(ItElements)
        BY <2>1, <2>2, <2>3, <2>5, <3>2 DEF shown
      <4> HIDE DEF e, shown
      <4>2. Append(shown, e) \in Seq(ItElements)
        BY <4>1
      <4> DEFINE longer == Append(shown, e)
      <4> HIDE DEF longer
      <4>3. /\ itShown' \in Seq(Seq(ItElements)) /\ Len(itShown') = Len(itBackends)
            /\ \A a \in 1..Len(itBackends) : a # b => itShown'[a] = itShown[a]
            /\ itShown'[b] = longer
        BY <2>2, <2>3, <4>1, <4>2 DEF longer
      <4> QED
        BY <3>2, <4>3 DEF longer, e
    <3> QED
      BY <3>1, <3>2
  <2>10. ASSUME NEW a \in 1..Len(itBackends)
         PROVE  /\ itBackends'[a].kind = itBackends[a].kind /\ itBackends'[a].inner = itBackends[a].inner
                /\ itBackends'[a].deleted = itBackends[a].deleted
                /\ ReadSoFar(itBackends'[a], itShown'[a])
                /\ itBackends[a].deleted => itShown'[a] = itShown[a]
    <3>1. CASE a = b
      BY <2>2, <2>5, <2>7, <2>9, <3>1 DEF x
    <3>2. CASE a # b
      BY <2>6, <2>9, <3>2
    <3> QED
      BY <3>1, <3>2
  <2> QED
    BY <1>1, <2>8, <2>9, <2>10, ReadOn
<1> QED
  BY <1>2, <1>3

LEMMA CloseReads ==
  ASSUME ItInv, NEW h \in Handles, Close(h)
  PROVE  ItInv'
<1> DEFINE W == Wrapping(h, BackendOf(itHandles[h]))
<1>1. /\ itBackends' = [x \in DOMAIN itBackends |->
           IF x \in W THEN [itBackends[x] EXCEPT !.closed = TRUE] ELSE itBackends[x]]
      /\ UNCHANGED <<itGraph, itHandles, itPriv, itShown, itReplaced, itError>>
  BY DEF Close
<1> HIDE DEF W
<1>2. /\ Len(itBackends) \in Nat /\ DOMAIN itBackends = 1..Len(itBackends)
      /\ itShown \in Seq(Seq(ItElements)) /\ Len(itShown) = Len(itBackends)
      /\ \A a \in 1..Len(itBackends) : itBackends[a] \in Backends /\ ReadSoFar(itBackends[a], itShown[a])
  BY ItTypes DEF ItInv, ItTyped, Read
<1>3. ASSUME NEW a \in 1..Len(itBackends)
      PROVE  /\ itBackends'[a] \in Backends /\ itBackends'[a].kind = itBackends[a].kind
             /\ itBackends'[a].inner = itBackends[a].inner /\ itBackends'[a].deleted = itBackends[a].deleted
             /\ ReadSoFar(itBackends'[a], itShown[a])
  <2> DEFINE z == itBackends[a]
  <2>1. itBackends'[a] = [z EXCEPT !.closed = TRUE] \/ itBackends'[a] = z
    BY <1>1, <1>2
  <2>2. z \in Backends /\ ReadSoFar(z, itShown[a])
    BY <1>2
  <2> HIDE DEF z
  <2>3. ReadSoFar([z EXCEPT !.closed = @ \/ TRUE], itShown[a])
    BY <2>2, ClosedMore
  <2>4. LET w == [z EXCEPT !.closed = TRUE]
        IN  /\ w \in Backends /\ w.kind = z.kind /\ w.inner = z.inner /\ w.deleted = z.deleted
            /\ w = [z EXCEPT !.closed = @ \/ TRUE]
    BY <2>2 DEF Backends
  <2> QED
    BY <2>1, <2>2, <2>3, <2>4 DEF z
<1>4. itBackends' \in Seq(Backends) /\ Len(itBackends') = Len(itBackends)
  <2> DEFINE backends == itBackends'
             n == Len(itBackends)
  <2>1. DOMAIN backends = 1..n /\ backends = [a \in 1..n |-> backends[a]]
    BY <1>1, <1>2
  <2>2. n \in Nat /\ \A a \in 1..n : backends[a] \in Backends
    BY <1>2, <1>3
  <2> HIDE DEF backends, n
  <2>3. backends \in Seq(Backends) /\ Len(backends) = n
    BY <2>1, <2>2
  <2> QED
    BY <2>3 DEF backends, n
<1> QED
  BY <1>1, <1>2, <1>3, <1>4, ReadOn

LEMMA AllReads ==
  ASSUME ItInv, NEW h \in Handles, allElements(h)
  PROVE  ItInv'
<1> DEFINE b == BackendOf(itHandles[h])
           x == itBackends[b]
           from == IF x.first THEN 1 ELSE x.pos + 1
           y == [x EXCEPT !.pos = Len(x.todo) + 1, !.first = FALSE, !.closed = TRUE]
           rest == Elements(x.todo, FittingFrom(x, from))
           shown == itShown[b]
<1>1. /\ itHandles[h] # 0 /\ b # 0 /\ UNCHANGED <<itGraph, itHandles, itPriv, itReplaced>>
      /\ itBackends' = [a \in DOMAIN itBackends |->
           IF a = b THEN y
           ELSE IF a \in Wrapping(h, b) THEN [itBackends[a] EXCEPT !.closed = TRUE]
           ELSE itBackends[a]]
      /\ itShown' = [itShown EXCEPT ![b] = @ \o rest]
  <2>1. itBackends' = [a \in DOMAIN itBackends |->
             IF a = b THEN [itBackends[a] EXCEPT !.pos = Len(x.todo) + 1, !.first = FALSE, !.closed = TRUE]
             ELSE IF a \in Wrapping(h, b) THEN [itBackends[a] EXCEPT !.closed = TRUE]
             ELSE itBackends[a]]
    BY DEF allElements
  <2> QED
    BY <2>1 DEF allElements
<1>2. b \in 1..Len(itBackends) /\ ~x.deleted
  BY <1>1, WorkerLives
<1>3. /\ Len(itBackends) \in Nat /\ DOMAIN itBackends = 1..Len(itBackends)
      /\ itShown \in Seq(Seq(ItElements)) /\ Len(itShown) = Len(itBackends)
      /\ \A a \in 1..Len(itBackends) : /\ itBackends[a] \in Backends /\ itShown[a] \in Seq(ItElements)
                                       /\ ReadSoFar(itBackends[a], itShown[a])
  BY ItTypes DEF ItInv, ItTyped, Read
<1>4. x \in Backends /\ ReadSoFar(x, shown) /\ from = (IF x.first THEN 1 ELSE x.pos + 1) /\ y = AtTheEnd(x)
  BY <1>2, <1>3 DEF AtTheEnd
<1>5. shown \in Seq(ItElements)
  BY <1>2, <1>3
<1> HIDE DEF b, x, y, from, shown
<1>6. /\ y \in Backends /\ y.kind = x.kind /\ y.inner = x.inner /\ y.deleted = x.deleted
      /\ ReadSoFar(y, shown \o rest) /\ rest \in Seq(ItElements)
  BY <1>4, BackendFinishes
<1> HIDE DEF rest
<1>7. shown \o rest \in Seq(ItElements)
  BY <1>5, <1>6
<1>8. itBackends'[b] = y
  BY <1>1, <1>2, <1>3
<1>9. ASSUME NEW a \in 1..Len(itBackends), a # b
      PROVE  /\ itBackends'[a] \in Backends /\ itBackends'[a].kind = itBackends[a].kind
             /\ itBackends'[a].inner = itBackends[a].inner /\ itBackends'[a].deleted = itBackends[a].deleted
             /\ ReadSoFar(itBackends'[a], itShown[a])
  <2> DEFINE z == itBackends[a]
  <2>1. itBackends'[a] = [z EXCEPT !.closed = TRUE] \/ itBackends'[a] = z
    BY <1>1, <1>3, <1>9
  <2>2. z \in Backends /\ ReadSoFar(z, itShown[a])
    BY <1>3
  <2> HIDE DEF z
  <2>3. ReadSoFar([z EXCEPT !.closed = @ \/ TRUE], itShown[a])
    BY <2>2, ClosedMore
  <2>4. LET w == [z EXCEPT !.closed = TRUE]
        IN  /\ w \in Backends /\ w.kind = z.kind /\ w.inner = z.inner /\ w.deleted = z.deleted
            /\ w = [z EXCEPT !.closed = @ \/ TRUE]
    BY <2>2 DEF Backends
  <2> QED
    BY <2>1, <2>2, <2>3, <2>4 DEF z
<1>10. itBackends' \in Seq(Backends) /\ Len(itBackends') = Len(itBackends)
  <2> DEFINE backends == itBackends'
             n == Len(itBackends)
  <2>1. DOMAIN backends = 1..n /\ backends = [a \in 1..n |-> backends[a]]
    BY <1>1, <1>3
  <2>2. n \in Nat /\ \A a \in 1..n : backends[a] \in Backends
    BY <1>3, <1>6, <1>8, <1>9
  <2> HIDE DEF backends, n
  <2>3. backends \in Seq(Backends) /\ Len(backends) = n
    BY <2>1, <2>2
  <2> QED
    BY <2>3 DEF backends, n
<1>11. /\ itShown' \in Seq(Seq(ItElements)) /\ Len(itShown') = Len(itBackends)
       /\ \A a \in 1..Len(itBackends) : a # b => itShown'[a] = itShown[a]
       /\ itShown'[b] = shown \o rest
  <2> DEFINE longer == shown \o rest
  <2>1. itShown' = [itShown EXCEPT ![b] = longer] /\ longer \in Seq(ItElements)
    BY <1>1, <1>7 DEF shown
  <2> HIDE DEF longer
  <2>2. /\ itShown' \in Seq(Seq(ItElements)) /\ Len(itShown') = Len(itBackends)
        /\ \A a \in 1..Len(itBackends) : a # b => itShown'[a] = itShown[a]
        /\ itShown'[b] = longer
    BY <1>2, <1>3, <2>1
  <2> QED
    BY <2>2 DEF longer
<1>12. ASSUME NEW a \in 1..Len(itBackends)
       PROVE  /\ itBackends'[a].kind = itBackends[a].kind /\ itBackends'[a].inner = itBackends[a].inner
              /\ itBackends'[a].deleted = itBackends[a].deleted
              /\ ReadSoFar(itBackends'[a], itShown'[a])
              /\ itBackends[a].deleted => itShown'[a] = itShown[a]
  <2>1. CASE a = b
    BY <1>2, <1>6, <1>8, <1>11, <2>1 DEF x
  <2>2. CASE a # b
    BY <1>9, <1>11, <2>2
  <2> QED
    BY <2>1, <2>2
<1> QED
  BY <1>1, <1>10, <1>11, <1>12, ReadOn
-----------------------------------------------------------------------------
\* A new iterator for an unused handle
LEMMA NewIterator ==
  ASSUME ItInv, NEW h \in Handles, NEW x \in Backends, NewBackend(h, x), x.first, x.pos = 1, ~x.deleted,
         x.kind # "wrapper" => x.inner = 0,
         x.kind = "wrapper" => /\ x.inner \in 1..Len(itPriv) /\ Alive(x.inner)
                               /\ itPriv[x.inner] # 0 => itBackends[itPriv[x.inner]].kind # "wrapper"
  PROVE  ItInv'
<1>1. /\ itHandles[h] = 0 /\ itBackends' = Append(itBackends, x) /\ itShown' = Append(itShown, <<>>)
      /\ itPriv' = Append(itPriv, Len(itBackends')) /\ itHandles' = [itHandles EXCEPT ![h] = Len(itPriv')]
      /\ UNCHANGED <<itGraph, itReplaced>>
  BY DEF NewBackend
<1>2. Len(itBackends') = Len(itBackends) + 1
  BY <1>1 DEF ItInv, ItTyped
<1>3. itPriv' = Append(itPriv, Len(itBackends) + 1) /\ itPriv \in Seq(0..Len(itBackends))
  BY <1>1, <1>2 DEF ItInv, ItTyped
<1>4. Len(itPriv') = Len(itPriv) + 1
  <2> DEFINE e == Len(itBackends) + 1
  <2>1. itPriv' = Append(itPriv, e)
    BY <1>3
  <2> HIDE DEF e
  <2> QED
    BY <1>3, <2>1
<1>5. itHandles' = [itHandles EXCEPT ![h] = Len(itPriv) + 1]
  BY <1>1, <1>4
<1>6. Spare(h)
  BY <1>1, UnusedIsSpare
<1> QED
  BY <1>1, <1>3, <1>5, <1>6, OneMoreBackend

LEMMA GraphsAreListed ==
  ASSUME ItInv, NEW h \in Handles, NEW template \in ItTemplates, graphListStatements(h, template)
  PROVE  ItInv'
<1> DEFINE s == SetToSeq(itGraph)
           x == [ListBackend(s) EXCEPT !.kind = "graph", !.filter = template]
<1>1. NewBackend(h, x)
  BY DEF graphListStatements, GraphBackend
<1>2. s \in Seq(ItElements)
  <2>1. itGraph \subseteq ItStatements
    BY DEF ItInv, ItTyped
  <2>2. IsFiniteSet(itGraph)
    BY <2>1, ItStatementsAssumption, FS_Subset
  <2>3. s \in Seq(itGraph)
    BY <2>2, ListsAreLists
  <2> HIDE DEF s
  <2> QED
    BY <2>1, <2>3 DEF ItElements
<1> HIDE DEF s
<1>3. x \in Backends /\ x.first /\ x.pos = 1 /\ x.kind = "graph" /\ x.inner = 0 /\ ~x.deleted
  BY <1>2, MadeBackends
<1> HIDE DEF x
<1> QED
  BY <1>1, <1>3, NewIterator

LEMMA ContextsAreListed ==
  ASSUME ItInv, NEW h \in Handles, graphListContexts(h)
  PROVE  ItInv'
<1> DEFINE s == SetToSeq(GraphContexts)
           x == [ListBackend(s) EXCEPT !.kind = "nodes"]
<1>1. NewBackend(h, x)
  BY DEF graphListContexts
<1>2. s \in Seq(ItElements)
  <2> DEFINE all == {st.c : st \in itGraph}
             f == [st \in itGraph |-> st.c]
  <2>1. itGraph \subseteq ItStatements
    BY DEF ItInv, ItTyped
  <2>2. IsFiniteSet(itGraph)
    BY <2>1, ItStatementsAssumption, FS_Subset
  <2>3. f \in Surjection(itGraph, all)
    BY DEF Surjection
  <2>4. IsFiniteSet(all)
    BY <2>2, <2>3, FS_Surjection
  <2>5. GraphContexts \in SUBSET all
    BY DEF GraphContexts
  <2>6. IsFiniteSet(GraphContexts)
    <3> HIDE DEF all
    <3> QED
      BY <2>4, <2>5, FS_Subset
  <2>7. s \in Seq(GraphContexts)
    BY <2>6, ListsAreLists
  <2>8. GraphContexts \subseteq ItElements
    BY <2>1, <2>5 DEF ItElements
  <2> HIDE DEF s
  <2> QED
    BY <2>7, <2>8
<1> HIDE DEF s
<1>3. x \in Backends /\ x.first /\ x.pos = 1 /\ x.kind = "nodes" /\ x.inner = 0 /\ ~x.deleted
  BY <1>2 DEF ListBackend, Backends
<1> HIDE DEF x
<1> QED
  BY <1>1, <1>3, NewIterator

LEMMA IteratorsAreWrapped ==
  ASSUME ItInv, NEW h \in Handles, NEW g \in Handles, NEW w \in Parts, iterate(h, g, w)
  PROVE  ItInv'
<1> DEFINE p == itHandles[h]
           x == WrapperBackend(p, w)
<1>1. /\ p # 0 /\ NewBackend(g, x)
      /\ itPriv[p] # 0 => itBackends[itPriv[p]].kind \in {"list", "graph"}
  BY DEF iterate, IsValid
<1>2. p \in 1..Len(itPriv) /\ p \in Nat
  BY <1>1, ItTypes DEF ItInv
<1>3. Alive(p)
  BY <1>1 DEF Alive, Held
<1> HIDE DEF p
<1>4. x \in Backends /\ x.first /\ x.pos = 1 /\ x.kind = "wrapper" /\ x.inner = p /\ ~x.deleted
  BY <1>2, MadeWrapper
<1> HIDE DEF x
<1> QED
  BY <1>1, <1>2, <1>3, <1>4, NewIterator

\* What another handle or a wrapper shares is left to them.
LEMMA SharedIsSpare ==
  ASSUME ItInv, NEW h \in Handles, itHandles[h] # 0, IsValid(h) => itBackends[itPriv[itHandles[h]]].kind = "list",
         \/ \E g \in Handles \ {h} : itHandles[g] = itHandles[h]
         \/ \E b \in DOMAIN itBackends : ~itBackends[b].deleted /\ itBackends[b].inner = itHandles[h]
  PROVE  Spare(h)
<1> DEFINE p == itHandles[h]
           By(g, r) == r = itHandles[g] \/ (Wraps(itPriv, itBackends, itHandles[g]) /\ r = Inner(itPriv, itBackends, itHandles[g]))
<1>1. /\ ItTyped /\ Linked /\ Owned /\ ~Wraps(itPriv, itBackends, p)
      /\ \A g \in Handles : itHandles[g] \in 0..Len(itPriv)
      /\ DOMAIN itBackends = 1..Len(itBackends)
  BY ItTypes DEF ItInv, IsValid, Wraps
<1>2. \E g \in Handles \ {h} : By(g, p)
  <2>1. CASE \E g \in Handles \ {h} : itHandles[g] = p
    BY <2>1
  <2>2. CASE \E b \in DOMAIN itBackends : ~itBackends[b].deleted /\ itBackends[b].inner = p
    <3>1. PICK b \in 1..Len(itBackends) : ~itBackends[b].deleted /\ itBackends[b].inner = p
      BY <1>1, <2>2
    <3>2. itBackends[b].kind = "wrapper"
      BY <1>1, <3>1 DEF Linked, LinkedOnce, ReplacedFree, WrappersFlat, WrapperOK
    <3>3. b \notin itReplaced
      BY <1>1, <3>2 DEF Linked, LinkedOnce, ReplacedFree, WrappersFlat
    <3>4. PICK r \in 1..Len(itPriv) : itPriv[r] = b /\ Alive(r)
      BY <1>1, <3>1, <3>3 DEF Owned
    <3>5. Wraps(itPriv, itBackends, r) /\ Inner(itPriv, itBackends, r) = p
      <4>1. r # 0 /\ b # 0
        BY <1>1, <3>4, ItTypes
      <4> QED
        BY <3>1, <3>2, <3>4, <4>1 DEF Wraps, Inner
    <3>6. PICK g \in Handles : By(g, r)
      BY <3>4 DEF Alive, Held
    <3>7. r = itHandles[g]
      <4> SUFFICES ASSUME Wraps(itPriv, itBackends, itHandles[g]), r = Inner(itPriv, itBackends, itHandles[g])
                   PROVE  FALSE
        BY <3>6
      <4>1. ~Wraps(itPriv, itBackends, r)
        BY <1>1, InvIsFlat
      <4> QED
        BY <3>5, <4>1
    <3>8. g # h
      BY <1>1, <3>5, <3>7
    <3> QED
      BY <3>5, <3>7, <3>8
  <2> QED
    BY <2>1, <2>2
<1>3. ASSUME NEW r \in 1..Len(itPriv), Alive(r) PROVE \E g \in Handles \ {h} : By(g, r)
  <2>1. PICK g \in Handles : By(g, r)
    BY <1>3 DEF Alive, Held
  <2>2. CASE g = h
    BY <1>1, <1>2, <2>1, <2>2
  <2> QED
    BY <2>1, <2>2
<1> QED
  BY <1>3 DEF Spare

LEMMA ListsAreSet ==
  ASSUME ItInv, NEW h \in Handles, NEW s \in Seq(ItElements), setBackend(h, s)
  PROVE  ItInv'
<1> DEFINE p == itHandles[h]
           n == Len(itBackends) + 1
           x == ListBackend(s)
           shared == \/ \E g \in Handles \ {h} : itHandles[g] = p
                     \/ \E b \in DOMAIN itBackends : ~itBackends[b].deleted /\ itBackends[b].inner = p
<1>1. /\ p # 0 /\ (IsValid(h) => itBackends[itPriv[p]].kind = "list")
      /\ itBackends' = Append(itBackends, x) /\ itShown' = Append(itShown, <<>>) /\ UNCHANGED itGraph
      /\ IF shared
         THEN itPriv' = Append(itPriv, n) /\ itHandles' = [itHandles EXCEPT ![h] = Len(itPriv')] /\ UNCHANGED itReplaced
         ELSE /\ itPriv' = [itPriv EXCEPT ![p] = n] /\ UNCHANGED itHandles
              /\ itReplaced' = itReplaced \cup ({itPriv[p]} \ {0})
  BY DEF setBackend
<1>2. x \in Backends /\ x.first /\ x.pos = 1 /\ x.kind = "list" /\ x.inner = 0 /\ ~x.deleted
  BY MadeBackends
<1>3. p \in 1..Len(itPriv) /\ Alive(p)
  BY <1>1, ItTypes DEF ItInv, Alive, Held
<1> HIDE DEF x
<1>4. CASE shared
  <2>1. Spare(h)
    BY <1>1, <1>4, SharedIsSpare
  <2>2. itPriv \in Seq(0..Len(itBackends))
    BY DEF ItInv, ItTyped
  <2>3. Len(itPriv') = Len(itPriv) + 1
    <3> HIDE DEF n
    <3> QED
      BY <1>1, <1>4, <2>2
  <2>4. itHandles' = [itHandles EXCEPT ![h] = Len(itPriv) + 1] /\ itPriv' = Append(itPriv, Len(itBackends) + 1)
    BY <1>1, <1>4, <2>3
  <2> QED
    BY <1>1, <1>2, <1>4, <2>1, <2>4, OneMoreBackend
<1>5. CASE ~shared
  <2>1. itPriv[p] # 0 => itBackends[itPriv[p]].kind = "list"
    BY <1>1 DEF IsValid
  <2>2. /\ itPriv' = [itPriv EXCEPT ![p] = Len(itBackends) + 1] /\ UNCHANGED <<itGraph, itHandles>>
        /\ itReplaced' = itReplaced \cup ({itPriv[p]} \ {0})
    BY <1>1, <1>5
  <2> HIDE DEF p, n, shared
  <2> QED
    BY <1>1, <1>2, <1>3, <2>1, <2>2, BackendReplaced
<1> QED
  BY <1>4, <1>5

LEMMA HandlesAreCopied ==
  ASSUME ItInv, NEW h \in Handles, NEW g \in Handles, copyIterator(h, g) \/ destroyIterator(h)
  PROVE  ItInv'
<1>1. itHandles \in [Handles -> 0..Len(itPriv)] /\ 0 \in 0..Len(itPriv)
  <2>1. Len(itPriv) \in Nat
    BY ItTypes DEF ItInv
  <2> QED
    BY <2>1 DEF ItInv, ItTyped
<1>2. /\ itBackends' = Release(itHandles', itPriv, itBackends) /\ itShown' = ShownAfter(itBackends')
      /\ UNCHANGED <<itGraph, itPriv, itReplaced>>
      /\ \/ itHandles' = [itHandles EXCEPT ![g] = itHandles[h]]
         \/ itHandles' = [itHandles EXCEPT ![h] = 0]
  BY DEF copyIterator, destroyIterator
<1>3. itHandles' \in [Handles -> 0..Len(itPriv)]
  BY <1>1, <1>2
<1>4. \A k \in Handles : itHandles'[k] = 0 \/ \E l \in Handles : itHandles'[k] = itHandles[l]
  BY <1>1, <1>2
<1> QED
  BY <1>2, <1>3, <1>4, HandlesMove
-----------------------------------------------------------------------------
\* No call breaks it.
LEMMA ItSteps == ItInv /\ [ItNext]_itVars => ItInv'
<1> SUFFICES ASSUME ItInv, [ItNext]_itVars PROVE ItInv'
  OBVIOUS
<1>0. itGraph \subseteq ItStatements
  BY DEF ItInv, ItTyped
<1>1. CASE UNCHANGED itVars
  BY <1>0, <1>1, NoIterator DEF itVars
<1>2. ASSUME NEW sts \in SUBSET ItStatements, graphAddStatements(sts) PROVE ItInv'
  BY <1>0, <1>2, NoIterator DEF graphAddStatements
<1>3. ASSUME NEW sts, graphRemoveStatements(sts) PROVE ItInv'
  BY <1>0, <1>3, NoIterator DEF graphRemoveStatements
<1>4. ASSUME NEW template, graphRemoveAllStatements(template) PROVE ItInv'
  BY <1>3, <1>4 DEF graphRemoveAllStatements
<1>5. SetToSeq(ItStatements) \in Seq(ItElements)
  <2>1. SetToSeq(ItStatements) \in Seq(ItStatements)
    BY ItStatementsAssumption, ListsAreLists
  <2> QED
    BY <2>1 DEF ItElements
<1>6. ASSUME NEW h \in Handles,
             \/ \E x \in ItTemplates : graphListStatements(h, x)
             \/ graphListContexts(h) \/ invalidIterator(h) \/ destroyIterator(h)
             \/ \E g \in Handles : copyIterator(h, g) \/ \E w \in Parts : iterate(h, g, w)
             \/ setBackend(h, SetToSeq(ItStatements))
             \/ Next(h) \/ Close(h) \/ allElements(h)
      PROVE  ItInv'
  <2>1. CASE \E x \in ItTemplates : graphListStatements(h, x)
    BY <2>1, GraphsAreListed
  <2>2. CASE graphListContexts(h)
    BY <2>2, ContextsAreListed
  <2>3. CASE invalidIterator(h)
    BY <2>3, OneMoreInvalid
  <2>4. CASE destroyIterator(h)
    BY <2>4, HandlesAreCopied
  <2>5. CASE \E g \in Handles : copyIterator(h, g)
    BY <2>5, HandlesAreCopied
  <2>6. CASE \E g \in Handles : \E w \in Parts : iterate(h, g, w)
    BY <2>6, IteratorsAreWrapped
  <2>7. CASE setBackend(h, SetToSeq(ItStatements))
    BY <1>5, <2>7, ListsAreSet
  <2>8. CASE Next(h)
    BY <2>8, NextReads
  <2>9. CASE Close(h)
    BY <2>9, CloseReads
  <2>10. CASE allElements(h)
    BY <2>10, AllReads
  <2> QED
    BY <1>6, <2>1, <2>2, <2>3, <2>4, <2>5, <2>6, <2>7, <2>8, <2>9, <2>10
<1>7. CASE ItNext
  <2>1. CASE graphAddStatements(ItStatements)
    BY <1>2, <2>1
  <2>2. CASE \E st \in ItStatements : graphAddStatements({st}) \/ graphRemoveStatements({st})
    BY <1>2, <1>3, <2>2
  <2>3. CASE \E x \in ItTemplates : graphRemoveAllStatements(x)
    BY <1>4, <2>3
  <2> QED
    BY <1>6, <1>7, <2>1, <2>2, <2>3 DEF ItNext
<1> QED
  BY <1>1, <1>7

(***************************************************************************)
(* However iterators of lists and of graphs, empty ones too, are copied,   *)
(* assigned, wrapped, given other lists, read and dropped (Iterator::      *)
(* operator=, Private::~Private, setBackend, next and close of iterator.h  *)
(* and util/simple*iterator.cpp), a backend never has two owners and is not*)
(* deleted while it has one; one that setBackend did not replace is deleted*)
(* when the last handle is gone; and elements come in order, once, and all *)
(* before the end.                                                         *)
(***************************************************************************)
THEOREM HandlesStayShared == ItInit /\ [][ItNext]_itVars => []HandlesShare
<1>1. ItInv => HandlesShare
  BY OwnedOnce, ShownOnce DEF HandlesShare
<1> QED
  BY <1>1, ItStarts, ItSteps, PTL
-----------------------------------------------------------------------------
(***************************************************************************)
(* SparqlResults.  A list is read through Elements: its first element, and *)
(* the whole of it when every position is kept.                            *)
(***************************************************************************)
LEMMA KeptElements ==
  ASSUME NEW s, NEW n \in Nat, NEW P \in SUBSET (1..n)
  PROVE  /\ Cardinality(P) \in Nat /\ DOMAIN Elements(s, P) = 1..Cardinality(P) /\ Len(Elements(s, P)) = Cardinality(P)
         /\ \A k \in 1..Cardinality(P) : \E i \in P : Elements(s, P)[k] = s[i]
         /\ \A i \in P : \E k \in 1..Cardinality(P) : Elements(s, P)[k] = s[i]
         /\ P = {} <=> Elements(s, P) = <<>>
<1>0. IsFiniteSet(1..n)
  BY FS_Interval
<1>1. P \in SUBSET Nat /\ IsFiniteSet(P)
  <2>1. IsFiniteSet(P)
    BY <1>0, FS_Subset
  <2> QED
    BY <2>1
<1>2. Cardinality(P) \in Nat
  BY <1>1, FS_CardinalityType
<1>3. Elements(s, P) = [k \in 1..Cardinality(P) |-> s[NthPosition(P, k)]]
  BY DEF Elements
<1>4. DOMAIN Elements(s, P) = 1..Cardinality(P) /\ Len(Elements(s, P)) = Cardinality(P)
  BY <1>2, <1>3
<1>5. \A k \in 1..Cardinality(P) : NthPosition(P, k) \in P
  BY <1>1, NthIs
<1>6. \A i \in P : Rank(P, i) \in 1..Cardinality(P) /\ NthPosition(P, Rank(P, i)) = i
  BY <1>1, NthIs
<1>7. P = {} <=> Cardinality(P) = 0
  BY <1>1, FS_EmptySet
<1>8. P = {} => Elements(s, P) = <<>>
  BY NoElements
<1>9. Elements(s, P) = <<>> => Len(Elements(s, P)) = 0
  OBVIOUS
<1>10. \A k \in 1..Cardinality(P) : Elements(s, P)[k] = s[NthPosition(P, k)]
  BY <1>3
<1> QED
  BY <1>2, <1>4, <1>5, <1>6, <1>7, <1>8, <1>9, <1>10

LEMMA AllKept ==
  ASSUME NEW s, NEW n \in Nat, s = [i \in 1..n |-> s[i]]
  PROVE  Elements(s, 1..n) = s
<1> DEFINE P == 1..n
<1>1. P \in SUBSET Nat /\ IsFiniteSet(P) /\ Cardinality(P) = n
  BY FS_Interval
<1>2. \A i \in P : Rank(P, i) = i
  <2> TAKE i \in P
  <2>1. {j \in P : j <= i} = 1..i
    OBVIOUS
  <2>2. Cardinality(1..i) = i
    BY FS_Interval
  <2> QED
    BY <2>1, <2>2 DEF Rank
<1>3. \A i \in P : NthPosition(P, Rank(P, i)) = i
  BY <1>1, NthIs
<1>4. \A i \in P : NthPosition(P, i) = i
  BY <1>2, <1>3
<1>5. Elements(s, P) = [k \in 1..n |-> s[NthPosition(P, k)]]
  BY <1>1 DEF Elements
<1> HIDE DEF P
<1>6. [k \in 1..n |-> s[NthPosition(P, k)]] = [k \in 1..n |-> s[k]]
  BY <1>4 DEF P
<1> QED
  BY <1>5, <1>6 DEF P

\* A loop over the children of an element that all have the tag keeps them all.
LEMMA AllChildren ==
  ASSUME NEW tag, NEW e, NEW n \in Nat,
         e.children = [i \in 1..n |-> e.children[i]], \A i \in 1..n : e.children[i].tag = tag
  PROVE  Children(e, {tag}) = e.children
<1>1. DOMAIN e.children = 1..n
  OBVIOUS
<1>2. {i \in DOMAIN e.children : e.children[i].tag \in {tag}} = 1..n
  BY <1>1
<1> QED
  BY <1>2, AllKept DEF Children

LEMMA NoChildren == \A e, tags : e.children = <<>> => Children(e, tags) = <<>>
BY NoElements DEF Children

\* Of two children, one has the tag.
LEMMA FirstOfTwo ==
  ASSUME NEW e, NEW a, NEW b, NEW tag, e.children = <<a, b>>, a.tag = tag, b.tag # tag
  PROVE  Children(e, {tag}) = <<a>>
<1>1. {i \in DOMAIN e.children : e.children[i].tag \in {tag}} = {1}
  <2>1. DOMAIN e.children = {1, 2} /\ e.children[1] = a /\ e.children[2] = b
    OBVIOUS
  <2> QED
    BY <2>1
<1>2. e.children[1] = a
  OBVIOUS
<1> QED
  BY <1>1, <1>2, OneElement DEF Children

LEMMA SecondOfTwo ==
  ASSUME NEW e, NEW a, NEW b, NEW tag, e.children = <<a, b>>, b.tag = tag, a.tag # tag
  PROVE  Children(e, {tag}) = <<b>>
<1>1. {i \in DOMAIN e.children : e.children[i].tag \in {tag}} = {2}
  <2>1. DOMAIN e.children = {1, 2} /\ e.children[1] = a /\ e.children[2] = b
    OBVIOUS
  <2> QED
    BY <2>1
<1>2. e.children[2] = b
  OBVIOUS
<1> QED
  BY <1>1, <1>2, OneElement DEF Children

LEMMA NeitherOfTwo ==
  ASSUME NEW e, NEW a, NEW b, NEW tag, e.children = <<a, b>>, b.tag # tag, a.tag # tag
  PROVE  Children(e, {tag}) = <<>>
<1>1. {i \in DOMAIN e.children : e.children[i].tag \in {tag}} = {}
  OBVIOUS
<1> QED
  BY <1>1, NoElements DEF Children

\* A value is read back from its element.
LEMMA ValueRead ==
  ASSUME NEW n, IsSrNode(n), ~IsEmpty(n)
  PROVE  /\ ValueTag(n).tag \in {"uri", "bnode", "literal"} /\ ValueTag(n).tag # "unbound"
         /\ ReadRightly(bindingToNode([name |-> "", type |-> ValueTag(n).tag, text |-> ValueTag(n).text]), n)
<1>1. n = [type |-> n.type, text |-> n.text]
  BY DEF IsSrNode, IsNode
<1>2. CASE IsResource(n)
  <2>1. n.text # NoText /\ ~IsLiteral(n) /\ n.type = "ResourceNode"
    BY <1>2 DEF IsSrNode, IsResource, IsEmpty, IsLiteral
  <2>2. ValueTag(n).tag = "uri" /\ ValueTag(n).text = n.text
    BY <1>2 DEF ValueTag, Tag, IsResource, IsBlank, IsLiteral
  <2>3. Resource(n.text) = n
    BY <1>1, <2>1 DEF Resource
  <2> QED
    BY <2>1, <2>2, <2>3 DEF bindingToNode, ReadRightly
<1>3. CASE IsBlank(n)
  <2>1. n.text # NoText /\ ~IsLiteral(n) /\ n.type = "BlankNode"
    BY <1>3 DEF IsSrNode, IsBlank, IsEmpty, IsLiteral
  <2>2. ValueTag(n).tag = "bnode" /\ ValueTag(n).text = n.text
    BY <1>3 DEF ValueTag, Tag, IsResource, IsBlank, IsLiteral
  <2>3. Blank(n.text) = n
    BY <1>1, <2>1 DEF Blank
  <2> QED
    BY <2>1, <2>2, <2>3 DEF bindingToNode, ReadRightly
<1>4. CASE IsLiteral(n)
  <2>1. n.type = "LiteralNode"
    BY <1>4 DEF IsLiteral
  <2>2. ValueTag(n).tag = "literal" /\ ValueTag(n).text = n.text
    BY <1>4 DEF ValueTag, Tag, IsResource, IsBlank, IsLiteral
  <2>3. Literal(n.text) = n
    BY <1>1, <2>1 DEF Literal
  <2> QED
    BY <1>4, <2>2, <2>3 DEF bindingToNode, literalToNode, ReadRightly
<1> QED
  BY <1>2, <1>3, <1>4 DEF IsSrNode

\* So is a binding, in each way an endpoint may write it.
LEMMA BindingRead ==
  ASSUME NEW row, NEW name, NEW style, IsSrNode(row[name])
  PROVE  /\ BindingTag(row, name, style).tag = "binding"
         /\ parseBinding(BindingTag(row, name, style)).name = name
         /\ ReadRightly(bindingToNode(parseBinding(BindingTag(row, name, style))), row[name])
<1> DEFINE e == BindingTag(row, name, style)
           values == Children(e, {"uri", "bnode", "literal", "unbound"})
<1>1. e.tag = "binding" /\ e.name = name
  BY DEF BindingTag, Tag
<1>2. parseBinding(e) = IF values = <<>> THEN [name |-> e.name, type |-> "none", text |-> NoText]
                        ELSE [name |-> e.name, type |-> Last(values).tag, text |-> Last(values).text]
  BY DEF parseBinding
<1>3. e.children = IF ~IsEmpty(row[name]) THEN <<ValueTag(row[name])>>
                   ELSE IF style = "unbound" THEN <<Tag("unbound", "", NoText, <<>>)>> ELSE <<>>
  BY DEF BindingTag, Tag
<1>4. ASSUME NEW child, e.children = <<child>>, child.tag \in {"uri", "bnode", "literal", "unbound"}
      PROVE  values = <<child>>
  <2>1. {i \in DOMAIN e.children : e.children[i].tag \in {"uri", "bnode", "literal", "unbound"}} = {1}
    <3>1. DOMAIN e.children = {1} /\ e.children[1] = child
      BY <1>4
    <3> QED
      BY <1>4, <3>1
  <2>2. e.children[1] = child
    BY <1>4
  <2>3. Elements(e.children, {1}) = <<e.children[1]>>
    BY OneElement
  <2> QED
    BY <2>1, <2>2, <2>3 DEF Children
<1>5. \A child : values = <<child>> => Last(values) = child /\ values # <<>>
  BY DEF Last
<1>6. e.children = <<>> => values = <<>>
  BY NoChildren
<1> HIDE DEF e, values
<1>7. CASE ~IsEmpty(row[name])
  <2>1. e.children = <<ValueTag(row[name])>>
    BY <1>3, <1>7
  <2>2. values = <<ValueTag(row[name])>>
    BY <1>4, <1>7, <2>1, ValueRead
  <2>3. parseBinding(e) = [name |-> e.name, type |-> ValueTag(row[name]).tag, text |-> ValueTag(row[name]).text]
    BY <1>2, <1>5, <2>2
  <2>4. bindingToNode(parseBinding(e)) =
        bindingToNode([name |-> "", type |-> ValueTag(row[name]).tag, text |-> ValueTag(row[name]).text])
    BY <2>3 DEF bindingToNode
  <2>5. parseBinding(e).name = e.name
    BY <2>3
  <2> QED
    BY <1>1, <1>7, <2>4, <2>5, ValueRead DEF e
<1>8. CASE IsEmpty(row[name])
  <2>1. parseBinding(e).name = e.name /\ parseBinding(e).text = NoText /\ parseBinding(e).type \in {"none", "unbound"}
    <3>1. CASE style = "unbound"
      <4> DEFINE child == Tag("unbound", "", NoText, <<>>)
      <4>1. child.tag = "unbound" /\ child.text = NoText
        BY DEF Tag
      <4> HIDE DEF child
      <4>2. e.children = <<child>>
        BY <1>3, <1>8, <3>1 DEF child
      <4>3. values = <<child>>
        BY <1>4, <4>1, <4>2
      <4> QED
        BY <1>2, <1>5, <4>1, <4>3
    <3>2. CASE style # "unbound"
      <4>1. e.children = <<>>
        BY <1>3, <1>8, <3>2
      <4> QED
        BY <1>2, <1>6, <4>1
    <3> QED
      BY <3>1, <3>2
  <2>2. bindingToNode(parseBinding(e)) \in {Empty, Literal(NoText)}
    BY <2>1 DEF bindingToNode, literalToNode
  <2> QED
    BY <1>1, <1>8, <2>1, <2>2 DEF e, ReadRightly
<1> QED
  BY <1>7, <1>8

\* What a row must be made of
Found(parsed, name) == Elements(parsed, {i \in DOMAIN parsed : parsed[i].name = name})
RowMeans(parsed, row, names) ==
  \A name : /\ Found(parsed, name) # <<>> =>
                 name \in names /\ ReadRightly(bindingToNode(Head(Found(parsed, name))), row[name])
            /\ Found(parsed, name) = <<>> /\ name \in names => IsEmpty(row[name])

\* The binding elements of a row are its names, without unbound ones or with them.
LEMMA RowRead ==
  ASSUME NEW row, NEW order, NEW n \in Nat, order = [k \in 1..n |-> order[k]], NEW style,
         \A k \in 1..n : IsSrNode(row[order[k]])
  PROVE  RowMeans(parseResult(RowTag(row, order, style)), row, {order[k] : k \in 1..n})
<1> DEFINE bound == {k \in DOMAIN order : ~IsEmpty(row[order[k]])}
           written == IF style = "omit" THEN Elements(order, bound) ELSE order
           tags == [i \in DOMAIN written |-> BindingTag(row, written[i], style)]
           e == RowTag(row, order, style)
           parsed == [i \in DOMAIN written |-> parseBinding(BindingTag(row, written[i], style))]
<1>1. DOMAIN order = 1..n
  OBVIOUS
<1>2. \E m \in Nat : /\ DOMAIN written = 1..m
                     /\ \A k \in 1..m : \E i \in 1..n : written[k] = order[i]
                     /\ \A i \in 1..n : ~IsEmpty(row[order[i]]) => \E k \in 1..m : written[k] = order[i]
  <2>1. CASE style = "omit"
    <3>1. bound \in SUBSET (1..n)
      BY <1>1
    <3>2. written = Elements(order, bound)
      BY <2>1
    <3>3. \A i \in 1..n : ~IsEmpty(row[order[i]]) => i \in bound
      BY <1>1
    <3> HIDE DEF bound, written
    <3>4. /\ Cardinality(bound) \in Nat /\ DOMAIN Elements(order, bound) = 1..Cardinality(bound)
          /\ \A k \in 1..Cardinality(bound) : \E i \in bound : Elements(order, bound)[k] = order[i]
          /\ \A i \in bound : \E k \in 1..Cardinality(bound) : Elements(order, bound)[k] = order[i]
      BY <3>1, KeptElements
    <3>5. \A k \in 1..Cardinality(bound) : \E i \in 1..n : Elements(order, bound)[k] = order[i]
      BY <3>1, <3>4
    <3> QED
      BY <3>2, <3>3, <3>4, <3>5
  <2>2. CASE style # "omit"
    BY <1>1, <2>2
  <2> QED
    BY <2>1, <2>2
<1>3. PICK m \in Nat : /\ DOMAIN written = 1..m
                       /\ \A k \in 1..m : \E i \in 1..n : written[k] = order[i]
                       /\ \A i \in 1..n : ~IsEmpty(row[order[i]]) => \E k \in 1..m : written[k] = order[i]
  BY <1>2
<1>4. e.children = tags
  BY DEF RowTag, Tag
<1> HIDE DEF bound, written
<1>5. \A k \in 1..m : IsSrNode(row[written[k]])
  BY <1>3
<1>6. \A k \in 1..m : tags[k] = BindingTag(row, written[k], style) /\ tags[k].tag = "binding"
  BY <1>3, <1>5, BindingRead
<1>7. Children(e, {"binding"}) = tags
  <2>1. tags = [i \in 1..m |-> tags[i]]
    BY <1>3
  <2> HIDE DEF tags, e
  <2>2. e.children = [i \in 1..m |-> e.children[i]] /\ \A i \in 1..m : e.children[i].tag = "binding"
    BY <1>4, <1>6, <2>1
  <2> QED
    BY <1>4, <2>2, AllChildren
<1>8. parseResult(e) = parsed
  <2>1. parseResult(e) = [i \in DOMAIN tags |-> parseBinding(tags[i])]
    BY <1>7 DEF parseResult
  <2> QED
    BY <2>1
<1>9. DOMAIN parsed = 1..m
  BY <1>3
<1>10. \A k \in 1..m : parsed[k] = parseBinding(BindingTag(row, written[k], style))
  BY <1>3
<1> HIDE DEF parsed
<1>11. \A k \in 1..m : parsed[k].name = written[k] /\ ReadRightly(bindingToNode(parsed[k]), row[written[k]])
  BY <1>5, <1>10, BindingRead
<1>12. ASSUME NEW name
       PROVE  /\ Found(parsed, name) # <<>> =>
                   name \in {order[k] : k \in 1..n} /\ ReadRightly(bindingToNode(Head(Found(parsed, name))), row[name])
              /\ Found(parsed, name) = <<>> /\ name \in {order[k] : k \in 1..n} => IsEmpty(row[name])
  <2> DEFINE P == {i \in DOMAIN parsed : parsed[i].name = name}
  <2>1. P \in SUBSET (1..m) /\ \A i \in P : written[i] = name
    BY <1>9, <1>11
  <2>2. \A i \in 1..m : written[i] = name => i \in P
    BY <1>9, <1>11
  <2>3. Found(parsed, name) = Elements(parsed, P)
    BY DEF Found
  <2> HIDE DEF P
  <2>4. (P = {}) <=> (Elements(parsed, P) = <<>>)
    BY <2>1, KeptElements
  <2>5. CASE P # {}
    <3>1. Cardinality(P) \in Nat /\ Cardinality(P) # 0
      <4>0. m \in Int /\ 1 \in Int
        BY <1>3
      <4>1. IsFiniteSet(1..m)
        BY <4>0, FS_Interval
      <4>2. IsFiniteSet(P)
        BY <2>1, <4>1, FS_Subset
      <4> QED
        BY <2>5, <4>2, FS_EmptySet, FS_CardinalityType
    <3>2. \E i \in P : Elements(parsed, P)[1] = parsed[i]
      <4>1. \A k \in 1..Cardinality(P) : \E i \in P : Elements(parsed, P)[k] = parsed[i]
        BY <1>3, <2>1, KeptElements
      <4> QED
        BY <3>1, <4>1
    <3>3. Head(Elements(parsed, P)) = Elements(parsed, P)[1]
      OBVIOUS
    <3>4. PICK i \in P : Head(Found(parsed, name)) = parsed[i]
      BY <2>3, <3>2, <3>3
    <3>5. i \in 1..m /\ written[i] = name
      BY <2>1
    <3>6. \E k \in 1..n : name = order[k]
      BY <1>3, <3>5
    <3> QED
      BY <1>11, <2>3, <2>4, <2>5, <3>4, <3>5, <3>6
  <2>6. CASE P = {}
    <3>1. ASSUME NEW k \in 1..n, name = order[k] PROVE IsEmpty(row[name])
      BY <1>3, <2>2, <2>6, <3>1
    <3> QED
      BY <2>3, <2>4, <2>6, <3>1
  <2> QED
    BY <2>5, <2>6
<1> QED
  BY <1>8, <1>12 DEF RowMeans

\* A document is read back: the names in order, and row by row what was meant.
TableMeans(result, table) ==
  /\ result.names = table.names
  /\ Len(result.rows) = Len(table.rows) /\ DOMAIN result.rows = DOMAIN table.rows
  /\ \A i \in DOMAIN table.rows : RowMeans(result.rows[i], table.rows[i], Range(table.names))

LEMMA TableRead ==
  ASSUME NEW table \in SrTables, NEW style, NEW order \in {table.names, Reverse(table.names)}
  PROVE  /\ TableDocument(table, order, style).tag = "sparql"
         /\ ~parseSparql(TableDocument(table, order, style)).isBool
         /\ TableMeans(parseSparql(TableDocument(table, order, style)), table)
<1> DEFINE n == Len(table.names)
           m == Len(table.rows)
           names == table.names
           rows == table.rows
           variables == [i \in DOMAIN names |-> Tag("variable", names[i], NoText, <<>>)]
           results == [i \in DOMAIN rows |-> RowTag(rows[i], order, style)]
           head == Tag("head", "", NoText, variables)
           body == Tag("results", "", NoText, results)
           e == TableDocument(table, order, style)
<1>1. n \in Nat /\ DOMAIN names = 1..n /\ names = [i \in 1..n |-> names[i]] /\ m \in Nat /\ DOMAIN rows = 1..m
  <2>1. names \in Seq(Range(names)) /\ rows \in Seq(Range(rows))
    BY SrTablesAssumption
  <2> HIDE DEF names, rows
  <2>2. Len(names) \in Nat /\ DOMAIN names = 1..Len(names) /\ names = [i \in 1..Len(names) |-> names[i]]
        /\ Len(rows) \in Nat /\ DOMAIN rows = 1..Len(rows)
    BY <2>1
  <2> QED
    BY <2>2 DEF names, rows
<1>2. order = [i \in 1..n |-> order[i]] /\ {order[k] : k \in 1..n} = Range(names)
  <2>1. Range(names) = {names[k] : k \in 1..n}
    BY <1>1 DEF Range
  <2>2. CASE order = names
    BY <1>1, <2>1, <2>2
  <2>3. CASE order = Reverse(names)
    <3>1. order = [i \in 1..n |-> names[n - i + 1]]
      BY <2>3 DEF Reverse
    <3>2. \A i \in 1..n : n - i + 1 \in 1..n /\ n - (n - i + 1) + 1 = i
      BY <1>1
    <3> HIDE DEF n, names
    <3>3. \A i \in 1..n : order[i] = names[n - i + 1]
      BY <3>1
    <3>4. \A i \in 1..n : order[n - i + 1] = names[i]
      BY <3>2, <3>3
    <3>5. {order[k] : k \in 1..n} = {names[k] : k \in 1..n}
      BY <3>2, <3>3, <3>4
    <3> QED
      BY <2>1, <3>1, <3>5
  <2> QED
    BY <2>2, <2>3
<1>3. ASSUME NEW i \in DOMAIN rows
      PROVE  RowMeans(parseResult(RowTag(rows[i], order, style)), rows[i], Range(names))
  <2>1. rows[i] \in Range(rows)
    BY DEF Range
  <2>2. \A name \in Range(names) : IsSrNode(rows[i][name])
    BY <2>1, SrTablesAssumption
  <2>3. \A k \in 1..n : IsSrNode(rows[i][order[k]])
    BY <1>2, <2>2
  <2> DEFINE row == rows[i]
  <2>4. \A k \in 1..n : IsSrNode(row[order[k]])
    BY <2>3
  <2> HIDE DEF n, names, row, rows
  <2>5. RowMeans(parseResult(RowTag(row, order, style)), row, {order[k] : k \in 1..n})
    <3>1. n \in Nat /\ order = [k \in 1..n |-> order[k]]
      BY <1>1, <1>2
    <3> HIDE DEF RowMeans
    <3> QED
      BY <2>4, <3>1, RowRead
  <2> QED
    BY <1>2, <2>5 DEF row
<1>4. e.tag = "sparql" /\ e.children = <<head, body>>
  BY DEF TableDocument, Tag
<1>5. head.tag = "head" /\ head.children = variables /\ body.tag = "results" /\ body.children = results
  BY DEF Tag
<1>6. variables = [i \in 1..n |-> variables[i]] /\ \A i \in 1..n : variables[i].tag = "variable" /\ variables[i].name = names[i]
  BY <1>1 DEF Tag
<1>7. results = [i \in 1..m |-> results[i]] /\ \A i \in 1..m : results[i].tag = "result" /\ results[i] = RowTag(rows[i], order, style)
  BY <1>1 DEF RowTag, Tag
<1> HIDE DEF e, head, body, variables, results, n, m, names, rows
<1>8. Children(head, {"variable"}) = variables /\ Children(body, {"result"}) = results
  <2>1. head.children = [i \in 1..n |-> head.children[i]] /\ \A i \in 1..n : head.children[i].tag = "variable"
    BY <1>5, <1>6
  <2>2. body.children = [i \in 1..m |-> body.children[i]] /\ \A i \in 1..m : body.children[i].tag = "result"
    BY <1>5, <1>7
  <2>3. Children(head, {"variable"}) = head.children
    BY <1>1, <2>1, AllChildren
  <2>4. Children(body, {"result"}) = body.children
    BY <1>1, <2>2, AllChildren
  <2> QED
    BY <1>5, <2>3, <2>4
<1>9. parseHead(head) = names
  <2>1. parseHead(head) = [i \in DOMAIN variables |-> variables[i].name]
    BY <1>8 DEF parseHead
  <2>2. DOMAIN variables = 1..n
    BY <1>6
  <2>3. [i \in 1..n |-> variables[i].name] = [i \in 1..n |-> names[i]]
    BY <1>6
  <2> QED
    BY <1>1, <2>1, <2>2, <2>3
<1>10. parseResults(body) = [i \in 1..m |-> parseResult(RowTag(rows[i], order, style))]
  <2>1. parseResults(body) = [i \in DOMAIN results |-> parseResult(results[i])]
    BY <1>8 DEF parseResults
  <2>2. DOMAIN results = 1..m
    BY <1>7
  <2> QED
    BY <1>7, <2>1, <2>2
<1>11. Children(e, {"head"}) = <<head>> /\ Children(e, {"results"}) = <<body>> /\ Children(e, {"boolean"}) = <<>>
  <2>1. Children(e, {"head"}) = <<head>>
    BY <1>4, <1>5, FirstOfTwo
  <2>2. Children(e, {"results"}) = <<body>>
    BY <1>4, <1>5, SecondOfTwo
  <2>3. Children(e, {"boolean"}) = <<>>
    BY <1>4, <1>5, NeitherOfTwo
  <2> QED
    BY <2>1, <2>2, <2>3
<1>12. Last(<<head>>) = head /\ Last(<<body>>) = body /\ <<head>> # <<>> /\ <<body>> # <<>>
  BY DEF Last
<1>13. parseSparql(e).names = names /\ parseSparql(e).rows = parseResults(body) /\ parseSparql(e).isBool = FALSE
  BY <1>9, <1>11, <1>12 DEF parseSparql
<1>14. Len(parseSparql(e).rows) = m /\ DOMAIN parseSparql(e).rows = 1..m
       /\ \A i \in 1..m : parseSparql(e).rows[i] = parseResult(RowTag(rows[i], order, style))
  BY <1>1, <1>10, <1>13
<1>15. TableMeans(parseSparql(e), table)
  BY <1>1, <1>3, <1>13, <1>14 DEF TableMeans, names, rows, m
<1> QED
  BY <1>4, <1>13, <1>15 DEF e

LEMMA BooleanRead ==
  ASSUME NEW value \in BOOLEAN
  PROVE  /\ BooleanDocument(value).tag = "sparql"
         /\ parseSparql(BooleanDocument(value)).isBool = TRUE
         /\ parseSparql(BooleanDocument(value)).value = value
<1> DEFINE e == BooleanDocument(value)
           head == Tag("head", "", NoText, <<>>)
           body == Tag("boolean", "", IF value THEN <<"true">> ELSE <<"false">>, <<>>)
<1>1. e.tag = "sparql" /\ e.children = <<head, body>>
  BY DEF BooleanDocument, Tag
<1>2. head.tag = "head" /\ body.tag = "boolean" /\ parseBoolean(body) = value
  <2>1. body.text = IF value THEN <<"true">> ELSE <<"false">>
    BY DEF Tag
  <2>2. <<"true">> # <<"false">>
    OBVIOUS
  <2>3. parseBoolean(body) = (body.text = <<"true">>)
    BY DEF parseBoolean
  <2>4. head.tag = "head" /\ body.tag = "boolean"
    BY DEF Tag
  <2> HIDE DEF head, body
  <2>5. CASE value = TRUE
    BY <2>1, <2>3, <2>4, <2>5
  <2>6. CASE value = FALSE
    BY <2>1, <2>2, <2>3, <2>4, <2>6
  <2> QED
    BY <2>5, <2>6
<1> HIDE DEF e, head, body
<1>3. Children(e, {"boolean"}) = <<body>>
  BY <1>1, <1>2, SecondOfTwo
<1>4. Last(<<body>>) = body /\ <<body>> # <<>>
  BY DEF Last
<1>5. parseSparql(e).isBool = TRUE /\ parseSparql(e).value = parseBoolean(body)
  BY <1>3, <1>4 DEF parseSparql, parseBoolean
<1> QED
  BY <1>1, <1>2, <1>5 DEF e

LEMMA NothingRead ==
  ASSUME NEW document, document.children = <<>>
  PROVE  parseSparql(document) = NoAnswer
<1>1. \A tags : Children(document, tags) = <<>>
  BY NoChildren
<1> QED
  BY <1>1 DEF parseSparql, NoAnswer

(***************************************************************************)
(* Strengthening: not only what was read last but whatever could be read   *)
(* of a row is what the endpoint meant.                                    *)
(***************************************************************************)
ReadMeans(read, table, index) ==
  LET inRow == index \in DOMAIN table.rows
      known == read.name \in {table.names[i] : i \in DOMAIN table.names}
  IN /\ read.error = ~(inRow /\ known)
     /\ inRow /\ known => ReadRightly(read.node, table.rows[index][read.name])

RowsCounted ==
  /\ srIndex \in Nat /\ Len(srTable.rows) \in Nat /\ DOMAIN srTable.rows = 1..Len(srTable.rows)
  /\ srYielded = IF srIndex <= Len(srTable.rows) THEN srIndex ELSE Len(srTable.rows)

SrInv ==
  /\ srKind = "boolean" => srResult.value = srTable.value
  /\ srKind = "binding" =>
       /\ TableMeans(srResult, srTable)
       /\ RowsCounted
       /\ "" \notin Range(srTable.names)
       /\ srRead = NoRead \/ ReadMeans(srRead, srTable, srIndex)

LEMMA SrInvMeans == SrInv => RowsByName
BY DEF SrInv, RowsCounted, ReadMeans, RowsByName

LEMMA SrStarts == SrInit => SrInv
BY DEF SrInit, SrInv

LEMMA TablesAnswer ==
  ASSUME NEW table \in SrTables, NEW style, NEW order \in {table.names, Reverse(table.names)},
         srTable' = table, iteratorFromData(TableDocument(table, order, style))
  PROVE  SrInv'
<1> DEFINE document == TableDocument(table, order, style)
<1>1. document.tag = "sparql" /\ ~parseSparql(document).isBool /\ TableMeans(parseSparql(document), table)
  BY TableRead
<1> HIDE DEF document
<1>2. iteratorFromData(document)
  BY DEF document
<1>3. srResult' = parseSparql(document)
  BY <1>1, <1>2 DEF iteratorFromData
<1>4. srKind' = "binding" /\ srIndex' = 0 /\ srYielded' = 0 /\ srRead' = NoRead
  BY <1>1, <1>2, <1>3 DEF iteratorFromData
<1>5. Len(table.rows) \in Nat /\ DOMAIN table.rows = 1..Len(table.rows)
  <2>1. table.rows \in Seq(Range(table.rows))
    BY SrTablesAssumption
  <2> DEFINE rows == table.rows
  <2> HIDE DEF rows
  <2>2. Len(rows) \in Nat /\ DOMAIN rows = 1..Len(rows)
    BY <2>1 DEF rows
  <2> QED
    BY <2>2 DEF rows
<1>6. TableMeans(srResult', srTable')
  BY <1>1, <1>3
<1>7. RowsCounted'
  BY <1>4, <1>5 DEF RowsCounted
<1>8. "" \notin Range(srTable'.names)
  BY SrTablesAssumption
<1> QED
  BY <1>4, <1>6, <1>7, <1>8 DEF SrInv

LEMMA BooleansAnswer ==
  ASSUME NEW value \in BOOLEAN, srTable' = [NoTable EXCEPT !.value = value], iteratorFromData(BooleanDocument(value))
  PROVE  SrInv'
<1> DEFINE document == BooleanDocument(value)
<1>1. document.tag = "sparql" /\ parseSparql(document).isBool = TRUE /\ parseSparql(document).value = value
  BY BooleanRead
<1> HIDE DEF document
<1>2. iteratorFromData(document)
  BY DEF document
<1>3. srResult' = parseSparql(document)
  BY <1>1, <1>2 DEF iteratorFromData
<1>4. srKind' = "boolean"
  BY <1>1, <1>2, <1>3 DEF iteratorFromData
<1>5. srTable'.value = value
  BY DEF NoTable
<1> QED
  BY <1>1, <1>3, <1>4, <1>5 DEF SrInv

LEMMA OthersAnswer ==
  ASSUME NEW document \in SrOthers, srTable' = NoTable, iteratorFromData(document)
  PROVE  SrInv'
<1>1. CASE document.tag = "sparql"
  <2>1. parseSparql(document) = NoAnswer
    BY <1>1, SrOthersAssumption, NothingRead
  <2>2. srResult' = NoAnswer /\ srIndex' = 0 /\ srYielded' = 0 /\ srRead' = NoRead
    BY <1>1, <2>1 DEF iteratorFromData
  <2>3. srKind' = "binding"
    BY <1>1, <2>2 DEF iteratorFromData, NoAnswer
  <2>4. NoTable.rows = <<>> /\ NoTable.names = <<>> /\ NoAnswer.rows = <<>> /\ NoAnswer.names = <<>>
    BY DEF NoTable, NoAnswer
  <2>5. TableMeans(NoAnswer, NoTable)
    BY <2>4 DEF TableMeans
  <2>6. RowsCounted'
    BY <2>2, <2>4 DEF RowsCounted
  <2>7. "" \notin Range(NoTable.names)
    BY <2>4 DEF Range
  <2> QED
    BY <2>2, <2>3, <2>5, <2>6, <2>7 DEF SrInv
<1>2. CASE document.tag # "sparql"
  <2>1. srKind' \in {"graph", "invalid"}
    BY <1>2 DEF iteratorFromData
  <2> QED
    BY <2>1 DEF SrInv
<1> QED
  BY <1>1, <1>2

\* Whatever name or offset is read, of a row or outside of them.
LEMMA NamesRead ==
  ASSUME TableMeans(srResult, srTable), RowsCounted, NEW name
  PROVE  ReadMeans(bindingNamed(name), srTable, srIndex)
<1> DEFINE read == bindingNamed(name)
           row == srResult.rows[srIndex]
           names == {srTable.names[i] : i \in DOMAIN srTable.names}
           found == Found(row, name)
<1>1. read = IF srIndex \notin DOMAIN srResult.rows THEN [name |-> name, node |-> Empty, error |-> TRUE]
             ELSE IF found # <<>> THEN [name |-> name, node |-> bindingToNode(Head(found)), error |-> FALSE]
             ELSE [name |-> name, node |-> Empty, error |-> ~(name \in names)]
  <2>1. srResult.names = srTable.names
    BY DEF TableMeans
  <2> QED
    BY <2>1 DEF bindingNamed, Found
<1>2. DOMAIN srResult.rows = DOMAIN srTable.rows
  BY DEF TableMeans
<1>3. Range(srTable.names) = names
  BY DEF Range
<1> HIDE DEF read, row, names, found
<1>4. srIndex \in DOMAIN srTable.rows => RowMeans(row, srTable.rows[srIndex], names)
  BY <1>3 DEF TableMeans, row
<1>5. srIndex \in DOMAIN srTable.rows =>
        /\ found # <<>> => name \in names /\ ReadRightly(bindingToNode(Head(found)), srTable.rows[srIndex][name])
        /\ found = <<>> /\ name \in names => IsEmpty(srTable.rows[srIndex][name])
  BY <1>4 DEF RowMeans, found
<1>6. read.name = name
  BY <1>1
<1>7. read.error = ~(srIndex \in DOMAIN srTable.rows /\ name \in names)
  <2>1. CASE srIndex \notin DOMAIN srTable.rows
    BY <1>1, <1>2, <2>1
  <2>2. CASE srIndex \in DOMAIN srTable.rows /\ found # <<>>
    BY <1>1, <1>2, <1>5, <2>2
  <2>3. CASE srIndex \in DOMAIN srTable.rows /\ found = <<>>
    BY <1>1, <1>2, <1>5, <2>3
  <2> QED
    BY <2>1, <2>2, <2>3
<1>8. ASSUME srIndex \in DOMAIN srTable.rows, name \in names
      PROVE  ReadRightly(read.node, srTable.rows[srIndex][name])
  <2>1. CASE found # <<>>
    BY <1>1, <1>2, <1>5, <1>8, <2>1
  <2>2. CASE found = <<>>
    BY <1>1, <1>2, <1>5, <1>8, <2>2 DEF ReadRightly
  <2> QED
    BY <2>1, <2>2
<1> QED
  BY <1>6, <1>7, <1>8 DEF ReadMeans, read, names

LEMMA SrSteps == SrInv /\ [SrNext]_srVars => SrInv'
<1> SUFFICES ASSUME SrInv, [SrNext]_srVars PROVE SrInv'
  OBVIOUS
<1>1. CASE answered
  <2>1. CASE \E table \in SrTables, style \in {"omit", "unbound", "empty"} :
               \E order \in {table.names, Reverse(table.names)} :
                 srTable' = table /\ iteratorFromData(TableDocument(table, order, style))
    BY <2>1, TablesAnswer
  <2>2. CASE \E value \in BOOLEAN :
               srTable' = [NoTable EXCEPT !.value = value] /\ iteratorFromData(BooleanDocument(value))
    BY <2>2, BooleansAnswer
  <2>3. CASE \E document \in SrOthers : srTable' = NoTable /\ iteratorFromData(document)
    BY <2>3, OthersAnswer
  <2> QED
    BY <1>1, <2>1, <2>2, <2>3 DEF answered
<1>2. CASE srNext
  <2>1. /\ srKind' = "binding" /\ TableMeans(srResult', srTable') /\ srRead' = NoRead
        /\ "" \notin Range(srTable'.names)
    BY <1>2 DEF srNext, SrInv
  <2>2. RowsCounted'
    <3>1. RowsCounted /\ Len(srResult.rows) = Len(srTable.rows)
      BY <1>2 DEF srNext, SrInv, TableMeans
    <3> QED
      BY <1>2, <3>1 DEF srNext, RowsCounted
  <2> QED
    BY <2>1, <2>2 DEF SrInv
<1>3. CASE readBinding
  <2>1. /\ srKind = "binding" /\ UNCHANGED <<srTable, srKind, srResult, srIndex, srYielded>>
        /\ TableMeans(srResult, srTable) /\ RowsCounted /\ "" \notin Range(srTable.names)
    BY <1>3 DEF readBinding, SrInv
  <2>2. \A name : ReadMeans(bindingNamed(name), srTable, srIndex)
    BY <2>1, NamesRead
  <2>3. ReadMeans([NoRead EXCEPT !.error = TRUE], srTable, srIndex)
    BY <2>1 DEF ReadMeans, NoRead, Range
  <2>4. \A offset : ReadMeans(bindingAt(offset), srTable, srIndex)
    BY <2>2, <2>3 DEF bindingAt
  <2>5. (\E name : srRead' = bindingNamed(name)) \/ (\E offset : srRead' = bindingAt(offset))
    BY <1>3 DEF readBinding
  <2>6. ReadMeans(srRead', srTable, srIndex)
    <3> HIDE DEF ReadMeans, bindingNamed, bindingAt
    <3> QED
      BY <2>2, <2>4, <2>5
  <2>7. ReadMeans(srRead', srTable', srIndex')
    BY <2>1, <2>6
  <2>8. RowsCounted'
    BY <2>1 DEF RowsCounted
  <2> QED
    BY <2>1, <2>7, <2>8 DEF SrInv
<1>4. CASE UNCHANGED srVars
  BY <1>4 DEF srVars, SrInv, RowsCounted
<1> QED
  BY <1>1, <1>2, <1>3, <1>4 DEF SrNext

(***************************************************************************)
(* Whatever table an endpoint answers with, in whatever order it writes a  *)
(* row and whatever it leaves out of it, next() gives every row once and   *)
(* in order, and binding() the node of that row and that variable          *)
(* (SparqlQueryResult::next, binding and the parser it reads from).        *)
(***************************************************************************)
THEOREM RowsStayByName == SrInit /\ [][SrNext]_srVars => []RowsByName
BY SrStarts, SrSteps, SrInvMeans, PTL

(***************************************************************************)
(* The SPARQL client as a whole: every call gets the answer to its own     *)
(* request (sparqlmodel.cpp and sparqlprotocol.cpp), and every read the    *)
(* node the answer has for it (sparqlqueryresult.cpp and the parser).      *)
(***************************************************************************)
THEOREM SparqlClientStaysExact ==
  SrInit /\ [][SrNext]_srVars /\ SpInit /\ [][SpNext]_spVars => []SparqlClientExact
<1>1. RowsByName /\ AnswersOwn => SparqlClientExact
  BY DEF SparqlClientExact
<1> QED
  BY <1>1, RowsStayByName, AnswersStayOwn, PTL
=============================================================================
