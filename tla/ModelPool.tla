----------------------------- MODULE ModelPool -----------------------------
(***************************************************************************)
(* server/modelpool.cpp and the models of servercore.cpp, used by the      *)
(* threads of several connections (serverconnection.cpp) and by the thread *)
(* of the D-Bus interface, which knows the core only.  The pool's methods  *)
(* hold its mutex; the core's do not, so a removal is three steps.         *)
(*                                                                         *)
(* A model is a number in the order of creation; 0 is the model that could *)
(* not be created.  What a connection does with a model it has looked up   *)
(* is not here, nor what two changes of the core's QHash, which has no     *)
(* lock, do to its memory when they overlap.                               *)
(***************************************************************************)
EXTENDS Integers, Sequences, SequencesExt

CONSTANTS
  MpConnections,  \* the threads of the connections
  MpNames,        \* names of models
  MpRemoved,      \* those of them that somebody may remove
  MpIdNumbers,    \* what RandomGenerator returns
  MpMaxModels     \* bound on the models that are created

ASSUME MpMaxModelsAssumption == MpMaxModels \in Nat

VARIABLES
  mpModels,       \* ServerCore: models, by name
  mpIdMap,        \* ModelPool: models by id
  mpNameMap,      \* ModelPool: ids by name
  mpStorageDir,   \* whether the settings have a storage directory
  mpStep,         \* what each thread has left to do of its call
  mpName,         \* the name of each model that was created
  mpDeleted,      \* models that were deleted
  mpWiped,        \* models that lost their data on disk while in use
  mpOverlapped    \* history: names created, and models created, below a removal

mpVars == <<mpModels, mpIdMap, mpNameMap, mpStorageDir, mpStep, mpName, mpDeleted, mpWiped, mpOverlapped>>

DBusThread == "dbus"
MpThreads == MpConnections \cup {DBusThread}
MpIdle == [at |-> "idle", name |-> ""]
MpAt(t, step) == mpStep[t].at = step

\* threads that are about to delete the model of that name, or its data
Removing(name, step) == \E t \in MpThreads : MpAt(t, step) /\ mpStep[t].name = name

MpInit ==
  /\ mpModels = <<>> /\ mpIdMap = <<>> /\ mpNameMap = <<>>
  /\ mpStorageDir \in BOOLEAN
  /\ mpStep = [t \in MpThreads |-> MpIdle]
  /\ mpName = <<>> /\ mpDeleted = {} /\ mpWiped = {}
  /\ mpOverlapped = [names |-> {}, models |-> {}]

MpWith(f, key, value) == [x \in DOMAIN f \cup {key} |-> IF x = key THEN value ELSE f[x]]
MpWithout(f, key) == Restrict(f, DOMAIN f \ {key})

\* ServerCore::model(name): the model that is returned.  One that cannot be created is kept as 0.
coreModel(name, m) ==
  IF name \in DOMAIN mpModels
  THEN m = mpModels[name] /\ UNCHANGED <<mpModels, mpName>>
  ELSE /\ m \in {0, Len(mpName) + 1} /\ m <= MpMaxModels
       /\ mpModels' = MpWith(mpModels, name, m)
       /\ mpName' = IF m = 0 THEN mpName ELSE Append(mpName, name)

Created(name, m, pooled) ==
  mpOverlapped' = [names |-> mpOverlapped.names \cup (IF pooled /\ Removing(name, "delete") THEN {name} ELSE {}),
                   models |-> mpOverlapped.models \cup (IF Removing(name, "wipe") THEN {m} ELSE {})]

generateUniqueId == MpIdNumbers \ DOMAIN mpIdMap

\* ModelPool::removeModel, which first looks for an id it may not have
poolRemove(name) ==
  /\ mpIdMap' = IF name \in DOMAIN mpNameMap THEN MpWithout(mpIdMap, mpNameMap[name]) ELSE MpWithout(mpIdMap, 0)
  /\ mpNameMap' = MpWithout(mpNameMap, name)
-----------------------------------------------------------------------------
\* The command createModel of a connection, ModelPool::idForModelName: the id of a name, 0 if there
\* is no model, which is no error.
createPooled(t, name) ==
  /\ t \in MpConnections /\ MpAt(t, "idle")
  /\ IF name \in DOMAIN mpNameMap
     THEN UNCHANGED <<mpModels, mpName, mpIdMap, mpNameMap, mpOverlapped>>
     ELSE \E m \in 0..MpMaxModels :
            /\ coreModel(name, m)
            /\ IF m = 0 THEN UNCHANGED <<mpIdMap, mpNameMap, mpOverlapped>>
               ELSE /\ \E id \in generateUniqueId :
                         mpIdMap' = MpWith(mpIdMap, id, m) /\ mpNameMap' = MpWith(mpNameMap, name, id)
                    /\ Created(name, m, TRUE)
  /\ UNCHANGED <<mpStorageDir, mpStep, mpDeleted, mpWiped>>

\* The command removeModel of a connection, as far as the pool
removePooled(t, name) ==
  /\ t \in MpConnections /\ MpAt(t, "idle")
  /\ poolRemove(name)
  /\ mpStep' = [mpStep EXCEPT ![t] = [at |-> "delete", name |-> name]]
  /\ mpOverlapped' = [mpOverlapped EXCEPT !.names = @ \ {name}]
  /\ UNCHANGED <<mpModels, mpStorageDir, mpName, mpDeleted, mpWiped>>

\* DBusServerAdaptor: createModel and removeModel of the core
createOnBus(name) ==
  /\ MpAt(DBusThread, "idle")
  /\ \E m \in 0..MpMaxModels : coreModel(name, m) /\ Created(name, m, FALSE)
  /\ UNCHANGED <<mpIdMap, mpNameMap, mpStorageDir, mpStep, mpDeleted, mpWiped>>

removeOnBus(name) ==
  /\ MpAt(DBusThread, "idle")
  /\ mpStep' = [mpStep EXCEPT ![DBusThread] = [at |-> "delete", name |-> name]]
  /\ mpOverlapped' = [mpOverlapped EXCEPT !.names = @ \cup ({name} \cap DOMAIN mpNameMap)]
  /\ UNCHANGED <<mpModels, mpIdMap, mpNameMap, mpStorageDir, mpName, mpDeleted, mpWiped>>

\* ServerCore::removeModel: the model leaves the list and is deleted, then its data
deleteModel(t) ==
  /\ MpAt(t, "delete")
  /\ LET name == mpStep[t].name
         found == name \in DOMAIN mpModels
     IN /\ mpModels' = MpWithout(mpModels, name)
        /\ mpDeleted' = mpDeleted \cup (IF found THEN {mpModels[name]} \ {0} ELSE {})
        /\ mpStep' = [mpStep EXCEPT ![t] = IF found /\ mpStorageDir THEN [@ EXCEPT !.at = "wipe"] ELSE MpIdle]
  /\ UNCHANGED <<mpIdMap, mpNameMap, mpStorageDir, mpName, mpWiped, mpOverlapped>>

deleteModelData(t) ==
  /\ MpAt(t, "wipe")
  /\ LET name == mpStep[t].name
     IN mpWiped' = mpWiped \cup (IF name \in DOMAIN mpModels THEN {mpModels[name]} \ {0} ELSE {})
  /\ mpStep' = [mpStep EXCEPT ![t] = MpIdle]
  /\ UNCHANGED <<mpModels, mpIdMap, mpNameMap, mpStorageDir, mpName, mpDeleted, mpOverlapped>>

MpNext ==
  \/ \E t \in MpThreads : deleteModel(t) \/ deleteModelData(t)
  \/ \E name \in MpNames : createOnBus(name) \/ \E t \in MpConnections : createPooled(t, name)
  \/ \E name \in MpRemoved : removeOnBus(name) \/ \E t \in MpConnections : removePooled(t, name)
-----------------------------------------------------------------------------
(***************************************************************************)
(* modelpool.h: "Its sole purpose is to provide a unique mapping between   *)
(* Models and model ids for all ServerConnection instances".  Ids, names   *)
(* and models correspond one to one, and a name in the pool stands for the *)
(* model the core has under it, which is not deleted and has its data.     *)
(* What the pool does not see are a creation between the two halves of a   *)
(* removal and a removal through D-Bus (the id then stays with a deleted   *)
(* model), and a creation before the removal has deleted the data.  The id *)
(* 0 is special: removing a name that has no id removes the model of it.   *)
(***************************************************************************)
PoolExact ==
  LET named == {name \in DOMAIN mpNameMap : mpNameMap[name] # 0}
  IN /\ IsInjective([name \in named |-> mpNameMap[name]])
     /\ {mpNameMap[name] : name \in named} = DOMAIN mpIdMap \ {0}
     /\ \A name \in named :
          LET m == mpIdMap[mpNameMap[name]]
          IN /\ m # 0 /\ mpName[m] = name
             /\ name \in mpOverlapped.names \/ (name \in DOMAIN mpModels /\ mpModels[name] = m)
     /\ \A name \in DOMAIN mpModels : mpModels[name] \notin mpDeleted
     /\ mpWiped \subseteq mpOverlapped.models
=============================================================================
