--------------------------- MODULE Storage_proofs ---------------------------
(***************************************************************************)
(* Proofs about the storage backends and the models above them, for any    *)
(* sets of applications, threads, queries and statements: who may use the  *)
(* data of a Virtuoso server, who deletes the results of its connections,  *)
(* what a removal from it removes, what the iterators of Redland show and  *)
(* its removals remove, who holds the locks of the Redland and the Sesame2 *)
(* model, what the filter models hand on, what NRLModel keeps of its       *)
(* ontology, and what the full text index has of the statements of its     *)
(* model.                                                                  *)
(***************************************************************************)
EXTENDS VirtuosoController, Odbc, RedlandModel, RedlandIterators, Sesame2Model, VirtuosoModel,
        FilterModels, NRLModel, IndexFilterModel, FiniteSetTheorems, SequenceTheorems,
        WellFoundedInduction, TLAPS
-----------------------------------------------------------------------------
(***************************************************************************)
(* VirtuosoController.  The lock file is what the phases of start() and    *)
(* shutdown() are about: from takeLock on a controller has it until it is  *)
(* told that its server has ended.                                         *)
(***************************************************************************)
VcStates == {"NotRunning", "StartingUp", "Running", "ShuttingDown"}
VcPhases == {"idle", "lock", "check", "waitOld", "spawn", "wait", "waitFinished"}
ServerStates == {"starting", "online", "brokenLog", "stopping", "dead"}

VcTypeOK ==
  /\ vcStatus \in [Apps -> VcStates]
  /\ vcPhase \in [Apps -> VcPhases]
  /\ vcServer \in [Apps -> Nat] /\ \A a \in Apps : vcServer[a] <= Len(servers)
  /\ lockHolder \in Apps \cup {"none"}
  /\ servers \in Seq(ServerStates)
  /\ databaseOf \in 0..Len(servers)

\* What a controller knows, has started and has locked in each phase
ControllerOK(a) ==
  /\ vcPhase[a] \in {"lock", "check", "waitOld", "spawn", "wait"} => vcStatus[a] = "StartingUp"
  /\ vcPhase[a] = "waitFinished" <=> vcStatus[a] = "ShuttingDown"
  /\ vcServer[a] # 0 <=> vcPhase[a] = "wait" \/ vcStatus[a] \in {"Running", "ShuttingDown"}
  /\ vcPhase[a] \in {"check", "waitOld", "spawn", "wait"} \/ vcServer[a] # 0 => lockHolder = a
  /\ vcStatus[a] = "NotRunning" => lockHolder # a

(***************************************************************************)
(* Only the server that has the database comes online, and it keeps the    *)
(* database until it is dead.                                              *)
(***************************************************************************)
OnlineHasDatabase ==
  /\ \A s \in DOMAIN servers : servers[s] \in {"online", "brokenLog"} => databaseOf = s
  /\ \A a \in Apps : vcStatus[a] = "Running" /\ Alive(vcServer[a]) => databaseOf = vcServer[a]

VcInv == VcTypeOK /\ OnlineHasDatabase /\ ~killedServed /\ \A a \in Apps : ControllerOK(a)
-----------------------------------------------------------------------------
LEMMA VcInitInv == VcInit => VcInv
<1> SUFFICES ASSUME VcInit PROVE VcInv
  OBVIOUS
<1> USE DEF VcInit
<1>1. VcTypeOK
  BY DEF VcTypeOK, VcStates, VcPhases
<1>2. OnlineHasDatabase
  BY DEF OnlineHasDatabase
<1>3. ASSUME NEW a \in Apps PROVE ControllerOK(a)
  BY <1>3, AppsAssumption DEF ControllerOK
<1> QED
  BY <1>1, <1>2, <1>3 DEF VcInv

(***************************************************************************)
(* The servers while nobody comes online: they may be started, told to     *)
(* stop, or die.                                                           *)
(***************************************************************************)
ServersGoOn ==
  /\ servers' \in Seq(ServerStates) /\ Len(servers') >= Len(servers)
  /\ \A s \in DOMAIN servers : servers[s] = "dead" => servers'[s] = "dead"
  /\ \A s \in DOMAIN servers' : servers'[s] \in {"online", "brokenLog"} => s \in DOMAIN servers /\ servers'[s] = servers[s]
  /\ databaseOf' = databaseOf

LEMMA ServersKept ==
  ASSUME VcTypeOK, UNCHANGED <<servers, databaseOf>>
  PROVE  ServersGoOn
  BY DEF VcTypeOK, ServersGoOn

LEMMA ServerStarted ==
  ASSUME VcTypeOK, servers' = Append(servers, "starting"), databaseOf' = databaseOf
  PROVE  ServersGoOn /\ Len(servers') = Len(servers) + 1
  BY DEF VcTypeOK, ServersGoOn, ServerStates

LEMMA ServerEnds ==
  ASSUME VcTypeOK, NEW s \in DOMAIN servers, NEW state \in {"stopping", "dead"},
         Alive(s) \/ state = "dead",
         servers' = [servers EXCEPT ![s] = state], databaseOf' = databaseOf
  PROVE  ServersGoOn /\ Len(servers') = Len(servers)
  BY DEF VcTypeOK, ServersGoOn, ServerStates, Alive

(***************************************************************************)
(* A step of one controller leaves the others alone if it does not take    *)
(* their lock.                                                             *)
(***************************************************************************)
LEMMA ControllerStep ==
  ASSUME VcInv, NEW a \in Apps, ServersGoOn,
         NEW status \in VcStates, NEW phase \in VcPhases, NEW server \in 0..Len(servers'),
         vcStatus' = [vcStatus EXCEPT ![a] = status],
         vcPhase' = [vcPhase EXCEPT ![a] = phase],
         vcServer' = [vcServer EXCEPT ![a] = server],
         lockHolder' \in Apps \cup {"none"},
         \A b \in Apps \ {a} : lockHolder' = b <=> lockHolder = b,
         status = "Running" => (vcStatus[a] = "Running" /\ server = vcServer[a]) \/ databaseOf = server,
         ControllerOK(a)', ~killedServed'
  PROVE  VcInv'
<1> USE DEF VcInv
<1>1. /\ vcStatus \in [Apps -> VcStates] /\ vcPhase \in [Apps -> VcPhases] /\ vcServer \in [Apps -> Nat]
      /\ \A b \in Apps : vcServer[b] <= Len(servers)
      /\ Len(servers) \in Nat /\ Len(servers') \in Nat /\ Len(servers) <= Len(servers')
      /\ databaseOf \in 0..Len(servers) /\ databaseOf' = databaseOf
  BY DEF VcTypeOK, ServersGoOn
<1>2. /\ vcStatus'[a] = status /\ vcPhase'[a] = phase /\ vcServer'[a] = server
      /\ \A b \in Apps \ {a} : vcStatus'[b] = vcStatus[b] /\ vcPhase'[b] = vcPhase[b] /\ vcServer'[b] = vcServer[b]
  BY <1>1
<1>3. VcTypeOK'
  <2>1. vcServer' \in [Apps -> Nat] /\ \A b \in Apps : vcServer'[b] <= Len(servers')
    BY <1>1, <1>2
  <2>2. vcStatus' \in [Apps -> VcStates] /\ vcPhase' \in [Apps -> VcPhases]
    BY <1>1
  <2>3. databaseOf' \in 0..Len(servers')
    BY <1>1
  <2> QED
    BY <2>1, <2>2, <2>3 DEF VcTypeOK, ServersGoOn
<1>4. ASSUME NEW b \in Apps PROVE ControllerOK(b)'
  <2>1. CASE b = a
    BY <2>1
  <2>2. CASE b # a
    BY <1>2, <2>2 DEF ControllerOK
  <2> QED
    BY <2>1, <2>2
<1>5. OnlineHasDatabase'
  <2>1. ASSUME NEW s \in DOMAIN servers', servers'[s] \in {"online", "brokenLog"} PROVE databaseOf' = s
    BY <2>1 DEF ServersGoOn, OnlineHasDatabase
  <2>2. ASSUME NEW b \in Apps, (vcStatus[b] = "Running" /\ Alive(vcServer[b]))'
        PROVE  databaseOf' = vcServer'[b]
    <3> vcStatus'[b] = "Running" /\ vcServer'[b] # 0 /\ servers'[vcServer'[b]] # "dead"
      BY <2>2 DEF Alive
    <3>1. CASE vcStatus[b] = "Running" /\ vcServer'[b] = vcServer[b]
      <4>1. vcServer[b] \in DOMAIN servers /\ servers[vcServer[b]] # "dead"
        BY <1>1, <3>1 DEF ServersGoOn, VcTypeOK
      <4> QED
        BY <1>1, <3>1, <4>1 DEF Alive, OnlineHasDatabase, VcTypeOK
    <3>2. CASE ~(vcStatus[b] = "Running" /\ vcServer'[b] = vcServer[b])
      <4>1. b = a
        BY <1>1, <1>2, <3>2
      <4> QED
        BY <1>1, <1>2, <3>2, <4>1
    <3> QED
      BY <3>1, <3>2
  <2> QED
    BY <2>1, <2>2 DEF OnlineHasDatabase
<1> QED
  BY <1>3, <1>4, <1>5

(***************************************************************************)
(* Steps of start() and shutdown() that leave the servers, or start one    *)
(***************************************************************************)
LEMMA VcBeginInv ==
  ASSUME VcInv, NEW a \in Apps, NEW forced \in BOOLEAN, start(a, forced) \/ takeLock(a) \/ waitOld(a)
  PROVE  VcInv'
<1>1. VcTypeOK /\ ControllerOK(a) /\ ~killedServed
  BY DEF VcInv
<1>2. ServersGoOn /\ UNCHANGED <<vcServer, servers, killedServed>>
  BY <1>1, ServersKept DEF start, takeLock, waitOld
<1>3. PICK status \in VcStates, phase \in VcPhases :
        /\ vcStatus' = [vcStatus EXCEPT ![a] = status] /\ vcPhase' = [vcPhase EXCEPT ![a] = phase]
        /\ \/ /\ vcPhase[a] = "idle" /\ UNCHANGED lockHolder
              /\ \/ phase = "idle" /\ status = vcStatus[a]
                 \/ phase = "lock" /\ status = "StartingUp" /\ vcStatus[a] = "NotRunning"
           \/ /\ vcPhase[a] = "lock" /\ status = vcStatus[a]
              /\ \/ phase = "check" /\ lockHolder \in {"none", a} /\ lockHolder' = a
                 \/ phase = "idle" /\ UNCHANGED lockHolder
           \/ vcPhase[a] = "waitOld" /\ status = vcStatus[a] /\ phase = "spawn" /\ UNCHANGED lockHolder
  <2>1. /\ vcStatus[a] \in VcStates /\ vcStatus = [vcStatus EXCEPT ![a] = vcStatus[a]]
        /\ {"StartingUp"} \subseteq VcStates /\ {"idle", "lock", "check", "spawn"} \subseteq VcPhases
    BY <1>1 DEF VcTypeOK, VcStates, VcPhases
  <2>2. CASE start(a, forced)
    BY <2>1, <2>2 DEF start, Return
  <2>3. CASE takeLock(a)
    BY <2>1, <2>3 DEF takeLock, Return, AquireLock, LockRefused
  <2>4. CASE waitOld(a)
    BY <2>1, <2>4 DEF waitOld
  <2> QED
    BY <2>2, <2>3, <2>4
<1>4. /\ vcStatus'[a] = status /\ vcPhase'[a] = phase /\ vcServer'[a] = vcServer[a]
      /\ vcServer' = [vcServer EXCEPT ![a] = vcServer[a]] /\ vcServer[a] \in 0..Len(servers')
  BY <1>1, <1>2, <1>3 DEF VcTypeOK
<1>5. ControllerOK(a)'
  BY <1>1, <1>3, <1>4, AppsAssumption DEF ControllerOK, VcStates, VcPhases
<1>6. /\ lockHolder' \in Apps \cup {"none"}
      /\ \A b \in Apps \ {a} : lockHolder' = b <=> lockHolder = b
  BY <1>1, <1>3, AppsAssumption DEF VcTypeOK
<1>7. status = "Running" => vcStatus[a] = "Running"
  BY <1>3
<1> QED
  BY <1>1, <1>2, <1>3, <1>4, <1>5, <1>6, <1>7, ControllerStep

LEMMA VcSpawnInv ==
  ASSUME VcInv, NEW a \in Apps, spawn(a)
  PROVE  VcInv'
<1>1. VcTypeOK /\ ControllerOK(a) /\ ~killedServed
  BY DEF VcInv
<1>2. vcPhase[a] = "spawn" /\ UNCHANGED <<vcStatus, lockHolder, databaseOf, killedServed>>
  BY DEF spawn
<1>3. vcStatus' = [vcStatus EXCEPT ![a] = vcStatus[a]] /\ vcStatus[a] = "StartingUp" /\ vcStatus[a] \in VcStates
      /\ lockHolder = a
  BY <1>1, <1>2 DEF VcTypeOK, ControllerOK
<1>4. CASE NewServer(a) /\ vcPhase' = [vcPhase EXCEPT ![a] = "wait"]
  <2>1. ServersGoOn /\ Len(servers') = Len(servers) + 1 /\ Len(servers) \in Nat
    BY <1>1, <1>2, <1>4, ServerStarted DEF NewServer, VcTypeOK
  <2>2. /\ vcServer' = [vcServer EXCEPT ![a] = Len(servers')] /\ Len(servers') \in 0..Len(servers') /\ Len(servers') # 0
        /\ "wait" \in VcPhases
    BY <1>4, <2>1 DEF NewServer, VcPhases
  <2>3. ControllerOK(a)'
    BY <1>1, <1>2, <1>3, <1>4, <2>2 DEF ControllerOK, VcTypeOK
  <2> QED
    BY <1>1, <1>2, <1>3, <1>4, <2>1, <2>2, <2>3, ControllerStep DEF VcTypeOK
<1>5. CASE Return(a, FALSE) /\ UNCHANGED <<vcServer, servers>>
  <2>1. ServersGoOn
    BY <1>1, <1>2, <1>5, ServersKept
  <2>2. /\ vcServer' = [vcServer EXCEPT ![a] = vcServer[a]] /\ vcServer[a] \in 0..Len(servers')
        /\ vcPhase' = [vcPhase EXCEPT ![a] = "idle"] /\ "idle" \in VcPhases
    BY <1>1, <1>5 DEF VcTypeOK, Return, VcPhases
  <2>3. ControllerOK(a)'
    BY <1>1, <1>2, <1>3, <2>2 DEF ControllerOK, VcTypeOK
  <2> QED
    BY <1>1, <1>2, <1>3, <2>1, <2>2, <2>3, ControllerStep DEF VcTypeOK
<1> QED
  BY <1>4, <1>5 DEF spawn

(***************************************************************************)
(* A forced start tells a server to stop; whoever it served is gone, for   *)
(* he would have the lock.                                                 *)
(***************************************************************************)
LEMMA VcCheckInv ==
  ASSUME VcInv, NEW a \in Apps, checkDatabase(a)
  PROVE  VcInv'
<1>1. VcTypeOK /\ ControllerOK(a) /\ ~killedServed
  BY DEF VcInv
<1>2. vcPhase[a] = "check" /\ UNCHANGED <<vcStatus, vcServer, lockHolder, databaseOf>>
  BY DEF checkDatabase
<1>3. vcStatus[a] = "StartingUp" /\ vcServer[a] = 0 /\ lockHolder = a
  BY <1>1, <1>2 DEF ControllerOK
<1>4. /\ vcStatus' = [vcStatus EXCEPT ![a] = vcStatus[a]] /\ vcStatus[a] \in VcStates
      /\ vcServer' = [vcServer EXCEPT ![a] = 0]
  BY <1>1, <1>2, <1>3 DEF VcTypeOK
<1>5. PICK phase \in {"waitOld", "spawn"} : vcPhase' = [vcPhase EXCEPT ![a] = phase]
  BY DEF checkDatabase
<1>6. phase \in VcPhases
  BY DEF VcPhases
<1>7. ~killedServed'
  <2>1. \A s : ServedBy(s) = {}
    <3> SUFFICES ASSUME NEW b \in Apps, vcStatus[b] = "Running" PROVE FALSE
      BY DEF ServedBy
    <3>1. ControllerOK(b) /\ b # a
      BY <1>3 DEF VcInv
    <3> QED
      BY <1>3, <3>1 DEF ControllerOK
  <2> QED
    BY <1>1, <2>1 DEF checkDatabase
<1>8. ServersGoOn /\ Len(servers') = Len(servers)
  <2>1. CASE UNCHANGED servers
    BY <1>1, <1>2, <2>1, ServersKept
  <2>2. CASE DatabaseUser # 0 /\ servers' = [servers EXCEPT ![DatabaseUser] = "stopping"]
    <3>1. DatabaseUser \in DOMAIN servers /\ Alive(DatabaseUser)
      BY <1>1, <2>2 DEF VcTypeOK, DatabaseUser, Alive
    <3> HIDE DEF DatabaseUser
    <3> QED
      BY <1>1, <1>2, <2>2, <3>1, ServerEnds
  <2> QED
    BY <2>1, <2>2 DEF checkDatabase
<1>9. ControllerOK(a)'
  BY <1>1, <1>2, <1>3, <1>5 DEF ControllerOK, VcTypeOK
<1>10. 0 \in 0..Len(servers') /\ lockHolder' \in Apps \cup {"none"}
  BY <1>1, <1>2, <1>8 DEF VcTypeOK
<1>11. vcStatus[a] # "Running" /\ \A b \in Apps \ {a} : lockHolder' = b <=> lockHolder = b
  BY <1>2, <1>3
<1> QED
  BY <1>4, <1>5, <1>6, <1>7, <1>8, <1>9, <1>10, <1>11, ControllerStep
-----------------------------------------------------------------------------
(***************************************************************************)
(* The server comes online, is started again, or is told to stop           *)
(***************************************************************************)
LEMMA VcOnlineInv ==
  ASSUME VcInv, NEW a \in Apps, serverOnline(a)
  PROVE  VcInv'
<1>1. VcTypeOK /\ ControllerOK(a) /\ ~killedServed
  BY DEF VcInv
<1>2. /\ vcPhase[a] = "wait" /\ servers[vcServer[a]] = "online"
      /\ vcStatus' = [vcStatus EXCEPT ![a] = "Running"] /\ vcPhase' = [vcPhase EXCEPT ![a] = "idle"]
      /\ UNCHANGED <<vcServer, lockHolder, servers, databaseOf, killedServed>>
  BY DEF serverOnline, Return
<1>3. lockHolder = a /\ vcServer[a] \in DOMAIN servers
  BY <1>1, <1>2 DEF VcTypeOK, ControllerOK
<1>4. databaseOf = vcServer[a]
  BY <1>2, <1>3 DEF VcInv, OnlineHasDatabase
<1>5. /\ vcServer' = [vcServer EXCEPT ![a] = vcServer[a]] /\ vcServer[a] \in 0..Len(servers')
      /\ "Running" \in VcStates /\ "idle" \in VcPhases /\ lockHolder' \in Apps \cup {"none"}
  BY <1>1, <1>2 DEF VcTypeOK, VcStates, VcPhases
<1>6. ControllerOK(a)'
  BY <1>1, <1>2, <1>3, <1>5 DEF ControllerOK, VcTypeOK
<1>7. ServersGoOn
  BY <1>1, <1>2, ServersKept
<1> QED
  BY <1>1, <1>2, <1>4, <1>5, <1>6, <1>7, ControllerStep

LEMMA VcLogInv ==
  ASSUME VcInv, NEW a \in Apps, deleteTransactionLog(a)
  PROVE  VcInv'
<1>1. VcTypeOK /\ ControllerOK(a) /\ ~killedServed
  BY DEF VcInv
<1> DEFINE stopped == [servers EXCEPT ![vcServer[a]] = "dead"]
<1>2. /\ vcPhase[a] = "wait" /\ UNCHANGED <<vcStatus, lockHolder, databaseOf, killedServed>>
      /\ \/ /\ servers' = Append(stopped, "starting")
            /\ vcServer' = [vcServer EXCEPT ![a] = Len(servers) + 1] /\ UNCHANGED vcPhase
         \/ /\ servers' = stopped
            /\ vcServer' = [vcServer EXCEPT ![a] = 0] /\ vcPhase' = [vcPhase EXCEPT ![a] = "idle"]
  BY DEF deleteTransactionLog, Return
<1>3. lockHolder = a /\ vcStatus[a] = "StartingUp" /\ vcServer[a] \in DOMAIN servers
  BY <1>1, <1>2 DEF VcTypeOK, ControllerOK
<1>4. stopped \in Seq(ServerStates) /\ Len(stopped) = Len(servers)
      /\ \A s \in DOMAIN servers : stopped[s] = IF s = vcServer[a] THEN "dead" ELSE servers[s]
  BY <1>1, <1>3 DEF VcTypeOK, ServerStates
<1> HIDE DEF stopped
<1>5. vcStatus' = [vcStatus EXCEPT ![a] = vcStatus[a]] /\ vcStatus[a] \in VcStates /\ lockHolder' \in Apps \cup {"none"}
  BY <1>1, <1>2 DEF VcTypeOK
<1>6. CASE /\ servers' = Append(stopped, "starting")
           /\ vcServer' = [vcServer EXCEPT ![a] = Len(servers) + 1] /\ UNCHANGED vcPhase
  <2>1. /\ servers' \in Seq(ServerStates) /\ Len(servers') = Len(servers) + 1
        /\ \A s \in DOMAIN servers : servers'[s] = stopped[s]
        /\ servers'[Len(servers) + 1] = "starting"
    <3>1. "starting" \in ServerStates
      BY DEF ServerStates
    <3>2. \A S, x : stopped \in Seq(S) /\ x \in S =>
             /\ Append(stopped, x) \in Seq(S) /\ Len(Append(stopped, x)) = Len(stopped) + 1
             /\ \A s \in 1..Len(stopped) : Append(stopped, x)[s] = stopped[s]
             /\ Append(stopped, x)[Len(stopped) + 1] = x
      OBVIOUS
    <3>3. DOMAIN servers = 1..Len(servers)
      BY <1>1 DEF VcTypeOK
    <3> QED
      BY <1>4, <1>6, <3>1, <3>2, <3>3
  <2>2. \A s \in DOMAIN servers' : s \in DOMAIN servers \/ s = Len(servers) + 1
    BY <1>1, <2>1 DEF VcTypeOK
  <2>3. ServersGoOn
    BY <1>1, <1>2, <1>4, <2>1, <2>2 DEF VcTypeOK, ServersGoOn
  <2>4. /\ vcPhase' = [vcPhase EXCEPT ![a] = vcPhase[a]] /\ vcPhase[a] \in VcPhases
        /\ Len(servers) + 1 \in 0..Len(servers') /\ Len(servers) + 1 # 0
    BY <1>1, <1>6, <2>1 DEF VcTypeOK
  <2>5. ControllerOK(a)'
    BY <1>1, <1>2, <1>3, <1>5, <1>6, <2>4 DEF ControllerOK, VcTypeOK
  <2> QED
    BY <1>1, <1>2, <1>3, <1>5, <1>6, <2>1, <2>3, <2>4, <2>5, ControllerStep
<1>7. CASE /\ servers' = stopped
           /\ vcServer' = [vcServer EXCEPT ![a] = 0] /\ vcPhase' = [vcPhase EXCEPT ![a] = "idle"]
  <2>1. ServersGoOn
    BY <1>1, <1>2, <1>4, <1>7 DEF VcTypeOK, ServersGoOn
  <2>2. "idle" \in VcPhases /\ 0 \in 0..Len(servers')
    BY <1>1, <1>4, <1>7 DEF VcTypeOK, VcPhases
  <2>3. ControllerOK(a)'
    BY <1>1, <1>2, <1>3, <1>5, <1>7 DEF ControllerOK, VcTypeOK
  <2> QED
    BY <1>1, <1>2, <1>3, <1>5, <1>7, <2>1, <2>2, <2>3, ControllerStep
<1> QED
  BY <1>2, <1>6, <1>7

LEMMA VcShutdownInv ==
  ASSUME VcInv, NEW a \in Apps, shutdown(a)
  PROVE  VcInv'
<1>1. VcTypeOK /\ ControllerOK(a) /\ ~killedServed
  BY DEF VcInv
<1>2. vcPhase[a] = "idle" /\ UNCHANGED <<vcServer, databaseOf, killedServed>>
  BY DEF shutdown
<1>3. vcServer' = [vcServer EXCEPT ![a] = vcServer[a]]
  BY <1>1, <1>2 DEF VcTypeOK
<1>4. CASE /\ Alive(vcServer[a]) /\ UNCHANGED lockHolder
           /\ vcStatus' = [vcStatus EXCEPT ![a] = "ShuttingDown"]
           /\ vcPhase' = [vcPhase EXCEPT ![a] = "waitFinished"]
           /\ servers' = [servers EXCEPT ![vcServer[a]] = "stopping"]
  <2>1. vcServer[a] \in DOMAIN servers /\ vcServer[a] # 0 /\ lockHolder = a
    BY <1>1, <1>4 DEF VcTypeOK, Alive, ControllerOK
  <2>2. ServersGoOn /\ Len(servers') = Len(servers)
    BY <1>1, <1>2, <1>4, <2>1, ServerEnds
  <2>3. /\ "ShuttingDown" \in VcStates /\ "waitFinished" \in VcPhases
        /\ vcServer[a] \in 0..Len(servers') /\ lockHolder' \in Apps \cup {"none"}
    BY <1>1, <1>4, <2>2 DEF VcTypeOK, VcStates, VcPhases
  <2>4. ControllerOK(a)'
    BY <1>1, <1>2, <1>4, <2>1 DEF ControllerOK, VcTypeOK
  <2> QED
    BY <1>1, <1>2, <1>3, <1>4, <2>1, <2>2, <2>3, <2>4, ControllerStep
<1>5. CASE vcServer[a] = 0 /\ ReleaseLock(a) /\ Return(a, FALSE) /\ UNCHANGED <<vcStatus, servers>>
  <2>1. ServersGoOn
    BY <1>1, <1>2, <1>5, ServersKept
  <2>2. /\ vcStatus' = [vcStatus EXCEPT ![a] = vcStatus[a]] /\ vcStatus[a] \in VcStates
        /\ vcPhase' = [vcPhase EXCEPT ![a] = "idle"] /\ "idle" \in VcPhases
        /\ vcServer[a] \in 0..Len(servers') /\ vcStatus[a] # "Running"
    BY <1>1, <1>5 DEF VcTypeOK, VcPhases, Return, ControllerOK
  <2>3. /\ lockHolder' \in Apps \cup {"none"} /\ lockHolder' # a
        /\ \A b \in Apps \ {a} : lockHolder' = b <=> lockHolder = b
    BY <1>1, <1>5, AppsAssumption DEF VcTypeOK, ReleaseLock
  <2>4. ControllerOK(a)'
    BY <1>1, <1>2, <1>5, <2>2, <2>3 DEF ControllerOK, VcTypeOK
  <2> QED
    BY <1>1, <1>2, <1>3, <2>1, <2>2, <2>3, <2>4, ControllerStep
<1> QED
  BY <1>4, <1>5 DEF shutdown
-----------------------------------------------------------------------------
(***************************************************************************)
(* However it ends for a controller, it gives up its server and its lock.  *)
(***************************************************************************)
LEMMA VcEndInv ==
  ASSUME VcInv, NEW a \in Apps,
         \/ slotProcessFinished(a) \/ startFailed(a) \/ shutdownDone(a) \/ shutdownKills(a)
         \/ destroyController(a) \/ crash(a)
  PROVE  VcInv'
<1>1. VcTypeOK /\ ControllerOK(a) /\ ~killedServed
  BY DEF VcInv
<1>2. /\ vcStatus' = [vcStatus EXCEPT ![a] = "NotRunning"]
      /\ vcPhase' = [vcPhase EXCEPT ![a] = "idle"]
      /\ vcServer' = [vcServer EXCEPT ![a] = 0]
      /\ ReleaseLock(a) /\ UNCHANGED <<databaseOf, killedServed>>
      /\ \/ UNCHANGED servers
         \/ vcServer[a] # 0 /\ servers' = [servers EXCEPT ![vcServer[a]] = "dead"]
  <2>1. CASE slotProcessFinished(a)
    <3>1. vcPhase' = [vcPhase EXCEPT ![a] = "idle"]
      BY <1>1, <2>1 DEF slotProcessFinished, VcTypeOK
    <3> QED
      BY <2>1, <3>1 DEF slotProcessFinished, ProcessFinished
  <2>2. CASE startFailed(a) \/ shutdownDone(a)
    BY <2>2 DEF startFailed, shutdownDone, ProcessFinished, Return
  <2>3. CASE shutdownKills(a)
    BY <2>3 DEF shutdownKills, ProcessFinished, Return, Alive
  <2>4. CASE destroyController(a) \/ crash(a)
    BY <2>4 DEF destroyController, crash, Forget
  <2> QED
    BY <2>1, <2>2, <2>3, <2>4
<1>3. ServersGoOn /\ Len(servers') \in Nat
  <2>1. CASE UNCHANGED servers
    BY <1>1, <1>2, <2>1, ServersKept DEF VcTypeOK
  <2>2. CASE vcServer[a] # 0 /\ servers' = [servers EXCEPT ![vcServer[a]] = "dead"]
    <3>1. vcServer[a] \in DOMAIN servers /\ Len(servers) \in Nat
      BY <1>1, <2>2 DEF VcTypeOK
    <3> QED
      BY <1>1, <1>2, <2>2, <3>1, ServerEnds
  <2> QED
    BY <1>2, <2>1, <2>2
<1>4. /\ lockHolder' \in Apps \cup {"none"} /\ lockHolder' # a
      /\ \A b \in Apps \ {a} : lockHolder' = b <=> lockHolder = b
  BY <1>1, <1>2, AppsAssumption DEF VcTypeOK, ReleaseLock
<1>5. ControllerOK(a)'
  BY <1>1, <1>2, <1>4 DEF ControllerOK, VcTypeOK
<1>6. "NotRunning" \in VcStates /\ "idle" \in VcPhases /\ 0 \in 0..Len(servers')
  BY <1>3 DEF VcStates, VcPhases
<1> QED
  BY <1>1, <1>2, <1>3, <1>4, <1>5, <1>6, ControllerStep

(***************************************************************************)
(* The servers' own steps                                                  *)
(***************************************************************************)
LEMMA VcServerInv ==
  ASSUME VcInv, NEW s \in DOMAIN servers, serverStep(s)
  PROVE  VcInv'
<1>1. /\ VcTypeOK /\ OnlineHasDatabase /\ ~killedServed
      /\ UNCHANGED <<vcStatus, vcPhase, vcServer, lockHolder, killedServed>>
  BY DEF VcInv, serverStep
<1>2. PICK state \in {"online", "brokenLog", "dead"} :
        /\ servers' = [servers EXCEPT ![s] = state]
        /\ \/ state # "dead" /\ DatabaseUser = 0 /\ databaseOf' = s /\ servers[s] = "starting"
           \/ state = "dead" /\ databaseOf' = databaseOf
  BY DEF serverStep
<1>3. /\ servers' \in Seq(ServerStates) /\ Len(servers') = Len(servers)
      /\ s \in 1..Len(servers) /\ Len(servers) \in Nat
      /\ servers'[s] = state /\ \A r \in DOMAIN servers \ {s} : servers'[r] = servers[r]
  BY <1>1, <1>2 DEF VcTypeOK, ServerStates
<1>4. VcTypeOK'
  BY <1>1, <1>2, <1>3 DEF VcTypeOK
<1>5. OnlineHasDatabase'
  <2>1. CASE state = "dead" /\ databaseOf' = databaseOf
    <3>1. ASSUME NEW r \in DOMAIN servers', servers'[r] \in {"online", "brokenLog"} PROVE databaseOf' = r
      <4>1. r \in DOMAIN servers /\ r # s
        BY <1>1, <1>3, <2>1, <3>1 DEF VcTypeOK
      <4> QED
        BY <1>1, <1>3, <2>1, <3>1, <4>1 DEF OnlineHasDatabase
    <3>2. ASSUME NEW a \in Apps, vcStatus[a] = "Running", vcServer[a] # 0, servers'[vcServer[a]] # "dead"
          PROVE  databaseOf = vcServer[a]
      <4>1. vcServer[a] \in DOMAIN servers
        BY <1>1, <3>2 DEF VcTypeOK
      <4>2. servers[vcServer[a]] # "dead"
        BY <1>3, <2>1, <3>2, <4>1
      <4> QED
        BY <1>1, <3>2, <4>2 DEF OnlineHasDatabase, Alive
    <3> QED
      BY <1>1, <2>1, <3>1, <3>2 DEF OnlineHasDatabase, Alive
  <2>2. CASE state # "dead" /\ DatabaseUser = 0 /\ databaseOf' = s /\ servers[s] = "starting"
    <3>1. databaseOf # 0 => servers[databaseOf] = "dead"
      BY <2>2 DEF DatabaseUser, Alive
    <3>2. ASSUME NEW r \in DOMAIN servers', servers'[r] \in {"online", "brokenLog"} PROVE r = s
      <4>1. r \in DOMAIN servers /\ (r # s => servers'[r] = servers[r])
        BY <1>1, <1>3, <3>2 DEF VcTypeOK
      <4>2. ASSUME r # s PROVE FALSE
        <5>1. databaseOf = r /\ r # 0
          BY <1>1, <1>3, <3>2, <4>1, <4>2 DEF OnlineHasDatabase
        <5> QED
          BY <3>1, <3>2, <4>1, <4>2, <5>1
      <4> QED
        BY <4>2
    <3>3. ASSUME NEW a \in Apps, vcStatus[a] = "Running", vcServer[a] # 0, servers'[vcServer[a]] # "dead"
          PROVE  vcServer[a] = s
      <4>1. vcServer[a] \in DOMAIN servers
        BY <1>1, <3>3 DEF VcTypeOK
      <4>2. ASSUME vcServer[a] # s PROVE FALSE
        <5>1. Alive(vcServer[a])
          BY <1>3, <3>3, <4>1, <4>2 DEF Alive
        <5>2. databaseOf = vcServer[a]
          BY <1>1, <3>3, <5>1 DEF OnlineHasDatabase
        <5> QED
          BY <3>1, <5>1, <5>2 DEF Alive
      <4> QED
        BY <4>2
    <3> QED
      BY <1>1, <2>2, <3>2, <3>3 DEF OnlineHasDatabase, Alive
  <2> QED
    BY <1>2, <2>1, <2>2
<1>6. ASSUME NEW a \in Apps PROVE ControllerOK(a)'
  BY <1>1 DEF VcInv, ControllerOK
<1> QED
  BY <1>1, <1>4, <1>5, <1>6 DEF VcInv
-----------------------------------------------------------------------------
LEMMA VcStepInv == VcInv /\ [VcNext]_vcVars => VcInv'
<1> SUFFICES ASSUME VcInv, [VcNext]_vcVars PROVE VcInv'
  OBVIOUS
<1>1. CASE UNCHANGED vcVars
  <2>1. VcTypeOK' /\ OnlineHasDatabase'
    BY <1>1 DEF vcVars, VcInv, VcTypeOK, OnlineHasDatabase, Alive
  <2> QED
    BY <1>1, <2>1 DEF vcVars, VcInv, ControllerOK
<1>2. ASSUME NEW a \in Apps, NEW forced \in BOOLEAN, start(a, forced) PROVE VcInv'
  BY <1>2, VcBeginInv
<1>3. ASSUME NEW a \in Apps, takeLock(a) \/ waitOld(a) PROVE VcInv'
  BY <1>3, VcBeginInv
<1>4. ASSUME NEW a \in Apps,
             \/ checkDatabase(a) \/ spawn(a) \/ serverOnline(a) \/ deleteTransactionLog(a) \/ shutdown(a)
             \/ startFailed(a) \/ shutdownDone(a) \/ shutdownKills(a)
             \/ slotProcessFinished(a) \/ destroyController(a) \/ crash(a)
      PROVE  VcInv'
  BY <1>4, VcCheckInv, VcSpawnInv, VcOnlineInv, VcLogInv, VcShutdownInv, VcEndInv
<1>5. ASSUME NEW s \in DOMAIN servers, serverStep(s) PROVE VcInv'
  BY <1>5, VcServerInv
<1> QED
  BY <1>1, <1>2, <1>3, <1>4, <1>5 DEF VcNext

(***************************************************************************)
(* Whatever applications and servers do, and whoever dies: a controller    *)
(* that is Running has the lock of its storage, its server has the         *)
(* database, and no forced start stops a server in use (VirtuosoController *)
(* and LockFile).                                                          *)
(***************************************************************************)
THEOREM ServersAreExclusive == VcInit /\ [][VcNext]_vcVars => []ServedExclusively
<1>1. VcInv => ServedExclusively
  <2> SUFFICES ASSUME VcInv, NEW a \in Apps
               PROVE  /\ vcStatus[a] \in {"Running", "ShuttingDown"} => lockHolder = a /\ vcServer[a] # 0
                      /\ vcStatus[a] = "Running" /\ Alive(vcServer[a]) => databaseOf = vcServer[a]
                      /\ vcStatus[a] = "NotRunning" => vcServer[a] = 0 /\ ~(lockHolder = a)
    BY DEF VcInv, ServedExclusively
  <2> QED
    BY DEF VcInv, VcTypeOK, ControllerOK, OnlineHasDatabase
<1> QED
  BY <1>1, VcInitInv, VcStepInv, PTL
-----------------------------------------------------------------------------
(***************************************************************************)
(* Odbc.  A result and the iterator around it are closed by one thread,    *)
(* under the iterator's mutex; from then until it has taken the iterator   *)
(* off the model's list that thread is about to do so, and the list names  *)
(* no other closed iterator.                                               *)
(***************************************************************************)
In(e, s) == \E k \in DOMAIN s : s[k] = e
Distinct(s) == \A k, l \in DOMAIN s : s[k] = s[l] => k = l

OdIterators == [thread : OdThreads, model : BOOLEAN, result : BOOLEAN, exists : BOOLEAN]
AfterClose == {"closed", "delete", "loop"}
OdPlaces ==
  [at : {"idle", "remove"} \cup AfterClose, iter : Nat, next : {"idle"} \cup AfterClose]

OdTypeOK ==
  /\ odIter \in Seq(OdIterators)
  /\ odDeleted \in Seq(Nat) /\ Len(odDeleted) = Len(odIter)
  /\ odOpen \in [OdThreads -> Seq(Nat)]
  /\ odList \in Seq(Nat)
  /\ odAt \in [OdThreads -> OdPlaces]

Removing(i) == \E t \in OdThreads : odAt[t].at = "remove" /\ odAt[t].iter = i

IteratorOK(i) ==
  /\ i \notin odLeft => odDeleted[i] = IF odIter[i].result THEN 0 ELSE 1
  /\ odIter[i].result <=> odIter[i].model
  /\ odIter[i].model => odIter[i].exists /\ In(i, odList)
  /\ In(i, odList) => odIter[i].model \/ Removing(i)

CloserOK(t) ==
  odAt[t].at \in {"remove", "closed", "delete"} =>
    odAt[t].iter \in 1..Len(odIter) /\ ~odIter[odAt[t].iter].model

ListOK(s) == Distinct(s) /\ \A k \in DOMAIN s : s[k] \in 1..Len(odIter)

OdInv ==
  /\ OdTypeOK
  /\ ListOK(odList)
  /\ \A t \in OdThreads : ListOK(odOpen[t]) /\ CloserOK(t)
  /\ \A i \in 1..Len(odIter) : IteratorOK(i)
  /\ odModel = "destroyed" => \A i \in 1..Len(odIter) : ~odIter[i].model
-----------------------------------------------------------------------------
(***************************************************************************)
(* What append and removeAll do to a list.                                 *)
(***************************************************************************)
LEMMA AppendToList ==
  ASSUME NEW s \in Seq(Nat), NEW e \in Nat, Distinct(s), ~In(e, s)
  PROVE  /\ Append(s, e) \in Seq(Nat) /\ Distinct(Append(s, e))
         /\ \A f : In(f, Append(s, e)) <=> f = e \/ In(f, s)
<1>1. Len(s) \in Nat /\ DOMAIN s = 1..Len(s)
  BY LenProperties
<1>2. /\ Append(s, e) \in Seq(Nat) /\ Len(Append(s, e)) = Len(s) + 1
      /\ \A k \in 1..Len(s) : Append(s, e)[k] = s[k]
      /\ Append(s, e)[Len(s) + 1] = e
  BY AppendProperties
<1>3. DOMAIN Append(s, e) = 1..(Len(s) + 1)
  BY <1>2, LenProperties
<1>4. 1..(Len(s) + 1) = 1..Len(s) \cup {Len(s) + 1} /\ Len(s) + 1 \notin 1..Len(s)
  BY <1>1
<1>5. ASSUME NEW k \in 1..(Len(s) + 1), NEW l \in 1..(Len(s) + 1),
             Append(s, e)[k] = Append(s, e)[l]
      PROVE  k = l
  BY <1>1, <1>2, <1>4, <1>5 DEF Distinct, In
<1>6. ASSUME NEW f PROVE In(f, Append(s, e)) <=> f = e \/ In(f, s)
  BY <1>1, <1>2, <1>3, <1>4 DEF In
<1> QED
  BY <1>2, <1>3, <1>5, <1>6 DEF Distinct

LEMMA RemovedAt ==
  ASSUME NEW S, NEW s \in Seq(S), NEW i \in DOMAIN s
  PROVE  /\ RemoveAt(s, i) \in Seq(S) /\ DOMAIN RemoveAt(s, i) = 1..(Len(s) - 1)
         /\ \A j \in 1..(Len(s) - 1) : RemoveAt(s, i)[j] = s[IF j < i THEN j ELSE j + 1]
<1>1. Len(s) \in Nat /\ i \in 1..Len(s) /\ DOMAIN s = 1..Len(s)
  BY LenProperties
<1> DEFINE a == SubSeq(s, 1, i - 1)
           b == SubSeq(s, i + 1, Len(s))
<1>2. a \in Seq(S) /\ Len(a) = i - 1 /\ \A j \in 1..(i - 1) : a[j] = s[j]
  BY <1>1
<1>3. b \in Seq(S) /\ Len(b) = Len(s) - i /\ \A j \in 1..(Len(s) - i) : b[j] = s[i + j]
  BY <1>1
<1>4. RemoveAt(s, i) = a \o b
  BY DEF RemoveAt
<1> HIDE DEF a, b
<1>5. /\ a \o b \in Seq(S) /\ Len(a \o b) = Len(s) - 1
      /\ \A j \in 1..(Len(s) - 1) : (a \o b)[j] = IF j <= i - 1 THEN a[j] ELSE b[j - (i - 1)]
  <2>1. a \o b \in Seq(S) /\ Len(a \o b) = Len(a) + Len(b)
    BY <1>2, <1>3, ConcatProperties
  <2>2. \A j \in 1..(Len(a) + Len(b)) : (a \o b)[j] = IF j <= Len(a) THEN a[j] ELSE b[j - Len(a)]
    BY <1>2, <1>3, ConcatProperties
  <2>3. Len(a) + Len(b) = Len(s) - 1
    BY <1>1, <1>2, <1>3
  <2> QED
    BY <1>2, <2>1, <2>2, <2>3
<1>6. ASSUME NEW j \in 1..(Len(s) - 1)
      PROVE  (a \o b)[j] = s[IF j < i THEN j ELSE j + 1]
  <2>1. CASE j < i
    BY <1>1, <1>2, <1>5, <2>1
  <2>2. CASE ~(j < i)
    <3>1. j - (i - 1) \in 1..(Len(s) - i) /\ i + (j - (i - 1)) = j + 1
      BY <1>1, <2>2
    <3>2. (a \o b)[j] = b[j - (i - 1)]
      BY <1>1, <1>5, <2>2
    <3> QED
      BY <1>3, <2>2, <3>1, <3>2
  <2> QED
    BY <2>1, <2>2
<1>7. DOMAIN (a \o b) = 1..(Len(s) - 1)
  BY <1>5, LenProperties
<1> QED
  BY <1>4, <1>5, <1>6, <1>7

LEMMA RemovedElement ==
  ASSUME NEW s \in Seq(Nat), NEW e, Distinct(s)
  PROVE  /\ removeAll(s, e) \in Seq(Nat) /\ Distinct(removeAll(s, e))
         /\ \A f : In(f, removeAll(s, e)) <=> f # e /\ In(f, s)
<1>1. Len(s) \in Nat /\ DOMAIN s = 1..Len(s)
  BY LenProperties
<1>2. CASE ~In(e, s)
  <2>1. removeAll(s, e) = s
    BY <1>2 DEF removeAll, In
  <2> QED
    BY <1>2, <2>1
<1>3. CASE In(e, s)
  <2> DEFINE i == CHOOSE k \in DOMAIN s : s[k] = e
             w == RemoveAt(s, i)
  <2>1. i \in DOMAIN s /\ s[i] = e
    BY <1>3 DEF In
  <2>2. removeAll(s, e) = w
    BY <1>3 DEF removeAll, In
  <2> HIDE DEF i
  <2>3. /\ w \in Seq(Nat) /\ DOMAIN w = 1..(Len(s) - 1)
        /\ \A j \in 1..(Len(s) - 1) : w[j] = s[IF j < i THEN j ELSE j + 1]
    BY <2>1, RemovedAt
  <2> HIDE DEF w
  <2>4. i \in 1..Len(s)
    BY <1>1, <2>1
  <2>5. ASSUME NEW j \in 1..(Len(s) - 1)
        PROVE  /\ (IF j < i THEN j ELSE j + 1) \in 1..Len(s)
               /\ (IF j < i THEN j ELSE j + 1) # i
    BY <1>1, <2>4
  <2>6. ASSUME NEW j \in 1..Len(s), j # i
        PROVE  \E k \in 1..(Len(s) - 1) : (IF k < i THEN k ELSE k + 1) = j
    <3>1. CASE j < i
      <4>1. j \in 1..(Len(s) - 1)
        BY <1>1, <2>4, <3>1
      <4> QED
        BY <3>1, <4>1
    <3>2. CASE j > i
      <4>1. j - 1 \in 1..(Len(s) - 1) /\ ~(j - 1 < i) /\ (j - 1) + 1 = j
        BY <1>1, <2>4, <3>2
      <4> QED
        BY <4>1
    <3> QED
      BY <2>4, <2>6, <3>1, <3>2
  <2>7. Distinct(w)
    <3> SUFFICES ASSUME NEW k \in 1..(Len(s) - 1), NEW l \in 1..(Len(s) - 1), w[k] = w[l]
                 PROVE  k = l
      BY <2>3 DEF Distinct
    <3>1. s[IF k < i THEN k ELSE k + 1] = s[IF l < i THEN l ELSE l + 1]
      BY <2>3
    <3>2. (IF k < i THEN k ELSE k + 1) = (IF l < i THEN l ELSE l + 1)
      BY <1>1, <2>5, <3>1 DEF Distinct
    <3> QED
      BY <2>4, <3>2
  <2>8. ASSUME NEW f, In(f, w) PROVE f # e /\ In(f, s)
    <3>1. PICK j \in 1..(Len(s) - 1) : w[j] = f
      BY <2>3, <2>8 DEF In
    <3>2. f = s[IF j < i THEN j ELSE j + 1]
      BY <2>3, <3>1
    <3> QED
      BY <1>1, <2>1, <2>5, <3>2 DEF In, Distinct
  <2>9. ASSUME NEW f, f # e, In(f, s) PROVE In(f, w)
    <3>1. PICK j \in 1..Len(s) : s[j] = f
      BY <1>1, <2>9 DEF In
    <3>2. j # i
      BY <2>1, <2>9, <3>1
    <3>3. PICK k \in 1..(Len(s) - 1) : (IF k < i THEN k ELSE k + 1) = j
      BY <2>6, <3>2
    <3>4. w[k] = f
      BY <2>3, <3>1, <3>3
    <3> QED
      BY <2>3, <3>4 DEF In
  <2> QED
    BY <2>2, <2>3, <2>7, <2>8, <2>9
<1> QED
  BY <1>2, <1>3
-----------------------------------------------------------------------------
(***************************************************************************)
(* A connection deletes results of its own list only.                      *)
(***************************************************************************)
LEMMA DeletesItsOwn ==
  ASSUME NEW s \in Seq(Nat), NEW r
  PROVE  DeletedBy(s, r) \in Nat /\ (~In(r, s) => DeletedBy(s, r) = 0)
<1>1. Len(s) \in Nat /\ DOMAIN s = 1..Len(s)
  BY LenProperties
<1> DEFINE Nth(k) == IF 2 * k - 1 <= Len(s) THEN s[2 * k - 1] ELSE s[Len(s)]
           D == {k \in 1..Len(s) : Nth(k) = r}
<1>2. DeletedBy(s, r) = Cardinality(D)
  BY DEF DeletedBy
<1>3. IsFiniteSet(D)
  <2>1. D \in SUBSET (1..Len(s))
    OBVIOUS
  <2>2. IsFiniteSet(1..Len(s))
    BY <1>1, FS_Interval
  <2> HIDE DEF D
  <2> QED
    BY <2>1, <2>2, FS_Subset
<1>4. Cardinality(D) \in Nat
  BY <1>3, FS_CardinalityType
<1>5. ASSUME ~In(r, s) PROVE D = {}
  <2>1. ASSUME NEW k \in 1..Len(s) PROVE Nth(k) # r
    <3>1. /\ 2 * k - 1 <= Len(s) => 2 * k - 1 \in DOMAIN s
          /\ Len(s) \in DOMAIN s
      BY <1>1
    <3> QED
      BY <1>5, <3>1 DEF In
  <2> QED
    BY <2>1
<1>6. Cardinality({}) = 0
  BY FS_EmptySet
<1> QED
  BY <1>2, <1>4, <1>5, <1>6

(***************************************************************************)
(* The results and the lists of the connections are in order.              *)
(***************************************************************************)
ResultsOK ==
  /\ odDeleted \in Seq(Nat) /\ Len(odDeleted) = Len(odIter)
  /\ odOpen \in [OdThreads -> Seq(Nat)] /\ \A t \in OdThreads : ListOK(odOpen[t])
  /\ \A i \in 1..Len(odIter) : i \notin odLeft => odDeleted[i] = IF odIter[i].result THEN 0 ELSE 1

LEMMA DeletedWithConnections ==
  ASSUME OdInv, NEW ts, DeleteConnections(ts), UNCHANGED <<odIter, odList>>
  PROVE  ResultsOK'
<1>1. /\ odIter \in Seq(OdIterators) /\ odDeleted \in Seq(Nat) /\ Len(odDeleted) = Len(odIter)
      /\ odOpen \in [OdThreads -> Seq(Nat)]
      /\ Len(odIter) \in Nat /\ DOMAIN odDeleted = 1..Len(odIter)
  BY LenProperties DEF OdInv, OdTypeOK
<1>2. /\ odOpen' = [t \in OdThreads |-> IF t \in ts THEN <<>> ELSE odOpen[t]]
      /\ odLeft' = odLeft \cup UNION {{odOpen[t][k] : k \in DOMAIN odOpen[t]} : t \in ts}
      /\ odDeleted' = [r \in 1..Len(odIter) |->
                         odDeleted[r] + IF odIter[r].thread \in ts
                                        THEN DeletedBy(odOpen[odIter[r].thread], r) ELSE 0]
  BY <1>1 DEF DeleteConnections
<1>3. ASSUME NEW i \in 1..Len(odIter)
      PROVE  /\ odIter[i].thread \in OdThreads
             /\ odDeleted[i] \in Nat
             /\ DeletedBy(odOpen[odIter[i].thread], i) \in Nat
             /\ ~In(i, odOpen[odIter[i].thread]) => DeletedBy(odOpen[odIter[i].thread], i) = 0
  <2>1. odIter[i] \in OdIterators /\ odDeleted[i] \in Nat
    BY <1>1
  <2>2. odIter[i].thread \in OdThreads
    BY <2>1 DEF OdIterators
  <2>3. odOpen[odIter[i].thread] \in Seq(Nat)
    BY <1>1, <2>2
  <2> QED
    BY <2>1, <2>2, <2>3, DeletesItsOwn
<1>4. odDeleted' \in [1..Len(odIter) -> Nat]
  BY <1>2, <1>3
<1>5. odDeleted' \in Seq(Nat)
  <2>1. odDeleted' \in UNION {[1..n -> Nat] : n \in Nat}
    BY <1>1, <1>4
  <2> QED
    BY <2>1, SeqDef, Zenon
<1>6. Len(odDeleted') = Len(odIter)
  BY <1>1, <1>4, <1>5, LenProperties
<1>7. odOpen' \in [OdThreads -> Seq(Nat)]
  BY <1>1, <1>2
<1>8. ASSUME NEW t \in OdThreads PROVE ListOK(odOpen[t])'
  BY <1>2 DEF OdInv, ListOK, Distinct
<1>9. ASSUME NEW i \in 1..Len(odIter), i \notin odLeft'
      PROVE  odDeleted'[i] = IF odIter'[i].result THEN 0 ELSE 1
  <2>1. i \notin odLeft /\ \A t \in ts : ~In(i, odOpen[t])
    BY <1>2, <1>9 DEF In
  <2>2. odDeleted[i] = IF odIter[i].result THEN 0 ELSE 1
    BY <2>1 DEF OdInv, IteratorOK
  <2>3. odDeleted'[i] = odDeleted[i]
    BY <1>2, <1>3, <2>1
  <2> QED
    BY <2>2, <2>3
<1> QED
  BY <1>5, <1>6, <1>7, <1>8, <1>9 DEF ResultsOK
-----------------------------------------------------------------------------
LEMMA OdInitInv == OdInit => OdInv
<1> SUFFICES ASSUME OdInit PROVE OdInv
  OBVIOUS
<1>1. odIter = <<>> /\ odDeleted = <<>> /\ odList = <<>> /\ odModel # "destroyed"
  BY DEF OdInit
<1>2. Len(<<>>) = 0 /\ \A S : <<>> \in Seq(S)
  BY EmptySeq
<1>3. OdTypeOK
  BY <1>1, <1>2 DEF OdInit, OdTypeOK, OdPlaces, Idle
<1>4. ASSUME NEW t \in OdThreads PROVE ListOK(odOpen[t]) /\ CloserOK(t)
  BY <1>4 DEF OdInit, ListOK, Distinct, CloserOK, Idle
<1>5. ListOK(odList)
  BY <1>1 DEF ListOK, Distinct
<1> QED
  BY <1>1, <1>2, <1>3, <1>4, <1>5 DEF OdInv

LEMMA NewIteratorInv ==
  ASSUME OdInv, NEW t \in OdThreads, NewIterator(t), odModel = "alive",
         UNCHANGED <<odModel, odLeft, odAt>>
  PROVE  OdInv'
<1> DEFINE n == Len(odIter) + 1
           new == [thread |-> t, model |-> TRUE, result |-> TRUE, exists |-> TRUE]
<1>1. /\ odIter \in Seq(OdIterators) /\ odDeleted \in Seq(Nat) /\ Len(odDeleted) = Len(odIter)
      /\ odOpen \in [OdThreads -> Seq(Nat)] /\ odList \in Seq(Nat)
      /\ odAt \in [OdThreads -> OdPlaces]
      /\ Len(odIter) \in Nat /\ new \in OdIterators
  BY LenProperties DEF OdInv, OdTypeOK, OdIterators
<1>2. /\ odIter' = Append(odIter, new) /\ odDeleted' = Append(odDeleted, 0)
      /\ odOpen' = [odOpen EXCEPT ![t] = Append(@, n)]
      /\ odList' = Append(odList, n)
  BY DEF NewIterator
<1> HIDE DEF new
<1>3. /\ odIter' \in Seq(OdIterators) /\ Len(odIter') = n
      /\ \A i \in 1..Len(odIter) : odIter'[i] = odIter[i]
      /\ odIter'[n] = new
  BY <1>1, <1>2, AppendProperties
<1>4. /\ odDeleted' \in Seq(Nat) /\ Len(odDeleted') = n
      /\ \A i \in 1..Len(odIter) : odDeleted'[i] = odDeleted[i]
      /\ odDeleted'[n] = 0
  BY <1>1, <1>2, AppendProperties
<1>5. n \in Nat /\ n \notin 1..Len(odIter) /\ 1..n = 1..Len(odIter) \cup {n}
  BY <1>1
<1>6. new.model /\ new.result /\ new.exists
  BY DEF new
<1> HIDE DEF n
<1>7. ASSUME NEW s \in Seq(Nat), ListOK(s)
      PROVE  /\ Append(s, n) \in Seq(Nat) /\ Distinct(Append(s, n))
             /\ \A f : In(f, Append(s, n)) <=> f = n \/ In(f, s)
             /\ \A k \in DOMAIN Append(s, n) : Append(s, n)[k] \in 1..n
             /\ \A k \in DOMAIN s : s[k] \in 1..n
  <2>1. ~In(n, s)
    BY <1>5, <1>7 DEF ListOK, In
  <2>2. /\ Append(s, n) \in Seq(Nat) /\ Distinct(Append(s, n))
        /\ \A f : In(f, Append(s, n)) <=> f = n \/ In(f, s)
    BY <1>5, <1>7, <2>1, AppendToList DEF ListOK
  <2>3. ASSUME NEW k \in DOMAIN Append(s, n) PROVE Append(s, n)[k] \in 1..n
    <3>1. In(Append(s, n)[k], Append(s, n))
      BY DEF In
    <3>2. \A f : In(f, s) => f \in 1..n
      BY <1>5, <1>7 DEF In, ListOK
    <3> QED
      BY <1>5, <2>2, <3>1, <3>2
  <2> QED
    BY <1>5, <1>7, <2>2, <2>3 DEF ListOK
<1>8. odList' \in Seq(Nat) /\ ListOK(odList)' /\ \A f : In(f, odList') <=> f = n \/ In(f, odList)
  <2>1. ListOK(odList)
    BY DEF OdInv
  <2>2. /\ odList' \in Seq(Nat) /\ Distinct(odList')
        /\ \A f : In(f, odList') <=> f = n \/ In(f, odList)
        /\ \A k \in DOMAIN odList' : odList'[k] \in 1..n
    BY <1>1, <1>2, <1>7, <2>1
  <2>3. Distinct(odList)'
    BY <2>2 DEF Distinct
  <2> QED
    BY <1>3, <2>2, <2>3 DEF ListOK
<1>9. odOpen' \in [OdThreads -> Seq(Nat)] /\ \A u \in OdThreads : ListOK(odOpen[u])'
  <2>1. ASSUME NEW u \in OdThreads PROVE odOpen[u] \in Seq(Nat) /\ ListOK(odOpen[u])
    BY <1>1 DEF OdInv
  <2>2. ASSUME NEW u \in OdThreads PROVE odOpen'[u] = IF u = t THEN Append(odOpen[u], n) ELSE odOpen[u]
    BY <1>1, <1>2
  <2>3. ASSUME NEW u \in OdThreads PROVE odOpen'[u] \in Seq(Nat) /\ ListOK(odOpen[u])'
    <3>1. CASE u = t
      <4>1. odOpen'[u] = Append(odOpen[u], n)
        BY <2>2, <3>1
      <4>2. /\ Append(odOpen[u], n) \in Seq(Nat) /\ Distinct(Append(odOpen[u], n))
            /\ \A k \in DOMAIN Append(odOpen[u], n) : Append(odOpen[u], n)[k] \in 1..n
        BY <1>7, <2>1
      <4> QED
        BY <1>3, <4>1, <4>2 DEF ListOK, Distinct
    <3>2. CASE u # t
      <4>1. odOpen'[u] = odOpen[u]
        BY <2>2, <3>2
      <4>2. \A k \in DOMAIN odOpen[u] : odOpen[u][k] \in 1..n
        BY <1>7, <2>1
      <4> QED
        BY <1>3, <2>1, <4>1, <4>2 DEF ListOK, Distinct
    <3> QED
      BY <3>1, <3>2
  <2> QED
    BY <1>1, <1>2, <2>3
<1>10. OdTypeOK'
  BY <1>1, <1>3, <1>4, <1>8, <1>9 DEF OdTypeOK
<1>11. ASSUME NEW u \in OdThreads PROVE CloserOK(u)'
  <2>1. CloserOK(u) /\ odAt'[u] = odAt[u]
    BY DEF OdInv
  <2> QED
    BY <1>3, <1>5, <2>1 DEF CloserOK
<1>12. ASSUME NEW i \in 1..n PROVE IteratorOK(i)'
  <2>1. CASE i = n
    BY <1>3, <1>4, <1>6, <1>8, <2>1 DEF IteratorOK
  <2>2. CASE i # n
    <3>1. i \in 1..Len(odIter) /\ IteratorOK(i)
      BY <1>5, <2>2 DEF OdInv
    <3>2. Removing(i)' <=> Removing(i)
      BY DEF Removing
    <3> QED
      BY <1>3, <1>4, <1>8, <2>2, <3>1, <3>2 DEF IteratorOK
  <2> QED
    BY <2>1, <2>2
<1> QED
  BY <1>3, <1>8, <1>9, <1>10, <1>11, <1>12 DEF OdInv

(***************************************************************************)
(* close() of an iterator, by a thread that is not closing another: the    *)
(* thread takes it off the model's list if it is the first to close it.    *)
(***************************************************************************)
LEMMA CloseInv ==
  ASSUME OdInv, NEW t \in OdThreads, NEW i \in 1..Len(odIter), NEW next \in AfterClose,
         odAt[t].at \in {"idle", "loop"}, closeIterator(t, i, next)
  PROVE  OdInv'
<1> DEFINE it == odIter[i]
           closed == [it EXCEPT !.model = FALSE, !.result = FALSE]
           place == IF it.model THEN [at |-> "remove", iter |-> i, next |-> next]
                    ELSE [at |-> next, iter |-> i, next |-> next]
<1>1. /\ odIter \in Seq(OdIterators) /\ odDeleted \in Seq(Nat) /\ Len(odDeleted) = Len(odIter)
      /\ odOpen \in [OdThreads -> Seq(Nat)] /\ odList \in Seq(Nat)
      /\ odAt \in [OdThreads -> OdPlaces]
      /\ Len(odIter) \in Nat /\ it \in OdIterators
  BY LenProperties, ElementOfSeq DEF OdInv, OdTypeOK
<1>2. /\ odIter' = [odIter EXCEPT ![i] = closed]
      /\ odDeleted' = [odDeleted EXCEPT ![i] = IF it.result THEN @ + 1 ELSE @]
      /\ odOpen' = [odOpen EXCEPT ![it.thread] = IF it.result THEN removeAll(@, i) ELSE @]
      /\ odAt' = [odAt EXCEPT ![t] = place]
      /\ UNCHANGED <<odModel, odLeft, odList>>
  BY DEF closeIterator, CloseResult, Goto
<1>3. /\ closed \in OdIterators /\ closed.thread = it.thread /\ closed.exists = it.exists
      /\ ~closed.model /\ ~closed.result
  BY <1>1 DEF OdIterators
<1> HIDE DEF closed
<1>4. /\ odIter' \in Seq(OdIterators) /\ Len(odIter') = Len(odIter)
      /\ odIter'[i] = closed
      /\ \A j \in 1..Len(odIter) : j # i => odIter'[j] = odIter[j]
  BY <1>1, <1>2, <1>3, ExceptSeq
<1>5. odDeleted[i] \in Nat
  BY <1>1, ElementOfSeq
<1>6. /\ odDeleted' \in Seq(Nat) /\ Len(odDeleted') = Len(odIter)
      /\ odDeleted'[i] = IF it.result THEN odDeleted[i] + 1 ELSE odDeleted[i]
      /\ \A j \in 1..Len(odIter) : j # i => odDeleted'[j] = odDeleted[j]
  <2> DEFINE d == IF it.result THEN odDeleted[i] + 1 ELSE odDeleted[i]
  <2>1. d \in Nat
    BY <1>5
  <2>2. odDeleted' = [odDeleted EXCEPT ![i] = d]
    BY <1>2
  <2> HIDE DEF d
  <2>3. /\ odDeleted' \in Seq(Nat) /\ Len(odDeleted') = Len(odIter)
        /\ \A j \in 1..Len(odIter) : odDeleted'[j] = IF j = i THEN d ELSE odDeleted[j]
    BY <1>1, <2>1, <2>2, ExceptSeq
  <2> QED
    BY <2>3 DEF d
<1>7. odOpen' \in [OdThreads -> Seq(Nat)] /\ \A u \in OdThreads : ListOK(odOpen[u])'
  <2>1. ASSUME NEW u \in OdThreads PROVE odOpen[u] \in Seq(Nat) /\ ListOK(odOpen[u])
    BY <1>1 DEF OdInv
  <2>2. ASSUME NEW u \in OdThreads
        PROVE  odOpen'[u] = odOpen[u] \/ odOpen'[u] = removeAll(odOpen[u], i)
    BY <1>1, <1>2
  <2>3. ASSUME NEW s \in Seq(Nat), ListOK(s)
        PROVE  /\ removeAll(s, i) \in Seq(Nat) /\ Distinct(removeAll(s, i))
               /\ \A k \in DOMAIN removeAll(s, i) : removeAll(s, i)[k] \in 1..Len(odIter)
    <3>1. /\ removeAll(s, i) \in Seq(Nat) /\ Distinct(removeAll(s, i))
          /\ \A f : In(f, removeAll(s, i)) <=> f # i /\ In(f, s)
      BY <2>3, RemovedElement DEF ListOK
    <3>2. \A k \in DOMAIN removeAll(s, i) : In(removeAll(s, i)[k], removeAll(s, i))
      BY DEF In
    <3>3. \A f : In(f, s) => f \in 1..Len(odIter)
      BY <2>3 DEF In, ListOK
    <3> QED
      BY <3>1, <3>2, <3>3
  <2>4. ASSUME NEW u \in OdThreads PROVE odOpen'[u] \in Seq(Nat) /\ ListOK(odOpen[u])'
    <3>1. CASE odOpen'[u] = odOpen[u]
      BY <1>4, <2>1, <3>1 DEF ListOK, Distinct
    <3>2. CASE odOpen'[u] = removeAll(odOpen[u], i)
      <4>1. /\ removeAll(odOpen[u], i) \in Seq(Nat) /\ Distinct(removeAll(odOpen[u], i))
            /\ \A k \in DOMAIN removeAll(odOpen[u], i) : removeAll(odOpen[u], i)[k] \in 1..Len(odIter)
        BY <2>1, <2>3
      <4> QED
        BY <1>4, <3>2, <4>1 DEF ListOK, Distinct
    <3> QED
      BY <2>2, <3>1, <3>2
  <2> QED
    BY <1>1, <1>2, <2>4
<1>8. ListOK(odList)'
  BY <1>2, <1>4 DEF OdInv, ListOK, Distinct
<1>9. /\ odAt' \in [OdThreads -> OdPlaces]
      /\ odAt'[t] = place /\ \A u \in OdThreads : u # t => odAt'[u] = odAt[u]
  <2>1. place \in OdPlaces
    BY <1>1 DEF OdPlaces
  <2> HIDE DEF place
  <2> QED
    BY <1>1, <1>2, <2>1
<1>10. /\ it.model => place.at = "remove"
       /\ place.iter = i
  OBVIOUS
<1> HIDE DEF place, it
<1>11. OdTypeOK'
  BY <1>1, <1>2, <1>4, <1>6, <1>7, <1>9 DEF OdTypeOK
<1>12. \A j \in 1..Len(odIter) : odIter'[j].model => odIter[j].model
  BY <1>3, <1>4
<1>13. ASSUME NEW u \in OdThreads PROVE CloserOK(u)'
  <2>1. CASE u = t
    BY <1>3, <1>4, <1>9, <1>10, <2>1 DEF CloserOK
  <2>2. CASE u # t
    <3>1. CloserOK(u) /\ odAt'[u] = odAt[u]
      BY <1>9, <2>2 DEF OdInv
    <3> QED
      BY <1>4, <1>12, <3>1 DEF CloserOK
  <2> QED
    BY <2>1, <2>2
<1>14. ASSUME NEW j PROVE Removing(j) => Removing(j)'
  BY <1>9 DEF Removing
<1>15. ASSUME NEW j \in 1..Len(odIter) PROVE IteratorOK(j)'
  <2>1. IteratorOK(j)
    BY DEF OdInv
  <2>2. CASE j = i
    <3>1. i \notin odLeft => odDeleted'[i] = 1
      BY <1>6, <2>1, <2>2 DEF IteratorOK, it
    <3>2. In(i, odList) => Removing(i)'
      <4>1. CASE it.model
        BY <1>9, <1>10, <4>1 DEF Removing
      <4>2. CASE ~it.model
        BY <1>14, <2>1, <2>2, <4>2 DEF IteratorOK, it
      <4> QED
        BY <4>1, <4>2
    <3> QED
      BY <1>2, <1>3, <1>4, <2>2, <3>1, <3>2 DEF IteratorOK
  <2>3. CASE j # i
    BY <1>2, <1>4, <1>6, <1>14, <2>1, <2>3 DEF IteratorOK
  <2> QED
    BY <2>2, <2>3
<1>16. odModel' = "destroyed" => \A j \in 1..Len(odIter) : ~odIter'[j].model
  BY <1>2, <1>12 DEF OdInv
<1> QED
  BY <1>4, <1>7, <1>8, <1>11, <1>13, <1>15, <1>16 DEF OdInv

LEMMA RemoveInv ==
  ASSUME OdInv, NEW t \in OdThreads, removeIterator(t)
  PROVE  OdInv'
<1> DEFINE i == odAt[t].iter
           place == [odAt[t] EXCEPT !.at = odAt[t].next]
<1>1. /\ odList \in Seq(Nat) /\ ListOK(odList) /\ odAt \in [OdThreads -> OdPlaces]
      /\ odAt[t] \in OdPlaces
  BY DEF OdInv, OdTypeOK
<1>2. /\ odAt[t].at = "remove" /\ odList' = removeAll(odList, i)
      /\ odAt' = [odAt EXCEPT ![t] = place]
      /\ UNCHANGED <<odModel, odOpen, odIter, odDeleted, odLeft>>
  BY DEF removeIterator, Goto
<1>3. i \in 1..Len(odIter) /\ ~odIter[i].model
  BY <1>2 DEF OdInv, CloserOK
<1>4. place \in OdPlaces /\ place.iter = i
  BY <1>1 DEF OdPlaces
<1> HIDE DEF place, i
<1>5. /\ odList' \in Seq(Nat) /\ Distinct(odList')
      /\ \A f : In(f, odList') <=> f # i /\ In(f, odList)
  BY <1>1, <1>2, RemovedElement DEF ListOK
<1>6. /\ odAt' \in [OdThreads -> OdPlaces]
      /\ odAt'[t] = place /\ \A u \in OdThreads : u # t => odAt'[u] = odAt[u]
  BY <1>1, <1>2, <1>4
<1>7. ListOK(odList)'
  <2>1. \A k \in DOMAIN odList' : In(odList'[k], odList)
    BY <1>5 DEF In
  <2> QED
    BY <1>1, <1>2, <1>5, <2>1 DEF ListOK, Distinct, In
<1>8. OdTypeOK'
  BY <1>2, <1>5, <1>6 DEF OdInv, OdTypeOK
<1>9. ASSUME NEW u \in OdThreads PROVE ListOK(odOpen[u])' /\ CloserOK(u)'
  <2>1. ListOK(odOpen[u]) /\ CloserOK(u)
    BY DEF OdInv
  <2>2. ListOK(odOpen[u])'
    BY <1>2, <2>1 DEF ListOK, Distinct
  <2>3. CloserOK(u)'
    BY <1>2, <1>3, <1>4, <1>6, <2>1 DEF CloserOK
  <2> QED
    BY <2>2, <2>3
<1>10. ASSUME NEW j \in 1..Len(odIter) PROVE IteratorOK(j)'
  <2>1. IteratorOK(j)
    BY DEF OdInv
  <2>2. CASE j = i
    BY <1>2, <1>3, <1>5, <2>1, <2>2 DEF IteratorOK
  <2>3. CASE j # i
    <3>1. Removing(j) => Removing(j)'
      BY <1>2, <1>6, <2>3 DEF Removing, i
    <3> QED
      BY <1>2, <1>5, <2>1, <2>3, <3>1 DEF IteratorOK
  <2> QED
    BY <2>2, <2>3
<1> QED
  BY <1>2, <1>7, <1>8, <1>9, <1>10 DEF OdInv

LEMMA FinishInv ==
  ASSUME OdInv, NEW t \in OdThreads, finishClose(t)
  PROVE  OdInv'
<1> DEFINE i == odAt[t].iter
           gone == [odIter[i] EXCEPT !.exists = FALSE]
<1>1. /\ odIter \in Seq(OdIterators) /\ odAt \in [OdThreads -> OdPlaces]
      /\ odAt[t].at \in {"closed", "delete"}
  BY DEF OdInv, OdTypeOK, finishClose
<1>2. i \in 1..Len(odIter) /\ ~odIter[i].model
  BY <1>1 DEF OdInv, CloserOK
<1>3. /\ odIter' = odIter \/ odIter' = [odIter EXCEPT ![i] = gone]
      /\ odAt' = [odAt EXCEPT ![t] = Idle]
      /\ UNCHANGED <<odModel, odOpen, odDeleted, odLeft, odList>>
  BY DEF finishClose, Goto
<1>4. /\ gone \in OdIterators /\ gone.model = odIter[i].model /\ gone.result = odIter[i].result
  <2>1. odIter[i] \in OdIterators
    BY <1>1, <1>2, ElementOfSeq
  <2> QED
    BY <2>1 DEF OdIterators
<1> HIDE DEF gone, i
<1>5. /\ odIter' \in Seq(OdIterators) /\ Len(odIter') = Len(odIter)
      /\ \A j \in 1..Len(odIter) :
           /\ odIter'[j].model = odIter[j].model /\ odIter'[j].result = odIter[j].result
           /\ j # i => odIter'[j] = odIter[j]
  <2>1. CASE odIter' = odIter
    BY <1>1, <2>1
  <2>2. CASE odIter' = [odIter EXCEPT ![i] = gone]
    <3>1. /\ odIter' \in Seq(OdIterators) /\ Len(odIter') = Len(odIter)
          /\ \A j \in 1..Len(odIter) : odIter'[j] = IF j = i THEN gone ELSE odIter[j]
      BY <1>1, <1>2, <1>4, <2>2, ExceptSeq
    <3> QED
      BY <1>4, <3>1
  <2> QED
    BY <1>3, <2>1, <2>2
<1>6. /\ odAt' \in [OdThreads -> OdPlaces]
      /\ odAt'[t].at = "idle" /\ \A u \in OdThreads : u # t => odAt'[u] = odAt[u]
  <2>1. Idle \in OdPlaces /\ Idle.at = "idle"
    BY DEF OdPlaces, Idle
  <2> QED
    BY <1>1, <1>3, <2>1
<1>7. OdTypeOK'
  BY <1>3, <1>5, <1>6 DEF OdInv, OdTypeOK
<1>8. ListOK(odList)' /\ \A u \in OdThreads : ListOK(odOpen[u])'
  BY <1>3, <1>5 DEF OdInv, ListOK, Distinct
<1>9. ASSUME NEW u \in OdThreads PROVE CloserOK(u)'
  <2>1. CloserOK(u)
    BY DEF OdInv
  <2> QED
    BY <1>5, <1>6, <2>1 DEF CloserOK
<1>10. ASSUME NEW j \in 1..Len(odIter) PROVE IteratorOK(j)'
  <2>1. IteratorOK(j)
    BY DEF OdInv
  <2>2. Removing(j) => Removing(j)'
    BY <1>1, <1>6 DEF Removing
  <2>3. CASE j = i
    BY <1>2, <1>3, <1>5, <2>1, <2>2, <2>3 DEF IteratorOK
  <2>4. CASE j # i
    BY <1>3, <1>5, <2>1, <2>2, <2>4 DEF IteratorOK
  <2> QED
    BY <2>3, <2>4
<1>11. odModel' = "destroyed" => \A j \in 1..Len(odIter) : ~odIter'[j].model
  BY <1>3, <1>5 DEF OdInv
<1> QED
  BY <1>5, <1>7, <1>8, <1>9, <1>10, <1>11 DEF OdInv

(***************************************************************************)
(* The steps that touch no iterator and no list of them: connections that  *)
(* go with their results, and the model's destructor at its two ends.      *)
(***************************************************************************)
LEMMA PlacesOnly ==
  ASSUME OdInv, UNCHANGED <<odIter, odList>>, ResultsOK',
         odAt' \in [OdThreads -> OdPlaces],
         \A t \in OdThreads :
           odAt'[t] = odAt[t] \/ (odAt[t].at # "remove" /\ odAt'[t].at \in {"idle", "loop"}),
         odModel' = "destroyed" => odModel = "destroyed" \/ odList = <<>>
  PROVE  OdInv'
<1>1. OdTypeOK'
  BY DEF OdInv, OdTypeOK, ResultsOK
<1>2. ListOK(odList)'
  BY DEF OdInv, ListOK, Distinct
<1>3. ASSUME NEW t \in OdThreads PROVE ListOK(odOpen[t])' /\ CloserOK(t)'
  BY DEF OdInv, CloserOK, ResultsOK
<1>4. ASSUME NEW i \in 1..Len(odIter) PROVE IteratorOK(i)'
  <2>1. IteratorOK(i)
    BY DEF OdInv
  <2>2. Removing(i) => Removing(i)'
    BY DEF Removing
  <2> QED
    BY <2>1, <2>2 DEF IteratorOK, ResultsOK
<1>5. odModel' = "destroyed" => \A i \in 1..Len(odIter) : ~odIter'[i].model
  <2>1. CASE odList = <<>>
    BY <2>1 DEF OdInv, IteratorOK, In
  <2> QED
    BY <2>1 DEF OdInv
<1> QED
  BY <1>1, <1>2, <1>3, <1>4, <1>5 DEF OdInv

LEMMA OdStepInv ==
  ASSUME OdInv, [OdNext]_odVars
  PROVE  OdInv'
<1> USE DestroyerAssumption
<1>1. /\ odIter \in Seq(OdIterators) /\ DOMAIN odIter = 1..Len(odIter)
      /\ odAt \in [OdThreads -> OdPlaces] /\ ResultsOK
  BY LenProperties DEF OdInv, OdTypeOK, IteratorOK, ResultsOK
<1>2. ASSUME UNCHANGED <<odIter, odDeleted, odOpen, odLeft, odList>> PROVE ResultsOK'
  BY <1>1, <1>2 DEF ResultsOK, ListOK, Distinct
<1>3. ASSUME NEW t \in OdThreads, executeQuery(t)
      PROVE  OdInv'
  <2>1. CASE NewIterator(t)
    BY <1>3, <2>1, NewIteratorInv DEF executeQuery
  <2>2. CASE UNCHANGED <<odIter, odDeleted, odOpen, odList>>
    <3>1. UNCHANGED <<odModel, odIter, odDeleted, odOpen, odLeft, odList, odAt>>
      BY <1>3, <2>2 DEF executeQuery
    <3> QED
      BY <1>1, <1>2, <3>1, PlacesOnly
  <2> QED
    BY <1>3, <2>1, <2>2 DEF executeQuery
<1>4. ASSUME NEW t \in OdThreads, NEW i \in DOMAIN odIter, closeOwn(t, i) \/ destroyOwn(t, i)
      PROVE  OdInv'
  <2>1. odAt[t].at = "idle" /\ \E next \in AfterClose : closeIterator(t, i, next)
    BY <1>4 DEF closeOwn, destroyOwn, Running, Idle, AfterClose
  <2> QED
    BY <1>1, <2>1, CloseInv
<1>5. ASSUME NEW t \in OdThreads, threadFinishes(t)
      PROVE  OdInv'
  <2>1. DeleteConnections({t} \cap odConn) /\ UNCHANGED <<odIter, odList>>
    BY <1>5 DEF threadFinishes
  <2>2. UNCHANGED <<odModel, odAt>>
    BY <1>5 DEF threadFinishes
  <2>3. ResultsOK'
    BY <2>1, DeletedWithConnections
  <2> QED
    BY <1>1, <2>1, <2>2, <2>3, PlacesOnly
<1>6. CASE destroyModel
  <2>1. [at |-> "loop", iter |-> 0, next |-> "loop"] \in OdPlaces
    BY DEF OdPlaces, AfterClose
  <2>2. /\ odAt[Destroyer].at = "idle" /\ odModel' = "destroying"
        /\ odAt' = [odAt EXCEPT ![Destroyer] = [at |-> "loop", iter |-> 0, next |-> "loop"]]
        /\ UNCHANGED <<odIter, odDeleted, odOpen, odLeft, odList>>
    BY <1>6 DEF destroyModel, Goto, Running, Idle
  <2>3. /\ odAt' \in [OdThreads -> OdPlaces] /\ odAt'[Destroyer].at = "loop"
        /\ \A t \in OdThreads : t # Destroyer => odAt'[t] = odAt[t]
    BY <1>1, <2>1, <2>2
  <2> QED
    BY <1>2, <2>2, <2>3, PlacesOnly
<1>7. CASE closeLast
  <2>1. odAt[Destroyer].at = "loop" /\ odList # <<>> /\ closeIterator(Destroyer, odList[Len(odList)], "loop")
    BY <1>7 DEF closeLast
  <2>2. odList[Len(odList)] \in 1..Len(odIter)
    BY <2>1, EmptySeq, LenProperties DEF OdInv, OdTypeOK, ListOK
  <2> QED
    BY <2>1, <2>2, CloseInv DEF AfterClose
<1>8. CASE allClosed
  <2>1. /\ odAt[Destroyer].at = "loop" /\ odList = <<>> /\ DeleteConnections(odConn)
        /\ odAt' = [odAt EXCEPT ![Destroyer] = Idle] /\ UNCHANGED <<odIter, odList>>
    BY <1>8 DEF allClosed, Goto
  <2>2. Idle \in OdPlaces /\ Idle.at = "idle"
    BY DEF OdPlaces, Idle
  <2>3. /\ odAt' \in [OdThreads -> OdPlaces] /\ odAt'[Destroyer].at = "idle"
        /\ \A t \in OdThreads : t # Destroyer => odAt'[t] = odAt[t]
    BY <1>1, <2>1, <2>2
  <2>4. ResultsOK'
    BY <2>1, DeletedWithConnections
  <2> QED
    BY <2>1, <2>3, <2>4, PlacesOnly
<1>9. CASE UNCHANGED odVars
  <2>1. UNCHANGED <<odModel, odIter, odDeleted, odOpen, odLeft, odList, odAt>>
    BY <1>9 DEF odVars
  <2> QED
    BY <1>1, <1>2, <2>1, PlacesOnly
<1> QED
  BY <1>3, <1>4, <1>5, <1>6, <1>7, <1>8, <1>9, RemoveInv, FinishInv DEF OdNext

(***************************************************************************)
(* With any number of threads and queries: close() and the destructors of  *)
(* an iterator, of the model and of a connection delete each result once,  *)
(* except those that outlive their thread, and the model's list holds the  *)
(* iterators that need the model.                                          *)
(***************************************************************************)
THEOREM ResultsDeleted == OdInit /\ [][OdNext]_odVars => []ResultsDeletedOnce
<1>1. ASSUME OdInv PROVE ResultsDeletedOnce
  <2>1. DOMAIN odIter = 1..Len(odIter)
    BY <1>1, LenProperties DEF OdInv, OdTypeOK
  <2>2. ASSUME NEW k \in DOMAIN odList
        PROVE  \/ odIter[odList[k]].exists
               \/ \E t \in OdThreads : odAt[t].at = "remove" /\ odAt[t].iter = odList[k]
    <3>1. odList[k] \in 1..Len(odIter) /\ In(odList[k], odList)
      BY <1>1 DEF OdInv, ListOK, In
    <3> QED
      BY <1>1, <3>1 DEF OdInv, IteratorOK, Removing
  <2>3. ASSUME NEW i \in 1..Len(odIter)
        PROVE  /\ i \notin odLeft => odDeleted[i] = IF odIter[i].result THEN 0 ELSE 1
               /\ odIter[i].model => odIter[i].exists /\ i \in {odList[k] : k \in DOMAIN odList}
               /\ odModel = "destroyed" => ~odIter[i].result
    BY <1>1 DEF OdInv, IteratorOK, In
  <2> QED
    BY <2>1, <2>2, <2>3 DEF ResultsDeletedOnce
<1> QED
  BY OdInitInv, OdStepInv, <1>1, PTL
-----------------------------------------------------------------------------
(***************************************************************************)
(* RedlandModel.  Who is in which phase and how many iterators are open    *)
(* says what each of the fields of MultiMutex is.                          *)
(***************************************************************************)
RdPlaces == {"idle", "refused", "unlocked", "read", "readMain", "reading", "write", "writing"}
RdAt(t) == rdCall[t].at

\* A call keeps its fields; its place is all the lock depends on.
RdCallsOK ==
  /\ DOMAIN rdCall = RdThreads /\ rdCall = [t \in RdThreads |-> rdCall[t]]
  /\ \A t \in RdThreads : DOMAIN rdCall[t] = DOMAIN NoRdCall /\ RdAt(t) \in RdPlaces

RdTypeOK ==
  /\ mainMutex \in [write : RdThreads \cup {"none"}, read : BOOLEAN]
  /\ readMutex \in RdThreads \cup {"none"} /\ lockingThread \in RdThreads \cup {"none"}
  /\ lockCnt \in Nat /\ lockedForWrite \in BOOLEAN
  /\ rdIterators \in Seq(RdThreads)

\* mainMutex is with the writer, or with the readers when there is one.
MainMutexHeld ==
  /\ \A t \in RdThreads : mainMutex.write = t <=> RdAt(t) = "writing"
  /\ lockedForWrite <=> mainMutex.write # "none"
  /\ mainMutex.read <=> lockingThread # "none"
  /\ mainMutex.read => mainMutex.write = "none"

\* readMutex is with the one reader, or with who is on the way to be it.
ReadMutexHeld ==
  \A t \in RdThreads :
    /\ readMutex = t <=> RdAt(t) = "readMain" \/ lockingThread = t
    /\ RdAt(t) = "readMain" => lockingThread # t
    /\ RdAt(t) = "reading" => lockingThread = t

\* The reader has counted its iterators and the call it is in.
ReadsCounted ==
  /\ \A k \in DOMAIN rdIterators : rdIterators[k] = lockingThread
  /\ lockCnt = Len(rdIterators) + (IF \E t \in RdThreads : RdAt(t) = "reading" THEN 1 ELSE 0)
  /\ lockCnt = 0 <=> lockingThread = "none"

RdInv ==
  /\ RdCallsOK
  /\ IF rdDestroyed = "no" THEN RdTypeOK /\ MainMutexHeld /\ ReadMutexHeld /\ ReadsCounted
     ELSE \A t \in RdThreads : RdAt(t) = "idle"
-----------------------------------------------------------------------------
LEMMA RdInitInv == RdInit => RdInv
<1> SUFFICES ASSUME RdInit PROVE RdInv
  OBVIOUS
<1>1. RdCallsOK /\ \A t \in RdThreads : RdAt(t) = "idle"
  BY DEF RdInit, RdCallsOK, RdAt, RdPlaces, NoRdCall
<1>2. RdTypeOK
  <2>1. mainMutex \in [write : RdThreads \cup {"none"}, read : BOOLEAN]
    BY DEF RdInit
  <2>2. rdIterators \in Seq(RdThreads)
    BY DEF RdInit
  <2>3. readMutex \in RdThreads \cup {"none"} /\ lockingThread \in RdThreads \cup {"none"}
    BY DEF RdInit
  <2>4. lockCnt \in Nat /\ lockedForWrite \in BOOLEAN
    BY DEF RdInit
  <2> QED
    BY <2>1, <2>2, <2>3, <2>4 DEF RdTypeOK
<1>3. MainMutexHeld /\ ReadMutexHeld
  BY <1>1, RdThreadsAssumption DEF RdInit, MainMutexHeld, ReadMutexHeld
<1>4. ReadsCounted
  BY <1>1 DEF RdInit, ReadsCounted
<1> QED
  BY <1>1, <1>2, <1>3, <1>4 DEF RdInv

(***************************************************************************)
(* A step of a call takes one thread from a place to another.              *)
(***************************************************************************)
OneMoves(t, place) == \A u \in RdThreads : RdAt(u)' = IF u = t THEN place ELSE RdAt(u)

LEMMA SetMoves ==
  ASSUME RdCallsOK, NEW t \in RdThreads, NEW c, DOMAIN c = DOMAIN NoRdCall, c.at \in RdPlaces,
         Set(t, c) \/ \E st : Added(t, st, c)
  PROVE  RdCallsOK' /\ OneMoves(t, c.at)
<1>1. "at" \in DOMAIN NoRdCall /\ "since" \in DOMAIN NoRdCall
  BY DEF NoRdCall
<1> HIDE DEF NoRdCall
<1>2. CASE Set(t, c)
  <2>1. rdCall' = [u \in RdThreads |-> IF u = t THEN c ELSE rdCall[u]]
    BY <1>2 DEF Set, RdCallsOK
  <2> QED
    BY <2>1 DEF RdCallsOK, OneMoves, RdAt
<1>3. ASSUME NEW st, Added(t, st, c) PROVE RdCallsOK' /\ OneMoves(t, c.at)
  <2>1. rdCall' = [u \in RdThreads |-> IF u = t THEN c ELSE [rdCall[u] EXCEPT !.since = @ \cup {st}]]
    BY <1>3 DEF Added
  <2>2. ASSUME NEW u \in RdThreads
        PROVE  LET d == [rdCall[u] EXCEPT !.since = @ \cup {st}]
               IN DOMAIN d = DOMAIN NoRdCall /\ d.at = rdCall[u].at
    BY <1>1 DEF RdCallsOK
  <2> QED
    BY <2>1, <2>2 DEF RdCallsOK, OneMoves, RdAt
<1> QED
  BY <1>2, <1>3

LEMMA CallsChanged ==
  ASSUME RdCallsOK, NEW t \in RdThreads, NEW place \in RdPlaces
  PROVE  LET c == [rdCall[t] EXCEPT !.at = place]
         IN DOMAIN c = DOMAIN NoRdCall /\ c.at = place
  BY DEF RdCallsOK, NoRdCall

LEMMA CallsEnded ==
  ASSUME RdCallsOK, NEW t \in RdThreads, NEW rc, NEW signals
  PROVE  DOMAIN Return_(t, rc, signals) = DOMAIN NoRdCall /\ Return_(t, rc, signals).at = "idle"
  BY DEF RdCallsOK, NoRdCall, Return_
-----------------------------------------------------------------------------
(***************************************************************************)
(* The three ways a call changes the locks, with what it does to the       *)
(* iterators                                                               *)
(***************************************************************************)
RdParts == RdTypeOK /\ MainMutexHeld /\ ReadMutexHeld /\ ReadsCounted

LEMMA LocksKept ==
  ASSUME RdParts, NEW t \in RdThreads, NEW place \in {"idle", "refused", "unlocked", "read", "write"},
         OneMoves(t, place), RdAt(t) \in {"idle", "refused", "unlocked", "read", "write"},
         UNCHANGED <<lockVars, rdIterators>>
  PROVE  RdParts'
<1>1. ASSUME NEW u \in RdThreads, NEW p \in {"readMain", "reading", "writing"}
      PROVE  RdAt(u)' = p <=> RdAt(u) = p
  BY <1>1 DEF OneMoves
<1> QED
  BY <1>1 DEF RdParts, RdTypeOK, MainMutexHeld, ReadMutexHeld, ReadsCounted, lockVars

LEMMA ReaderComes ==
  ASSUME RdParts, NEW t \in RdThreads, NEW place \in {"readMain", "reading"},
         OneMoves(t, place), UNCHANGED rdIterators,
         \/ RdAt(t) = "read" /\ CountRead(t) /\ place = "reading"
         \/ RdAt(t) = "read" /\ lockingThread # t /\ TakeReadMutex(t) /\ place = "readMain"
         \/ RdAt(t) = "readMain" /\ TakeMainForRead(t) /\ place = "reading"
  PROVE  RdParts'
<1> USE DEF RdParts, OneMoves
<1>1. CASE RdAt(t) = "read" /\ CountRead(t) /\ place = "reading"
  <2>1. lockingThread = t /\ ~\E u \in RdThreads : RdAt(u) = "reading"
    BY <1>1 DEF CountRead, ReadMutexHeld
  <2>2. RdTypeOK' /\ MainMutexHeld' /\ ReadMutexHeld'
    BY <1>1, <2>1 DEF CountRead, RdTypeOK, MainMutexHeld, ReadMutexHeld
  <2>3. ReadsCounted'
    BY <1>1, <2>1, RdThreadsAssumption DEF CountRead, RdTypeOK, ReadsCounted
  <2> QED
    BY <2>2, <2>3
<1>2. CASE RdAt(t) = "read" /\ lockingThread # t /\ TakeReadMutex(t) /\ place = "readMain"
  <2>1. \A u \in RdThreads : RdAt(u) # "readMain" /\ lockingThread # u
    BY <1>2, RdThreadsAssumption DEF TakeReadMutex, ReadMutexHeld
  <2>2. RdTypeOK' /\ MainMutexHeld' /\ ReadMutexHeld'
    BY <1>2, <2>1 DEF TakeReadMutex, RdTypeOK, MainMutexHeld, ReadMutexHeld
  <2>3. ReadsCounted'
    BY <1>2 DEF TakeReadMutex, ReadsCounted
  <2> QED
    BY <2>2, <2>3
<1>3. CASE RdAt(t) = "readMain" /\ TakeMainForRead(t) /\ place = "reading"
  <2>1. readMutex = t /\ lockingThread = "none" /\ lockCnt = 0
    BY <1>3 DEF TakeMainForRead, ReadMutexHeld, ReadsCounted, RdTypeOK
  <2>2. rdIterators = <<>> /\ \A u \in RdThreads : RdAt(u) # "reading"
    <3>1. \A u \in RdThreads : RdAt(u) # "reading"
      BY <2>1, RdThreadsAssumption DEF ReadMutexHeld
    <3>2. rdIterators \in Seq(RdThreads) /\ Len(rdIterators) \in Nat
      BY DEF RdTypeOK
    <3>3. lockCnt = Len(rdIterators)
      BY <3>1, <3>2 DEF ReadsCounted
    <3> QED
      BY <2>1, <3>1, <3>2, <3>3
  <2>3. /\ mainMutex' \in [write : RdThreads \cup {"none"}, read : BOOLEAN]
        /\ mainMutex'.write = "none" /\ mainMutex'.read /\ mainMutex.write = "none"
    BY <1>3 DEF TakeMainForRead, RdTypeOK
  <2>4. lockingThread' = t /\ lockCnt' = 1 /\ UNCHANGED <<readMutex, lockedForWrite>>
    BY <1>3, <2>1 DEF TakeMainForRead
  <2>5. RdTypeOK' /\ MainMutexHeld'
    BY <1>3, <2>3, <2>4, RdThreadsAssumption DEF RdTypeOK, MainMutexHeld
  <2>6. ReadMutexHeld'
    BY <1>3, <2>1, <2>4 DEF ReadMutexHeld
  <2>7. ReadsCounted'
    BY <1>3, <2>1, <2>2, <2>4, RdThreadsAssumption DEF ReadsCounted
  <2> QED
    BY <2>5, <2>6, <2>7
<1> QED
  BY <1>1, <1>2, <1>3

LEMMA WriterComes ==
  ASSUME RdParts, NEW t \in RdThreads, RdAt(t) = "write", OneMoves(t, "writing"),
         lockForWrite(t), UNCHANGED rdIterators
  PROVE  RdParts'
<1> USE DEF RdParts, OneMoves
<1>1. /\ mainMutex = [write |-> "none", read |-> FALSE] /\ mainMutex' = [write |-> t, read |-> FALSE]
      /\ lockedForWrite' = TRUE /\ UNCHANGED <<readMutex, lockingThread, lockCnt>>
  BY DEF lockForWrite
<1>2. RdTypeOK' /\ MainMutexHeld'
  BY <1>1, RdThreadsAssumption DEF RdTypeOK, MainMutexHeld
<1>3. ReadMutexHeld' /\ ReadsCounted'
  BY <1>1 DEF ReadMutexHeld, ReadsCounted
<1> QED
  BY <1>2, <1>3

LEMMA WriterGoes ==
  ASSUME RdParts, NEW t \in RdThreads, RdAt(t) = "writing", OneMoves(t, "idle"),
         unlock(t), UNCHANGED rdIterators
  PROVE  RdParts'
<1> USE DEF RdParts, OneMoves
<1>1. mainMutex.write = t /\ lockedForWrite /\ ~mainMutex.read
  BY RdThreadsAssumption DEF MainMutexHeld
<1>2. /\ mainMutex' = [write |-> "none", read |-> FALSE]
      /\ lockedForWrite' = FALSE /\ UNCHANGED <<readMutex, lockingThread, lockCnt>>
  BY <1>1 DEF unlock, RdTypeOK
<1>3. RdTypeOK' /\ MainMutexHeld'
  BY <1>1, <1>2, RdThreadsAssumption DEF RdTypeOK, MainMutexHeld
<1>4. ReadMutexHeld' /\ ReadsCounted'
  BY <1>2 DEF ReadMutexHeld, ReadsCounted
<1> QED
  BY <1>3, <1>4
-----------------------------------------------------------------------------
(***************************************************************************)
(* The reader counts down, and lets both mutexes go at the last one.       *)
(***************************************************************************)
LEMMA ReadUnlocked ==
  ASSUME RdParts, NEW t \in RdThreads, lockingThread = t, unlock(t)
  PROVE  /\ UNCHANGED lockedForWrite /\ lockCnt' = lockCnt - 1 /\ lockCnt' \in Nat
         /\ mainMutex.write = "none" /\ mainMutex'.write = "none"
         /\ \/ lockCnt' = 0 /\ mainMutex' = [write |-> "none", read |-> FALSE]
               /\ lockingThread' = "none" /\ readMutex' = "none"
            \/ lockCnt' # 0 /\ UNCHANGED <<mainMutex, lockingThread, readMutex>>
<1>1. /\ mainMutex.read /\ mainMutex.write = "none" /\ ~lockedForWrite
      /\ lockCnt \in Nat /\ lockCnt # 0 /\ mainMutex \in [write : RdThreads \cup {"none"}, read : BOOLEAN]
  BY RdThreadsAssumption DEF RdParts, RdTypeOK, MainMutexHeld, ReadsCounted
<1> QED
  BY <1>1 DEF unlock

(***************************************************************************)
(* What is left of the locks when the reader has one read less, with the   *)
(* iterators that are left                                                 *)
(***************************************************************************)
LEMMA ReaderGoes ==
  ASSUME RdParts, NEW t \in RdThreads, lockingThread = t, unlock(t), RdAt(t) # "readMain",
         \A u \in RdThreads : RdAt(u)' = RdAt(u) \/ (u = t /\ RdAt(u)' = "idle") \/ (u = t /\ RdAt(u)' = "write"),
         rdIterators' \in Seq(RdThreads), \A k \in DOMAIN rdIterators' : rdIterators'[k] = t,
         \/ Len(rdIterators') = Len(rdIterators) /\ RdAt(t) = "reading" /\ RdAt(t)' # "reading"
         \/ Len(rdIterators') = Len(rdIterators) - 1 /\ RdAt(t)' = RdAt(t)
  PROVE  RdParts'
<1> USE DEF RdParts
<1>1. /\ UNCHANGED lockedForWrite /\ lockCnt' = lockCnt - 1 /\ lockCnt' \in Nat
      /\ mainMutex.write = "none" /\ mainMutex'.write = "none"
      /\ \/ lockCnt' = 0 /\ mainMutex' = [write |-> "none", read |-> FALSE]
            /\ lockingThread' = "none" /\ readMutex' = "none"
         \/ lockCnt' # 0 /\ UNCHANGED <<mainMutex, lockingThread, readMutex>>
  BY ReadUnlocked
<1>2. /\ \A u \in RdThreads : RdAt(u) # "writing" /\ RdAt(u)' # "writing"
      /\ \A u \in RdThreads : RdAt(u) # "readMain" /\ RdAt(u)' # "readMain"
      /\ \A u \in RdThreads : RdAt(u) = "reading" => u = t
      /\ readMutex = t
  BY <1>1, RdThreadsAssumption DEF MainMutexHeld, ReadMutexHeld
<1>3. RdTypeOK'
  <2>1. [write |-> "none", read |-> FALSE] \in [write : RdThreads \cup {"none"}, read : BOOLEAN]
    OBVIOUS
  <2>2. mainMutex' \in [write : RdThreads \cup {"none"}, read : BOOLEAN]
    BY <1>1, <2>1 DEF RdTypeOK
  <2> QED
    BY <1>1, <2>2 DEF RdTypeOK
<1>4. MainMutexHeld'
  BY <1>1, <1>2, RdThreadsAssumption DEF MainMutexHeld
<1>5. lockCnt' = Len(rdIterators') + (IF \E u \in RdThreads : RdAt(u)' = "reading" THEN 1 ELSE 0)
  <2>1. lockCnt = Len(rdIterators) + (IF RdAt(t) = "reading" THEN 1 ELSE 0)
    <3>1. (\E u \in RdThreads : RdAt(u) = "reading") <=> RdAt(t) = "reading"
      BY <1>2
    <3> QED
      BY <3>1 DEF ReadsCounted
  <2>2. (\E u \in RdThreads : RdAt(u)' = "reading") <=> RdAt(t)' = "reading"
    BY <1>2
  <2>3. Len(rdIterators) \in Nat /\ Len(rdIterators') \in Nat /\ lockCnt \in Nat
    BY DEF RdTypeOK
  <2> QED
    BY <1>1, <2>1, <2>2, <2>3
<1>6. ASSUME lockCnt' = 0
      PROVE  rdIterators' = <<>> /\ \A u \in RdThreads : RdAt(u)' # "reading"
  BY <1>5, <1>6
<1>7. ReadMutexHeld'
  BY <1>1, <1>2, <1>6, RdThreadsAssumption DEF ReadMutexHeld
<1>8. ReadsCounted'
  BY <1>1, <1>5, <1>6, RdThreadsAssumption DEF ReadsCounted
<1> QED
  BY <1>3, <1>4, <1>7, <1>8

\* The iterator takes over the read of the call that makes it.
LEMMA ReaderStays ==
  ASSUME RdParts, NEW t \in RdThreads, RdAt(t) = "reading", OneMoves(t, "idle"),
         rdIterators' = Append(rdIterators, t), UNCHANGED lockVars
  PROVE  RdParts'
<1> USE DEF RdParts, OneMoves, lockVars
<1>1. lockingThread = t /\ \A u \in RdThreads : RdAt(u) = "reading" => u = t
  BY DEF ReadMutexHeld
<1>2. rdIterators' \in Seq(RdThreads) /\ Len(rdIterators') = Len(rdIterators) + 1 /\ Len(rdIterators) \in Nat
      /\ \A k \in DOMAIN rdIterators' : rdIterators'[k] = t
  BY <1>1 DEF RdTypeOK, ReadsCounted
<1>3. RdTypeOK' /\ MainMutexHeld' /\ ReadMutexHeld'
  BY <1>2 DEF RdTypeOK, MainMutexHeld, ReadMutexHeld
<1>4. ReadsCounted'
  <2>1. lockCnt = Len(rdIterators) + 1
    BY DEF ReadsCounted
  <2>2. lockCnt' = Len(rdIterators') + (IF \E u \in RdThreads : RdAt(u)' = "reading" THEN 1 ELSE 0)
    BY <1>1, <1>2, <2>1
  <2> QED
    BY <1>1, <1>2, <2>2 DEF ReadsCounted
<1> QED
  BY <1>3, <1>4
-----------------------------------------------------------------------------
LEMMA RdActive ==
  ASSUME RdInv, NEW t \in RdThreads, rdDestroyed = "no" \/ RdAt(t) # "idle"
  PROVE  rdDestroyed = "no" /\ RdParts /\ RdCallsOK
  BY DEF RdInv, RdParts

LEMMA RdStays ==
  ASSUME rdDestroyed = "no", UNCHANGED rdDestroyed, RdCallsOK', RdParts'
  PROVE  RdInv'
  BY DEF RdInv, RdParts

LEMMA RdOutsideInv ==
  ASSUME RdInv, NEW t \in RdThreads, (\E op, arg : begin(t, op, arg)) \/ refused(t) \/ createBlankNode(t)
  PROVE  RdInv'
<1>1. CASE refused(t) \/ createBlankNode(t)
  <2>1. RdAt(t) \in {"refused", "unlocked"} /\ (\E rc : Set(t, Return_(t, rc, {})))
        /\ UNCHANGED <<lockVars, rdIterators, rdDestroyed>>
    BY <1>1 DEF refused, createBlankNode, At, RdAt
  <2>2. rdDestroyed = "no" /\ RdParts /\ RdCallsOK
    BY <2>1, RdActive
  <2>3. RdCallsOK' /\ OneMoves(t, "idle")
    BY <2>1, <2>2, CallsEnded, SetMoves DEF RdPlaces
  <2> QED
    BY <2>1, <2>2, <2>3, LocksKept, RdStays
<1>2. ASSUME NEW op, NEW arg, begin(t, op, arg) PROVE RdInv'
  <2>1. RdAt(t) = "idle" /\ rdDestroyed = "no" /\ UNCHANGED <<lockVars, rdIterators, rdDestroyed>>
    BY <1>2 DEF begin, At, RdAt
  <2>2. RdParts /\ RdCallsOK
    BY <2>1, RdActive
  <2>3. PICK place \in {"refused", "unlocked", "read", "write"} :
          Set(t, [NoRdCall EXCEPT !.op = op, !.arg = arg, !.at = place])
    BY <1>2 DEF begin
  <2>4. LET c == [NoRdCall EXCEPT !.op = op, !.arg = arg, !.at = place]
        IN DOMAIN c = DOMAIN NoRdCall /\ c.at = place
    BY DEF NoRdCall
  <2>5. RdCallsOK' /\ OneMoves(t, place)
    BY <2>2, <2>3, <2>4, SetMoves DEF RdPlaces
  <2> QED
    BY <2>1, <2>2, <2>5, LocksKept, RdStays
<1> QED
  BY <1>1, <1>2

LEMMA RdEnterInv ==
  ASSUME RdInv, NEW t \in RdThreads, lockForRead(t) \/ enterWrite(t)
  PROVE  RdInv'
<1>1. PICK place \in {"reading", "readMain", "writing"} :
        /\ Move(t, place) /\ UNCHANGED <<rdIterators, rdDestroyed>>
        /\ \/ RdAt(t) = "read" /\ CountRead(t) /\ place = "reading"
           \/ RdAt(t) = "read" /\ lockingThread # t /\ TakeReadMutex(t) /\ place = "readMain"
           \/ RdAt(t) = "readMain" /\ TakeMainForRead(t) /\ place = "reading"
           \/ RdAt(t) = "write" /\ lockForWrite(t) /\ place = "writing"
  BY DEF lockForRead, enterWrite, At, RdAt
<1>2. rdDestroyed = "no" /\ RdParts /\ RdCallsOK
  BY <1>1, RdActive
<1>3. place \in RdPlaces
  BY DEF RdPlaces
<1>4. RdCallsOK' /\ OneMoves(t, place)
  <2> DEFINE c == [rdCall[t] EXCEPT !.at = place]
  <2>1. DOMAIN c = DOMAIN NoRdCall /\ c.at = place /\ Set(t, c)
    BY <1>1, <1>2, <1>3, CallsChanged DEF Move
  <2> HIDE DEF c
  <2> QED
    BY <1>2, <1>3, <2>1, SetMoves
<1>5. RdParts'
  BY <1>1, <1>2, <1>4, ReaderComes, WriterComes
<1> QED
  BY <1>1, <1>2, <1>4, <1>5, RdStays

LEMMA RdReadInv ==
  ASSUME RdInv, NEW t \in RdThreads, openIterator(t) \/ readOnce(t) \/ listForRemoval(t)
  PROVE  RdInv'
<1>1. RdAt(t) = "reading" /\ UNCHANGED rdDestroyed
  BY DEF openIterator, readOnce, listForRemoval, At, RdAt
<1>2. rdDestroyed = "no" /\ RdParts /\ RdCallsOK
  BY <1>1, RdActive
<1>3. /\ lockingThread = t
      /\ rdIterators \in Seq(RdThreads) /\ \A k \in DOMAIN rdIterators : rdIterators[k] = t
  BY <1>1, <1>2 DEF RdParts, RdTypeOK, ReadMutexHeld, ReadsCounted
<1>4. PICK place \in {"idle", "write"} : RdCallsOK' /\ OneMoves(t, place)
  <2>1. CASE openIterator(t) \/ readOnce(t)
    <3>1. Set(t, Return_(t, "ErrorNone", {}))
      BY <2>1 DEF openIterator, readOnce
    <3> QED
      BY <1>2, <3>1, CallsEnded, SetMoves DEF RdPlaces
  <2>2. CASE listForRemoval(t)
    <3>1. PICK unlisted, list :
            Set(t, [rdCall[t] EXCEPT !.at = "write", !.unlisted = unlisted, !.since = {}, !.todo = list])
      BY <2>2 DEF listForRemoval
    <3>2. LET c == [rdCall[t] EXCEPT !.at = "write", !.unlisted = unlisted, !.since = {}, !.todo = list]
          IN DOMAIN c = DOMAIN NoRdCall /\ c.at = "write"
      BY <1>2 DEF RdCallsOK, NoRdCall
    <3> QED
      BY <1>2, <3>1, <3>2, SetMoves DEF RdPlaces
  <2> QED
    BY <2>1, <2>2
<1>5. /\ \A u \in RdThreads : RdAt(u)' = RdAt(u) \/ (u = t /\ RdAt(u)' = "idle") \/ (u = t /\ RdAt(u)' = "write")
      /\ RdAt(t)' # "reading"
  BY <1>1, <1>4 DEF OneMoves
<1>6. CASE unlock(t) /\ UNCHANGED rdIterators
  BY <1>1, <1>2, <1>3, <1>4, <1>5, <1>6, ReaderGoes, RdStays
<1>7. CASE openIterator(t) /\ rdIterators' = Append(rdIterators, t) /\ UNCHANGED lockVars
  <2>1. Set(t, Return_(t, "ErrorNone", {}))
    BY <1>7 DEF openIterator
  <2>2. OneMoves(t, "idle")
    BY <1>2, <2>1, CallsEnded, SetMoves DEF RdPlaces
  <2> QED
    BY <1>1, <1>2, <1>4, <1>7, <2>2, ReaderStays, RdStays
<1> QED
  BY <1>6, <1>7 DEF openIterator, readOnce, listForRemoval

(***************************************************************************)
(* One element less in a sequence: the others keep their order.            *)
(***************************************************************************)
LEMMA OneRemoved ==
  ASSUME NEW S, NEW s \in Seq(S), NEW i \in DOMAIN s
  PROVE  /\ RemoveAt(s, i) \in Seq(S) /\ Len(RemoveAt(s, i)) = Len(s) - 1
         /\ \A j \in 1..(Len(s) - 1) : RemoveAt(s, i)[j] = s[IF j < i THEN j ELSE j + 1]
<1>1. Len(s) \in Nat /\ i \in 1..Len(s)
  OBVIOUS
<1> DEFINE front == SubSeq(s, 1, i - 1)
           back == SubSeq(s, i + 1, Len(s))
<1>2. front \in Seq(S) /\ Len(front) = i - 1 /\ \A j \in 1..(i - 1) : front[j] = s[j]
  BY <1>1
<1>3. back \in Seq(S) /\ Len(back) = Len(s) - i /\ \A j \in 1..(Len(s) - i) : back[j] = s[i + j]
  BY <1>1
<1>4. RemoveAt(s, i) = front \o back
  BY DEF RemoveAt
<1> HIDE DEF front, back
<1>5. /\ front \o back \in Seq(S) /\ Len(front \o back) = Len(s) - 1
      /\ \A j \in 1..(Len(s) - 1) : (front \o back)[j] = IF j <= i - 1 THEN front[j] ELSE back[j - (i - 1)]
  <2>1. front \o back \in Seq(S) /\ Len(front \o back) = Len(front) + Len(back)
    BY <1>2, <1>3, ConcatProperties
  <2>2. \A j \in 1..(Len(front) + Len(back)) :
          (front \o back)[j] = IF j <= Len(front) THEN front[j] ELSE back[j - Len(front)]
    BY <1>2, <1>3, ConcatProperties
  <2>3. Len(front) + Len(back) = Len(s) - 1
    BY <1>1, <1>2, <1>3
  <2> QED
    BY <1>2, <2>1, <2>2, <2>3
<1>6. ASSUME NEW j \in 1..(Len(s) - 1)
      PROVE  (front \o back)[j] = s[IF j < i THEN j ELSE j + 1]
  <2>1. CASE j < i
    BY <1>1, <1>2, <1>5, <1>6, <2>1
  <2>2. CASE ~(j < i)
    <3>1. j - (i - 1) \in 1..(Len(s) - i) /\ i + (j - (i - 1)) = j + 1
      BY <1>1, <1>6, <2>2
    <3>2. (front \o back)[j] = back[j - (i - 1)]
      BY <1>1, <1>5, <1>6, <2>2
    <3>3. back[j - (i - 1)] = s[j + 1]
      BY <1>3, <3>1
    <3> QED
      BY <2>2, <3>2, <3>3
  <2> QED
    BY <2>1, <2>2
<1> QED
  BY <1>4, <1>5, <1>6

LEMMA RdCloseInv ==
  ASSUME RdInv, NEW t \in RdThreads, closeIterator_(t)
  PROVE  RdInv'
<1>1. RdAt(t) = "idle" /\ rdDestroyed = "no" /\ OpenOf(t) > 0 /\ unlock(t) /\ UNCHANGED <<rdCall, rdDestroyed>>
  BY DEF closeIterator_, At, RdAt
<1>2. RdParts /\ RdCallsOK
  BY <1>1, RdActive
<1>3. \E k \in DOMAIN rdIterators : rdIterators[k] = t
  <2>1. {k \in DOMAIN rdIterators : rdIterators[k] = t} # {}
    BY <1>1, FS_EmptySet DEF OpenOf
  <2> QED
    BY <2>1
<1>4. PICK k \in DOMAIN rdIterators : rdIterators' = RemoveAt(rdIterators, k)
  BY <1>3 DEF closeIterator_
<1>5. lockingThread = t /\ rdIterators \in Seq(RdThreads) /\ \A j \in DOMAIN rdIterators : rdIterators[j] = t
  BY <1>2, <1>3 DEF RdParts, RdTypeOK, ReadsCounted
<1>6. /\ rdIterators' \in Seq(RdThreads) /\ Len(rdIterators') = Len(rdIterators) - 1
      /\ \A j \in DOMAIN rdIterators' : rdIterators'[j] = t
  <2>1. /\ rdIterators' \in Seq(RdThreads) /\ Len(rdIterators') = Len(rdIterators) - 1
        /\ \A j \in 1..(Len(rdIterators) - 1) : rdIterators'[j] = rdIterators[IF j < k THEN j ELSE j + 1]
    BY <1>4, <1>5, OneRemoved
  <2>2. \A j \in 1..(Len(rdIterators) - 1) : (IF j < k THEN j ELSE j + 1) \in DOMAIN rdIterators
    BY <1>5
  <2> QED
    BY <1>5, <2>1, <2>2
<1>7. RdCallsOK' /\ \A u \in RdThreads : RdAt(u)' = RdAt(u)
  BY <1>1, <1>2 DEF RdCallsOK, RdAt
<1>8. RdParts'
  BY <1>1, <1>2, <1>5, <1>6, <1>7, ReaderGoes
<1> QED
  BY <1>1, <1>7, <1>8, RdStays
-----------------------------------------------------------------------------
(***************************************************************************)
(* Writes: each ends with its thread idle and the lock released, but the   *)
(* removal of what was listed, which keeps it from one to the next.        *)
(***************************************************************************)
LEMMA RdWriteEnds ==
  ASSUME RdInv, NEW t \in RdThreads,
         addStatement(t) \/ removeStatement(t) \/ removeContext(t) \/ listedRemoved(t)
         \/ (removeListed(t) /\ unlock(t) /\ \E rc, signals : Set(t, Return_(t, rc, signals)))
  PROVE  RdInv'
<1>1. RdAt(t) = "writing" /\ unlock(t) /\ UNCHANGED <<rdIterators, rdDestroyed>>
  BY DEF addStatement, removeStatement, removeContext, listedRemoved, removeListed, RemovingListed, At, RdAt
<1>2. rdDestroyed = "no" /\ RdParts /\ RdCallsOK
  BY <1>1, RdActive
<1>3. \E rc, signals : \/ Set(t, Return_(t, rc, signals))
                       \/ \E st : Added(t, st, Return_(t, rc, signals))
  <2>1. CASE addStatement(t)
    BY <2>1 DEF addStatement
  <2>2. CASE removeStatement(t)
    BY <2>2 DEF removeStatement, RemoveOne
  <2>3. CASE removeContext(t)
    BY <2>3 DEF removeContext
  <2>4. CASE listedRemoved(t)
    BY <2>4 DEF listedRemoved
  <2> QED
    BY <2>1, <2>2, <2>3, <2>4
<1>4. RdCallsOK' /\ OneMoves(t, "idle")
  BY <1>2, <1>3, CallsEnded, SetMoves DEF RdPlaces
<1> QED
  BY <1>1, <1>2, <1>4, WriterGoes, RdStays

LEMMA RdListedInv ==
  ASSUME RdInv, NEW t \in RdThreads, removeListed(t)
  PROVE  RdInv'
<1>1. RdAt(t) = "writing" /\ UNCHANGED <<rdIterators, rdDestroyed>>
  BY DEF removeListed, RemovingListed, At, RdAt
<1>2. rdDestroyed = "no" /\ RdParts /\ RdCallsOK
  BY <1>1, RdActive
<1>3. CASE /\ Set(t, [rdCall[t] EXCEPT !.todo = Tail(@), !.done = 1, !.signals = {"statementRemoved"}])
           /\ UNCHANGED lockVars
  <2> DEFINE c == [rdCall[t] EXCEPT !.todo = Tail(@), !.done = 1, !.signals = {"statementRemoved"}]
  <2>1. DOMAIN c = DOMAIN NoRdCall /\ c.at = "writing" /\ Set(t, c)
    BY <1>1, <1>2, <1>3 DEF RdCallsOK, NoRdCall, RdAt
  <2> HIDE DEF c
  <2>2. RdCallsOK' /\ OneMoves(t, "writing")
    BY <1>2, <2>1, SetMoves DEF RdPlaces
  <2>3. \A u \in RdThreads : RdAt(u)' = RdAt(u)
    BY <1>1, <2>2 DEF OneMoves
  <2>4. RdParts'
    BY <1>1, <1>2, <1>3, <2>3
       DEF RdParts, RdTypeOK, MainMutexHeld, ReadMutexHeld, ReadsCounted, lockVars
  <2> QED
    BY <1>1, <1>2, <2>2, <2>4, RdStays
<1>4. CASE unlock(t) /\ \E rc, signals : Set(t, Return_(t, rc, signals))
  BY <1>4, RdWriteEnds
<1> QED
  BY <1>3, <1>4 DEF removeListed, RemoveOne

LEMMA RdDestroyInv ==
  ASSUME RdInv, NEW t \in RdThreads, destroyModel_(t)
  PROVE  RdInv'
<1>1. /\ rdDestroyed' # "no" /\ UNCHANGED rdCall
      /\ \A u \in RdThreads : RdAt(u) = "idle"
  BY DEF destroyModel_, At, RdAt
<1> QED
  BY <1>1 DEF RdInv, RdCallsOK, RdAt

LEMMA RdStepInv == RdInv /\ [RdNext]_rdVars => RdInv'
<1> SUFFICES ASSUME RdInv, [RdNext]_rdVars PROVE RdInv'
  OBVIOUS
<1>1. CASE UNCHANGED rdVars
  <2>1. UNCHANGED <<lockVars, rdIterators, rdCall, rdDestroyed>>
    BY <1>1 DEF rdVars
  <2>2. RdCallsOK' /\ \A u \in RdThreads : RdAt(u)' = RdAt(u)
    BY <2>1 DEF RdInv, RdCallsOK, RdAt
  <2>3. RdParts => RdParts'
    BY <2>1, <2>2 DEF RdParts, RdTypeOK, MainMutexHeld, ReadMutexHeld, ReadsCounted, lockVars
  <2> QED
    BY <2>1, <2>2, <2>3 DEF RdInv, RdParts
<1>2. ASSUME NEW t \in RdThreads, NEW op, NEW arg, begin(t, op, arg) PROVE RdInv'
  BY <1>2, RdOutsideInv
<1>3. ASSUME NEW t \in RdThreads,
             \/ refused(t) \/ createBlankNode(t) \/ lockForRead(t) \/ openIterator(t) \/ readOnce(t) \/ listForRemoval(t)
             \/ closeIterator_(t) \/ enterWrite(t) \/ addStatement(t) \/ removeStatement(t)
             \/ removeContext(t) \/ removeListed(t) \/ listedRemoved(t) \/ destroyModel_(t)
      PROVE  RdInv'
  BY <1>3, RdOutsideInv, RdEnterInv, RdReadInv, RdCloseInv, RdWriteEnds, RdListedInv, RdDestroyInv
<1> QED
  BY <1>1, <1>2, <1>3 DEF RdNext
-----------------------------------------------------------------------------
LEMMA AtMostOne ==
  ASSUME NEW x, NEW S \in SUBSET {x}
  PROVE  Cardinality(S) = (IF S = {} THEN 0 ELSE 1)
<1>1. S = {} \/ S = {x}
  OBVIOUS
<1> QED
  BY <1>1, FS_EmptySet, FS_Singleton

(***************************************************************************)
(* MultiMutex keeps what is below its locks to one thread at a time, to one*)
(* writer or to one reader with its iterators; it is free when nobody is in*)
(* a call and no iterator is open; and while somebody waits, somebody else *)
(* can go on or has an iterator to close.                                  *)
(***************************************************************************)
THEOREM OneThreadBelowLocks == RdInit /\ [][RdNext]_rdVars => [](LockExact /\ SomebodyMoves)
<1>1. RdInv => LockExact
  <2> SUFFICES ASSUME RdInv, rdDestroyed = "no"
               PROVE  /\ Cardinality(Writers) <= 1 /\ Cardinality(Readers) <= 1
                      /\ Writers = {} \/ Readers = {}
                      /\ Readers = {} /\ Writers = {} => mainMutex = [write |-> "none", read |-> FALSE] /\ lockCnt = 0
                      /\ lockCnt = Len(rdIterators) + Cardinality({t \in RdThreads : At(t, "reading")})
    BY DEF LockExact
  <2>1. RdTypeOK /\ MainMutexHeld /\ ReadMutexHeld /\ ReadsCounted
    BY DEF RdInv
  <2>2. Writers \in SUBSET {mainMutex.write}
    BY <2>1 DEF Writers, At, RdAt, MainMutexHeld
  <2>3. Readers \in SUBSET {lockingThread} /\ {t \in RdThreads : At(t, "reading")} \in SUBSET {lockingThread}
    BY <2>1 DEF Readers, At, RdAt, ReadMutexHeld, ReadsCounted
  <2>4. Writers # {} => mainMutex.write # "none"
    BY <2>1, RdThreadsAssumption DEF Writers, At, RdAt, MainMutexHeld
  <2>5. Readers # {} => lockingThread # "none"
    <3>1. Readers \in SUBSET RdThreads
      BY <2>1 DEF Readers, RdTypeOK
    <3> QED
      BY <2>3, <3>1, RdThreadsAssumption
  <2>6. Writers = {} \/ Readers = {}
    BY <2>1, <2>4, <2>5 DEF MainMutexHeld
  <2>7. lockCnt = Len(rdIterators) + Cardinality({t \in RdThreads : At(t, "reading")})
    <3> DEFINE S == {t \in RdThreads : At(t, "reading")}
    <3>1. Cardinality(S) = (IF S = {} THEN 0 ELSE 1)
      BY <2>3, AtMostOne
    <3>2. S = {} <=> ~\E t \in RdThreads : RdAt(t) = "reading"
      BY DEF At, RdAt
    <3> QED
      BY <2>1, <3>1, <3>2 DEF ReadsCounted
  <2>8. ASSUME Readers = {}, Writers = {}
        PROVE  mainMutex = [write |-> "none", read |-> FALSE] /\ lockCnt = 0
    <3>1. mainMutex.write = "none"
      BY <2>1, <2>8 DEF RdTypeOK, MainMutexHeld, Writers, At, RdAt
    <3>2. rdIterators = <<>> /\ {t \in RdThreads : At(t, "reading")} = {}
      BY <2>1, <2>8 DEF RdTypeOK, Readers
    <3>3. lockCnt = 0
      BY <2>7, <3>2, FS_EmptySet
    <3>4. ~mainMutex.read
      BY <2>1, <3>3 DEF ReadsCounted, MainMutexHeld
    <3> QED
      BY <2>1, <3>1, <3>3, <3>4 DEF RdTypeOK
  <2>9. Cardinality(Writers) <= 1 /\ Cardinality(Readers) <= 1
    <3>1. Cardinality(Writers) = (IF Writers = {} THEN 0 ELSE 1)
      BY <2>2, AtMostOne
    <3>2. Cardinality(Readers) = (IF Readers = {} THEN 0 ELSE 1)
      BY <2>3, AtMostOne
    <3> QED
      BY <3>1, <3>2
  <2> QED
    BY <2>6, <2>7, <2>8, <2>9
<1>2. RdInv => SomebodyMoves
  <2> SUFFICES ASSUME RdInv, NEW t \in RdThreads, rdCall[t].at \in {"read", "readMain", "write"},
                      rdIterators = <<>>, Writers = {}, \A u \in RdThreads : RdAt(u) # "reading"
               PROVE  \E u \in RdThreads :
                        \/ RdAt(u) = "read" /\ readMutex = "none"
                        \/ RdAt(u) = "readMain" /\ mainMutex.write = "none"
                        \/ RdAt(u) = "write" /\ mainMutex = [write |-> "none", read |-> FALSE]
    BY DEF SomebodyMoves, At, RdAt
  <2>1. RdTypeOK /\ MainMutexHeld /\ ReadMutexHeld /\ ReadsCounted
    BY RdActive DEF RdAt, RdParts
  <2>2. mainMutex.write = "none"
    BY <2>1 DEF RdTypeOK, MainMutexHeld, Writers, At, RdAt
  <2>3. lockCnt = 0 /\ lockingThread = "none"
    <3>1. Len(rdIterators) = 0 /\ ~\E u \in RdThreads : RdAt(u) = "reading"
      OBVIOUS
    <3>2. lockCnt = 0
      BY <2>1, <3>1 DEF ReadsCounted
    <3> QED
      BY <2>1, <3>2 DEF ReadsCounted
  <2>4. mainMutex = [write |-> "none", read |-> FALSE]
    BY <2>1, <2>2, <2>3 DEF RdTypeOK, MainMutexHeld
  <2>5. readMutex # "none" => \E u \in RdThreads : RdAt(u) = "readMain"
    BY <2>1, <2>3, RdThreadsAssumption DEF RdTypeOK, ReadMutexHeld
  <2> QED
    BY <2>2, <2>4, <2>5 DEF RdAt
<1> QED
  BY <1>1, <1>2, RdInitInv, RdStepInv, PTL
-----------------------------------------------------------------------------
(***************************************************************************)
(* RedlandIterators.  The librdf object stands at the element that the     *)
(* last next() has shown; that of a graph result does until the element is *)
(* read, which moves it one ahead.                                         *)
(***************************************************************************)
RiKinds == {"statements", "nodes", "bindings", "graph", "bool"}

RiTypeOK ==
  /\ riKind \in RiKinds /\ riElements \in Nat /\ riPos \in Nat /\ riYielded \in Nat
  /\ riReads \in 0..2 /\ riNext \in {"none", "true", "false"}

InFront == riPos = 1 /\ riYielded = 0 /\ riNext = "none"

AtShown ==
  /\ riNext = "true" /\ riYielded \in 1..riElements
  /\ riKind # "graph" => riPos = riYielded /\ (riReads > 0 => riValue = riYielded)
  /\ riKind = "graph" => /\ riReads = 0 => riPos = riYielded
                         /\ riReads = 1 => riPos = riYielded + 1 /\ riValue = riYielded

Stands ==
  riOpen /\ (riKind = "graph" => riOnce) =>
    \/ riFirst /\ InFront
    \/ ~riFirst /\ riKind = "bool" /\ riNext = "false" /\ riYielded = 0
    \/ ~riFirst /\ riKind # "bool" /\ AtShown

RiInv ==
  /\ RiTypeOK
  /\ Stands
  /\ riKind # "graph" \/ riOnce => riYielded <= riElements
  /\ riReleased = IF riOpen THEN 0 ELSE 1
  /\ riKind # "bool" /\ riNext = "false" => ~riOpen
-----------------------------------------------------------------------------
LEMMA RiInitInv == RiInit => RiInv
  BY RiMaxElementsAssumption DEF RiInit, RiInv, RiTypeOK, RiKinds, Stands, InFront

LEMMA ForwardNext ==
  ASSUME RiInv, statementsNext \/ nodesNext \/ bindingsNext
  PROVE  RiInv'
<1> DEFINE value == IF AtEnd(NextPos) THEN "false" ELSE "true"
<1>1. riKind \in {"statements", "nodes", "bindings"} /\ riOpen /\ RiReturns(value, NextPos)
  BY DEF statementsNext, nodesNext, bindingsNext
<1>2. /\ riFirst => riPos = 1 /\ riYielded = 0
      /\ ~riFirst => riPos = riYielded /\ riYielded \in 1..riElements
  BY <1>1 DEF RiInv, Stands, InFront, AtShown
<1>3. NextPos = riYielded + 1
  BY <1>2 DEF NextPos, RiInv, RiTypeOK
<1>4. value = (IF riYielded + 1 > riElements THEN "false" ELSE "true")
  BY <1>3 DEF AtEnd
<1> HIDE DEF value
<1>5. RiTypeOK'
  BY <1>1, <1>3, <1>4 DEF RiInv, RiTypeOK, RiReturns, RiClose
<1>6. Stands'
  BY <1>1, <1>3, <1>4 DEF RiInv, RiTypeOK, Stands, InFront, AtShown, RiReturns, RiClose
<1>7. riYielded' <= riElements'
  BY <1>1, <1>4 DEF RiInv, RiTypeOK, RiReturns
<1>8. riReleased' = (IF riOpen' THEN 0 ELSE 1) /\ (riNext' = "false" => ~riOpen')
  BY <1>1, <1>4 DEF RiInv, RiTypeOK, RiReturns, RiClose
<1> QED
  BY <1>5, <1>6, <1>7, <1>8 DEF RiInv

LEMMA GraphNextInv ==
  ASSUME RiInv, graphNext
  PROVE  RiInv'
<1> DEFINE value == IF AtEnd(riPos) THEN "false" ELSE "true"
<1>1. riKind = "graph" /\ riOpen /\ RiReturns(value, riPos)
  BY DEF graphNext
<1>2. value = (IF riPos > riElements THEN "false" ELSE "true")
  BY DEF AtEnd
<1> HIDE DEF value
<1>3. ASSUME riOnce' PROVE riOnce /\ riPos = riYielded + 1
  <2>1. riOnce /\ riReads = IF riNext = "true" THEN 1 ELSE 0
    BY <1>1, <1>3, Zenon DEF RiReturns
  <2> QED
    BY <1>1, <2>1 DEF RiInv, RiTypeOK, Stands, InFront, AtShown
<1>4. RiTypeOK'
  BY <1>1, <1>2 DEF RiInv, RiTypeOK, RiReturns, RiClose
<1>5. Stands'
  BY <1>1, <1>2, <1>3 DEF RiInv, RiTypeOK, Stands, InFront, AtShown, RiReturns, RiClose
<1>6. ASSUME riOnce' PROVE riYielded' <= riElements'
  <2>1. /\ riElements' = riElements
        /\ riYielded' = IF value = "true" THEN riYielded + 1 ELSE riYielded
    BY <1>1 DEF RiReturns
  <2> QED
    BY <1>2, <1>3, <1>6, <2>1 DEF RiInv, RiTypeOK
<1>7. riReleased' = (IF riOpen' THEN 0 ELSE 1) /\ (riNext' = "false" => ~riOpen')
  BY <1>1, <1>2 DEF RiInv, RiTypeOK, RiReturns, RiClose
<1>8. riKind' = "graph"
  BY <1>1 DEF RiReturns
<1> QED
  BY <1>4, <1>5, <1>6, <1>7, <1>8 DEF RiInv

LEMMA OtherNextInv ==
  ASSUME RiInv, boolNext \/ closedNext
  PROVE  RiInv'
<1>1. RiReturns("false", riPos) /\ (~riOpen \/ riKind = "bool")
  BY DEF boolNext, closedNext
<1>2. RiTypeOK'
  BY <1>1 DEF RiInv, RiTypeOK, RiReturns, RiClose
<1>3. Stands'
  BY <1>1 DEF RiInv, RiTypeOK, Stands, InFront, AtShown, RiReturns, RiClose
<1>4. riKind' # "graph" \/ riOnce' => riYielded' <= riElements'
  BY <1>1 DEF RiInv, RiTypeOK, RiReturns
<1>5. riReleased' = (IF riOpen' THEN 0 ELSE 1) /\ (riKind' # "bool" /\ riNext' = "false" => ~riOpen')
  BY <1>1 DEF RiInv, RiTypeOK, RiReturns, RiClose
<1> QED
  BY <1>2, <1>3, <1>4, <1>5 DEF RiInv

LEMMA ReadsInv ==
  ASSUME RiInv, statementsCurrent \/ nodesCurrent \/ binding \/ graphCurrent
  PROVE  RiInv'
<1>1. CASE riKind # "graph"
  <2>1. Reads(Element, riPos)
    BY <1>1 DEF statementsCurrent, nodesCurrent, binding, graphCurrent
  <2>2. RiTypeOK' /\ Stands'
    BY <1>1, <2>1 DEF RiInv, RiTypeOK, Stands, InFront, AtShown, Reads, Element, AtEnd
  <2> QED
    BY <2>1, <2>2 DEF RiInv, Reads
<1>2. CASE riKind = "graph"
  <2> DEFINE v == IF riFirst THEN 0 ELSE Element
  <2>1. Reads(v, IF v = 0 THEN riPos ELSE riPos + 1)
    BY <1>2 DEF graphCurrent, statementsCurrent, nodesCurrent, binding
  <2>2. RiTypeOK'
    BY <2>1 DEF RiInv, RiTypeOK, Reads
  <2>3. Stands'
    BY <1>2, <2>1 DEF RiInv, RiTypeOK, Stands, InFront, AtShown, Reads, Element, AtEnd
  <2> QED
    BY <2>1, <2>2, <2>3 DEF RiInv, Reads
<1> QED
  BY <1>1, <1>2

LEMMA RiStepInv ==
  ASSUME RiInv, [RiNext]_riVars
  PROVE  RiInv'
<1>1. CASE riClose
  BY <1>1 DEF riClose, RiClose, RiInv, RiTypeOK, Stands
<1>2. CASE UNCHANGED riVars
  BY <1>2 DEF riVars, RiInv, RiTypeOK, Stands, InFront, AtShown
<1> QED
  BY <1>1, <1>2, ForwardNext, GraphNextInv, OtherNextInv, ReadsInv DEF RiNext

(***************************************************************************)
(* However many elements there are: the k-th next() of an iterator of the  *)
(* Redland backend shows the k-th of them, and its read lock is released   *)
(* once, at the end or by close().                                         *)
(***************************************************************************)
THEOREM ElementsInTurn == RiInit /\ [][RiNext]_riVars => []EachElementOnce
<1>1. RiInv => EachElementOnce
  BY DEF RiInv, RiTypeOK, Stands, InFront, AtShown, EachElementOnce
<1> QED
  BY RiInitInv, RiStepInv, <1>1, PTL
-----------------------------------------------------------------------------
(***************************************************************************)
(* What removeAllStatements removes: the places of a statement in a list.  *)
(***************************************************************************)
PlacesOf(st, list) == {i \in DOMAIN list : list[i] = st}
CountOf(st, list) == Cardinality(PlacesOf(st, list))

LEMMA PlacesCounted ==
  ASSUME NEW S, NEW list \in Seq(S), NEW st
  PROVE  /\ Len(list) \in Nat /\ DOMAIN list = 1..Len(list)
         /\ IsFiniteSet(PlacesOf(st, list)) /\ CountOf(st, list) \in Nat
<1>1. Len(list) \in Nat /\ DOMAIN list = 1..Len(list)
  OBVIOUS
<1>2. IsFiniteSet(DOMAIN list)
  BY <1>1, FS_Interval
<1>3. PlacesOf(st, list) \in SUBSET DOMAIN list
  BY DEF PlacesOf
<1>4. IsFiniteSet(PlacesOf(st, list))
  BY <1>2, <1>3, FS_Subset
<1> QED
  BY <1>1, <1>4, FS_CardinalityType DEF CountOf

\* An element less is one place less for what it was.
LEMMA TailCounted ==
  ASSUME NEW S, NEW list \in Seq(S), list # <<>>, NEW st
  PROVE  CountOf(st, list) <= CountOf(st, Tail(list)) + (IF list[1] = st THEN 1 ELSE 0)
<1> DEFINE n == Len(list)
           P == PlacesOf(st, list)
           Q == PlacesOf(st, Tail(list))
           f == [i \in P \ {1} |-> i - 1]
<1>1. Tail(list) \in Seq(S) /\ n \in Nat \ {0} /\ DOMAIN list = 1..n /\ DOMAIN Tail(list) = 1..(n - 1)
      /\ \A i \in 1..(n - 1) : Tail(list)[i] = list[i + 1]
  <2>1. list \in Seq(S) /\ list # <<>>
    OBVIOUS
  <2>2. Tail(list) \in Seq(S) /\ Len(Tail(list)) = Len(list) - 1 /\ Len(list) \in Nat \ {0}
        /\ \A i \in 1..Len(Tail(list)) : Tail(list)[i] = list[i + 1]
    BY <2>1, HeadTailProperties
  <2> QED
    BY <2>2
<1>2. IsFiniteSet(P) /\ IsFiniteSet(Q) /\ Cardinality(P) \in Nat /\ Cardinality(Q) \in Nat
  BY <1>1, PlacesCounted DEF CountOf
<1>3. ASSUME NEW i \in P \ {1} PROVE i - 1 \in Q /\ i \in Int
  <2>1. i \in 1..n /\ i # 1 /\ list[i] = st
    BY <1>1 DEF PlacesOf
  <2>2. i - 1 \in 1..(n - 1) /\ (i - 1) + 1 = i
    BY <1>1, <2>1
  <2>3. Tail(list)[i - 1] = st
    BY <1>1, <2>1, <2>2
  <2> QED
    BY <1>1, <2>1, <2>2, <2>3 DEF PlacesOf
<1>4. f \in Injection(P \ {1}, Q)
  <2>1. f \in [P \ {1} -> Q]
    BY <1>3
  <2>2. \A i, j \in P \ {1} : f[i] = f[j] => i = j
    BY <1>3
  <2> QED
    BY <2>1, <2>2 DEF Injection, IsInjective
<1> HIDE DEF f, P, Q
<1>5. Cardinality(P \ {1}) <= Cardinality(Q)
  BY <1>2, <1>4, FS_Injection
<1>6. Cardinality(P \ {1}) = IF 1 \in P THEN Cardinality(P) - 1 ELSE Cardinality(P)
  BY <1>2, FS_RemoveElement
<1>7. 1 \in P => list[1] = st
  BY DEF P, PlacesOf
<1>8. Cardinality(P) <= Cardinality(Q) + (IF list[1] = st THEN 1 ELSE 0)
  BY <1>2, <1>5, <1>6, <1>7
<1> QED
  BY <1>8 DEF P, Q, CountOf

\* SetToSeq has every element.
LEMMA SetsAreListed ==
  ASSUME NEW S, IsFiniteSet(S)
  PROVE  /\ Cardinality(S) \in Nat /\ SetToSeq(S) \in [1..Cardinality(S) -> S]
         /\ \A x \in S : \E i \in 1..Cardinality(S) : SetToSeq(S)[i] = x
<1> DEFINE n == Cardinality(S)
           s == SetToSeq(S)
<1>1. n \in Nat /\ ExistsBijection(1..n, S)
  BY FS_CardinalityType
<1>2. \E f \in [1..n -> S] : \A a, b \in DOMAIN f : f[a] = f[b] => a = b
  BY <1>1 DEF ExistsBijection, Bijection, Injection, IsInjective
<1>3. s \in [1..n -> S] /\ \A a, b \in DOMAIN s : s[a] = s[b] => a = b
  BY <1>2 DEF SetToSeq, IsInjective
<1>4. s \in Injection(1..n, S)
  BY <1>3 DEF Injection, IsInjective
<1>5. Cardinality(1..n) = n
  BY <1>1, FS_Interval
<1> HIDE DEF s
<1>6. s \in Surjection(1..n, S)
  BY <1>4, <1>5, FS_Injection
<1> QED
  BY <1>1, <1>3, <1>6 DEF Surjection, s

RdContentOK == rdContent \in [RdStatements -> 0..MaxCopies]

\* The list has a place for every copy.
LEMMA CopiesListed ==
  ASSUME RdContentOK, NEW tm
  PROVE  /\ Listed(tm) \in Seq(RdStatements)
         /\ \A st \in RdStatements : StatementMatches(st, tm) => rdContent[st] <= CountOf(st, Listed(tm))
<1> DEFINE C == Copies(tm)
           n == Cardinality(C)
           s == SetToSeq(C)
           list == Listed(tm)
<1>1. \A x : x \in C <=> \E st \in RdStatements : StatementMatches(st, tm) /\ x \in {st} \X (1..rdContent[st])
  BY DEF Copies
<1>2. C \in SUBSET (RdStatements \X (1..MaxCopies))
  <2>1. ASSUME NEW st \in RdStatements PROVE {st} \X (1..rdContent[st]) \in SUBSET (RdStatements \X (1..MaxCopies))
    BY RdStatementsAssumption DEF RdContentOK
  <2> HIDE DEF C
  <2> QED
    BY <1>1, <2>1
<1>3. IsFiniteSet(C)
  <2>1. IsFiniteSet(RdStatements \X (1..MaxCopies))
    <3>1. IsFiniteSet(RdStatements) /\ MaxCopies \in Int /\ 1 \in Int
      BY RdStatementsAssumption
    <3>2. IsFiniteSet(1..MaxCopies)
      BY <3>1, FS_Interval
    <3> QED
      BY <3>1, <3>2, FS_Product
  <2> HIDE DEF C
  <2> QED
    BY <1>2, <2>1, FS_Subset
<1> HIDE DEF C
<1>4. n \in Nat /\ s \in [1..n -> C] /\ \A x \in C : \E i \in 1..n : s[i] = x
  BY <1>3, SetsAreListed
<1>5. list = [i \in 1..n |-> s[i][1]]
  BY <1>4 DEF Listed, C
<1> HIDE DEF list, s, n
<1>6. list \in Seq(RdStatements) /\ DOMAIN list = 1..n
  <2>1. \A i \in 1..n : s[i][1] \in RdStatements
    BY <1>2, <1>4
  <2> QED
    BY <1>4, <1>5, <2>1
<1>7. ASSUME NEW st \in RdStatements, StatementMatches(st, tm) PROVE rdContent[st] <= CountOf(st, list)
  <2> DEFINE P == PlacesOf(st, list)
             c == rdContent[st]
             place(k) == CHOOSE i \in 1..n : s[i] = <<st, k>>
             f == [k \in 1..c |-> place(k)]
  <2>1. c \in Nat
    BY RdStatementsAssumption DEF RdContentOK
  <2>2. IsFiniteSet(P)
    BY <1>6, PlacesCounted
  <2>3. ASSUME NEW k \in 1..c PROVE place(k) \in 1..n /\ s[place(k)] = <<st, k>>
    <3>1. <<st, k>> \in C
      BY <1>1, <1>7
    <3> QED
      BY <1>4, <3>1
  <2> HIDE DEF place
  <2>4. \A k \in 1..c : place(k) \in P
    BY <1>5, <1>6, <2>3 DEF PlacesOf
  <2>5. \A j, k \in 1..c : place(j) = place(k) => j = k
    <3> TAKE j, k \in 1..c
    <3> HAVE place(j) = place(k)
    <3>1. <<st, j>> = <<st, k>>
      BY <2>3
    <3> QED
      BY <3>1
  <2> HIDE DEF P, c
  <2>6. f \in Injection(1..c, P)
    <3>1. f \in [1..c -> P]
      BY <2>4
    <3>2. \A j, k \in 1..c : f[j] = f[k] => j = k
      BY <2>5
    <3> QED
      BY <3>1, <3>2 DEF Injection, IsInjective
  <2> HIDE DEF f
  <2>7. Cardinality(1..c) <= Cardinality(P)
    BY <2>2, <2>6, FS_Injection
  <2>8. Cardinality(1..c) = c
    BY <2>1, FS_Interval
  <2> QED
    BY <2>7, <2>8 DEF c, P, CountOf
<1> QED
  BY <1>6, <1>7 DEF list
-----------------------------------------------------------------------------
(***************************************************************************)
(* Strengthening: from its list on, a removal that could list knows of     *)
(* every copy that is left, but for those another thread has added since.  *)
(***************************************************************************)
RemovesListed(call) == call.op = "removeAll" /\ ~ContextOnly(call.arg) /\ Partial(call.arg)

KnowsCopies(t) ==
  RemovesListed(rdCall[t]) /\ ~rdCall[t].unlisted /\ RdAt(t) \in {"write", "writing"} =>
    \A st \in RdStatements :
      StatementMatches(st, rdCall[t].arg) => st \in rdCall[t].since \/ rdContent[st] <= CountOf(st, rdCall[t].todo)

RdListsOK ==
  /\ RdCallsOK /\ RdContentOK
  /\ \A t \in RdThreads : rdCall[t].todo \in Seq(RdStatements) /\ KnowsCopies(t)

LEMMA RdListsStart == RdInit => RdListsOK
<1> SUFFICES ASSUME RdInit PROVE RdListsOK
  OBVIOUS
<1>1. rdCall = [t \in RdThreads |-> NoRdCall]
  BY DEF RdInit
<1>2. NoRdCall.todo = <<>> /\ NoRdCall.at = "idle"
  BY DEF NoRdCall
<1>3. \A t \in RdThreads : rdCall[t].todo \in Seq(RdStatements) /\ rdCall[t].at = "idle"
  <2>1. <<>> \in Seq(RdStatements)
    OBVIOUS
  <2>2. \A t \in RdThreads : rdCall[t] = NoRdCall
    BY <1>1
  <2> QED
    BY <1>2, <2>1, <2>2
<1>4. RdCallsOK
  BY <1>1, <1>2 DEF RdCallsOK, RdAt, RdPlaces
<1>5. RdContentOK
  BY RdStatementsAssumption DEF RdInit, RdContentOK
<1> QED
  BY <1>3, <1>4, <1>5 DEF RdListsOK, KnowsCopies, RdAt

\* A thread that keeps its call knows as much when copies only go.
LEMMA CallKept ==
  ASSUME NEW t \in RdThreads, KnowsCopies(t), rdCall'[t] = rdCall[t], RdContentOK, RdContentOK',
         \A st \in RdStatements : rdContent'[st] <= rdContent[st], rdCall[t].todo \in Seq(RdStatements)
  PROVE  KnowsCopies(t)'
<1>1. \A st : CountOf(st, rdCall[t].todo) \in Nat
  BY PlacesCounted
<1>2. \A st \in RdStatements : rdContent[st] \in Nat /\ rdContent'[st] \in Nat
  BY RdStatementsAssumption DEF RdContentOK
<1> HIDE DEF CountOf
<1>3. \A st \in RdStatements : rdContent[st] <= CountOf(st, rdCall[t].todo) => rdContent'[st] <= CountOf(st, rdCall[t].todo)
  BY <1>1, <1>2
<1> QED
  BY <1>3 DEF KnowsCopies, RdAt

\* A step of one call, which leaves the others alone and adds no copy.
LEMMA OneCallSteps ==
  ASSUME RdListsOK, NEW t \in RdThreads, NEW c, rdCall' = [rdCall EXCEPT ![t] = c],
         DOMAIN c = DOMAIN NoRdCall, c.at \in RdPlaces, c.todo \in Seq(RdStatements), RdContentOK',
         \A st \in RdStatements : rdContent'[st] <= rdContent[st],
         RemovesListed(c) /\ c.at \in {"write", "writing"} => KnowsCopies(t)'
  PROVE  RdListsOK'
<1>1. rdCall = [u \in RdThreads |-> rdCall[u]] /\ DOMAIN rdCall = RdThreads /\ RdContentOK
  BY DEF RdListsOK, RdCallsOK
<1>2. rdCall' = [u \in RdThreads |-> IF u = t THEN c ELSE rdCall[u]]
  BY <1>1
<1>3. rdCall'[t] = c /\ \A u \in RdThreads : u # t => rdCall'[u] = rdCall[u]
  BY <1>2
<1>4. RdCallsOK'
  <2>1. \A u \in RdThreads : DOMAIN rdCall[u] = DOMAIN NoRdCall /\ rdCall[u].at \in RdPlaces
    BY DEF RdListsOK, RdCallsOK, RdAt
  <2>2. \A u \in RdThreads : DOMAIN rdCall'[u] = DOMAIN NoRdCall /\ rdCall'[u].at \in RdPlaces
    BY <1>3, <2>1
  <2>3. DOMAIN rdCall' = RdThreads /\ rdCall' = [u \in RdThreads |-> rdCall'[u]]
    BY <1>2
  <2> QED
    BY <2>2, <2>3 DEF RdCallsOK, RdAt
<1>5. \A u \in RdThreads : rdCall'[u].todo \in Seq(RdStatements)
  BY <1>3 DEF RdListsOK
<1>6. ASSUME NEW u \in RdThreads, u # t PROVE KnowsCopies(u)'
  <2>1. KnowsCopies(u) /\ rdCall[u].todo \in Seq(RdStatements) /\ rdCall'[u] = rdCall[u]
    BY <1>3, <1>6 DEF RdListsOK
  <2> QED
    BY <1>1, <2>1, CallKept
<1>7. KnowsCopies(t)'
  BY <1>3 DEF KnowsCopies, RdAt
<1> QED
  BY <1>4, <1>5, <1>6, <1>7 DEF RdListsOK

\* Copies go, one at a time or all of a context.
LEMMA CopiesGo ==
  ASSUME RdContentOK, NEW st, rdContent[st] > 0, rdContent' = [rdContent EXCEPT ![st] = @ - 1]
  PROVE  RdContentOK' /\ \A x \in RdStatements : rdContent'[x] <= rdContent[x] /\ (x = st => rdContent'[x] = rdContent[x] - 1)
<1>1. \A x \in RdStatements : rdContent[x] \in 0..MaxCopies
  BY DEF RdContentOK
<1>2. rdContent' = [x \in RdStatements |-> IF x = st THEN rdContent[x] - 1 ELSE rdContent[x]]
  BY DEF RdContentOK
<1>3. \A x \in RdStatements : rdContent'[x] \in 0..MaxCopies /\ rdContent'[x] <= rdContent[x] /\ (x = st => rdContent'[x] = rdContent[x] - 1)
  BY <1>1, <1>2, RdStatementsAssumption
<1> QED
  BY <1>2, <1>3 DEF RdContentOK

LEMMA NoneGo ==
  ASSUME RdContentOK, UNCHANGED rdContent
  PROVE  RdContentOK' /\ \A x \in RdStatements : rdContent'[x] <= rdContent[x]
BY RdStatementsAssumption DEF RdContentOK

\* A call that ends or does not remove what it has listed
LEMMA OtherCallSteps ==
  ASSUME RdListsOK, NEW t \in RdThreads, NEW c, Set(t, c), DOMAIN c = DOMAIN NoRdCall, c.at \in RdPlaces,
         c.todo \in Seq(RdStatements), RdContentOK', \A st \in RdStatements : rdContent'[st] <= rdContent[st],
         ~RemovesListed(c) \/ c.at \notin {"write", "writing"}
  PROVE  RdListsOK'
<1>1. rdCall' = [rdCall EXCEPT ![t] = c]
  BY DEF Set
<1> QED
  BY <1>1, OneCallSteps

LEMMA CallReturns ==
  ASSUME RdListsOK, NEW t \in RdThreads, NEW rc, NEW signals, Set(t, Return_(t, rc, signals)),
         RdContentOK', \A st \in RdStatements : rdContent'[st] <= rdContent[st]
  PROVE  RdListsOK'
<1> DEFINE c == Return_(t, rc, signals)
<1>1. DOMAIN c = DOMAIN NoRdCall /\ c.at = "idle"
  BY CallsEnded DEF RdListsOK
<1>2. c.todo = <<>>
  BY DEF Return_, RdListsOK, RdCallsOK, NoRdCall
<1> HIDE DEF c
<1>3. Set(t, c) /\ c.todo \in Seq(RdStatements) /\ c.at \in RdPlaces /\ c.at \notin {"write", "writing"}
  BY <1>1, <1>2 DEF c, RdPlaces
<1> QED
  BY <1>1, <1>3, OtherCallSteps

LEMMA BeginsKnow ==
  ASSUME RdListsOK, NEW t \in RdThreads, NEW op, NEW arg, begin(t, op, arg)
  PROVE  RdListsOK'
<1> DEFINE place == CASE op = "add" /\ ~StatementValid(arg) -> "refused"
                      [] op = "blank" -> "unlocked"
                      [] op \in {"list", "count"} \/ (op = "removeAll" /\ ~ContextOnly(arg) /\ Partial(arg)) -> "read"
                      [] OTHER -> "write"
           c == [NoRdCall EXCEPT !.op = op, !.arg = arg, !.at = place]
<1>1. Set(t, c) /\ UNCHANGED rdContent
  BY DEF begin
<1>2. place \in {"refused", "unlocked", "read", "write"} /\ (op = "removeAll" /\ ~ContextOnly(arg) /\ Partial(arg) => place = "read")
  OBVIOUS
<1> HIDE DEF place
<1>3. DOMAIN c = DOMAIN NoRdCall /\ c.op = op /\ c.arg = arg /\ c.at = place /\ c.todo = <<>>
  BY DEF NoRdCall
<1> HIDE DEF c
<1>4. c.todo \in Seq(RdStatements)
  BY <1>3
<1>5. ~RemovesListed(c) \/ c.at \notin {"write", "writing"}
  BY <1>2, <1>3 DEF RemovesListed
<1>6. RdContentOK' /\ \A st \in RdStatements : rdContent'[st] <= rdContent[st]
  BY <1>1, NoneGo DEF RdListsOK
<1>7. c.at \in RdPlaces
  BY <1>2, <1>3 DEF RdPlaces
<1> QED
  BY <1>1, <1>3, <1>4, <1>5, <1>6, <1>7, OtherCallSteps

\* What a call is when it goes to another place
LEMMA MovedCall ==
  ASSUME RdListsOK, NEW t \in RdThreads, NEW place \in RdPlaces, Move(t, place)
  PROVE  LET c == [rdCall[t] EXCEPT !.at = place]
         IN /\ rdCall' = [rdCall EXCEPT ![t] = c] /\ DOMAIN c = DOMAIN NoRdCall /\ c.at = place
            /\ c.todo \in Seq(RdStatements) /\ c.todo = rdCall[t].todo /\ c.op = rdCall[t].op
            /\ c.arg = rdCall[t].arg /\ c.since = rdCall[t].since /\ c.unlisted = rdCall[t].unlisted
<1>1. rdCall[t].todo \in Seq(RdStatements) /\ DOMAIN rdCall[t] = DOMAIN NoRdCall
  BY DEF RdListsOK, RdCallsOK
<1>2. LET c == [rdCall[t] EXCEPT !.at = place]
      IN DOMAIN c = DOMAIN NoRdCall /\ c.at = place /\ c.todo = rdCall[t].todo /\ c.op = rdCall[t].op
         /\ c.arg = rdCall[t].arg /\ c.since = rdCall[t].since /\ c.unlisted = rdCall[t].unlisted
  BY <1>1 DEF NoRdCall
<1> QED
  BY <1>1, <1>2 DEF Move, Set

LEMMA ReadersKnow ==
  ASSUME RdListsOK, NEW t \in RdThreads, lockForRead(t)
  PROVE  RdListsOK'
<1>1. PICK place \in {"readMain", "reading"} : Move(t, place)
  BY DEF lockForRead
<1> DEFINE c == [rdCall[t] EXCEPT !.at = place]
<1>2. place \in RdPlaces
  BY DEF RdPlaces
<1>3. rdCall' = [rdCall EXCEPT ![t] = c] /\ DOMAIN c = DOMAIN NoRdCall /\ c.at = place /\ c.todo \in Seq(RdStatements)
  BY <1>1, <1>2, MovedCall
<1>4. RdContentOK' /\ \A st \in RdStatements : rdContent'[st] <= rdContent[st]
  BY NoneGo DEF RdListsOK, lockForRead
<1> HIDE DEF c
<1>5. c.at \notin {"write", "writing"}
  BY <1>3
<1> QED
  BY <1>2, <1>3, <1>4, <1>5, OneCallSteps

LEMMA WritersKnow ==
  ASSUME RdListsOK, NEW t \in RdThreads, enterWrite(t)
  PROVE  RdListsOK'
<1> DEFINE c == [rdCall[t] EXCEPT !.at = "writing"]
<1>1. "writing" \in RdPlaces /\ Move(t, "writing") /\ RdAt(t) = "write" /\ UNCHANGED rdContent
  BY DEF RdPlaces, enterWrite, At, RdAt
<1>2. /\ rdCall' = [rdCall EXCEPT ![t] = c] /\ DOMAIN c = DOMAIN NoRdCall /\ c.at = "writing"
      /\ c.todo \in Seq(RdStatements) /\ c.todo = rdCall[t].todo /\ c.op = rdCall[t].op
      /\ c.arg = rdCall[t].arg /\ c.since = rdCall[t].since /\ c.unlisted = rdCall[t].unlisted
  BY <1>1, MovedCall
<1>3. RdContentOK' /\ \A st \in RdStatements : rdContent'[st] <= rdContent[st]
  BY <1>1, NoneGo DEF RdListsOK
<1> HIDE DEF c
<1>4. rdCall'[t] = c
  BY <1>2 DEF RdListsOK, RdCallsOK
<1>5. KnowsCopies(t)
  BY DEF RdListsOK
<1>6. KnowsCopies(t)'
  BY <1>1, <1>2, <1>4, <1>5 DEF KnowsCopies, RemovesListed, RdAt
<1> QED
  BY <1>1, <1>2, <1>3, <1>6, OneCallSteps

LEMMA ListsKnow ==
  ASSUME RdListsOK, NEW t \in RdThreads, listForRemoval(t)
  PROVE  RdListsOK'
<1>1. PICK unlisted \in BOOLEAN :
        Set(t, [rdCall[t] EXCEPT !.at = "write", !.unlisted = unlisted, !.since = {},
                                 !.todo = IF unlisted THEN <<>> ELSE Listed(rdCall[t].arg)])
  BY DEF listForRemoval
<1> DEFINE list == IF unlisted THEN <<>> ELSE Listed(rdCall[t].arg)
           c == [rdCall[t] EXCEPT !.at = "write", !.unlisted = unlisted, !.since = {}, !.todo = list]
<1>2. DOMAIN c = DOMAIN NoRdCall /\ c.at = "write" /\ c.todo = list /\ c.unlisted = unlisted /\ c.arg = rdCall[t].arg
  BY DEF RdListsOK, RdCallsOK, NoRdCall
<1>3. rdCall' = [rdCall EXCEPT ![t] = c]
  BY <1>1 DEF Set
<1>4. UNCHANGED rdContent
  BY DEF listForRemoval
<1> HIDE DEF c
<1>5. rdCall'[t] = c
  BY <1>3 DEF RdListsOK, RdCallsOK
<1>6. RdContentOK' /\ \A st \in RdStatements : rdContent'[st] <= rdContent[st]
  BY <1>4, NoneGo DEF RdListsOK
<1>7. /\ Listed(rdCall[t].arg) \in Seq(RdStatements)
      /\ \A st \in RdStatements : StatementMatches(st, rdCall[t].arg) => rdContent[st] <= CountOf(st, Listed(rdCall[t].arg))
  BY CopiesListed DEF RdListsOK
<1>8. list \in Seq(RdStatements)
  <2>1. <<>> \in Seq(RdStatements)
    OBVIOUS
  <2> QED
    BY <1>7, <2>1
<1>9. KnowsCopies(t)'
  <2>1. CASE unlisted
    BY <1>2, <1>5, <2>1 DEF KnowsCopies
  <2>2. CASE ~unlisted
    <3>1. list = Listed(rdCall[t].arg)
      BY <2>2
    <3>2. \A st \in RdStatements : StatementMatches(st, c.arg) => rdContent'[st] <= CountOf(st, c.todo)
      BY <1>2, <1>4, <1>7, <3>1
    <3> QED
      BY <1>5, <3>2 DEF KnowsCopies
  <2> QED
    BY <2>1, <2>2
<1>10. c.at \in RdPlaces
  BY <1>2 DEF RdPlaces
<1> QED
  BY <1>2, <1>3, <1>6, <1>8, <1>9, <1>10, OneCallSteps

\* One copy goes, and one place of the list.
LEMMA RemovalsKnow ==
  ASSUME RdListsOK, NEW t \in RdThreads, removeListed(t)
  PROVE  RdListsOK'
<1> DEFINE list == rdCall[t].todo
           c == [rdCall[t] EXCEPT !.todo = Tail(@), !.done = 1, !.signals = {"statementRemoved"}]
<1>1. list \in Seq(RdStatements) /\ list # <<>> /\ RdAt(t) = "writing" /\ RdContentOK
  BY DEF RdListsOK, removeListed, RemovingListed, At, RdAt
<1>2. CASE Set(t, c) /\ rdContent[list[1]] > 0 /\ rdContent' = [rdContent EXCEPT ![list[1]] = @ - 1]
  <2>1. RdContentOK' /\ \A x \in RdStatements : rdContent'[x] <= rdContent[x] /\ (x = list[1] => rdContent'[x] = rdContent[x] - 1)
    BY <1>1, <1>2, CopiesGo
  <2>2. c.todo = Tail(list) /\ DOMAIN c = DOMAIN NoRdCall /\ c.at = "writing" /\ c.arg = rdCall[t].arg
        /\ c.since = rdCall[t].since /\ c.unlisted = rdCall[t].unlisted /\ c.op = rdCall[t].op
    BY <1>1 DEF RdListsOK, RdCallsOK, NoRdCall, RdAt
  <2>3. rdCall' = [rdCall EXCEPT ![t] = c]
    BY <1>2 DEF Set
  <2> HIDE DEF c
  <2>4. rdCall'[t] = c
    BY <2>3 DEF RdListsOK, RdCallsOK
  <2>5. Tail(list) \in Seq(RdStatements)
    BY <1>1
  <2>6. KnowsCopies(t)
    BY DEF RdListsOK
  <2> HIDE DEF list
  <2>7. ASSUME NEW st \in RdStatements, rdContent[st] <= CountOf(st, list) PROVE rdContent'[st] <= CountOf(st, Tail(list))
    <3>1. CountOf(st, list) <= CountOf(st, Tail(list)) + (IF list[1] = st THEN 1 ELSE 0)
      BY <1>1, TailCounted
    <3>2. CountOf(st, list) \in Nat /\ CountOf(st, Tail(list)) \in Nat
      BY <1>1, <2>5, PlacesCounted
    <3>3. rdContent[st] \in Nat /\ rdContent'[st] \in Nat
      BY <1>1, <2>1, RdStatementsAssumption DEF RdContentOK
    <3>4. rdContent'[st] <= rdContent[st] /\ (st = list[1] => rdContent'[st] = rdContent[st] - 1)
      BY <2>1
    <3> QED
      BY <2>7, <3>1, <3>2, <3>3, <3>4
  <2>8. KnowsCopies(t)'
    <3>1. RemovesListed(c) <=> RemovesListed(rdCall[t])
      BY <2>2 DEF RemovesListed
    <3> QED
      BY <1>1, <2>2, <2>4, <2>6, <2>7, <3>1 DEF KnowsCopies, RdAt, list
  <2>9. c.at \in RdPlaces
    BY <2>2 DEF RdPlaces
  <2> QED
    BY <2>1, <2>2, <2>3, <2>5, <2>8, <2>9, OneCallSteps
<1>3. CASE Set(t, c) /\ rdContent[list[1]] = 0 /\ UNCHANGED rdContent
  <2>1. RdContentOK' /\ \A x \in RdStatements : rdContent'[x] <= rdContent[x]
    BY <1>1, <1>3, NoneGo
  <2>2. c.todo = Tail(list) /\ DOMAIN c = DOMAIN NoRdCall /\ c.at = "writing" /\ c.arg = rdCall[t].arg
        /\ c.since = rdCall[t].since /\ c.unlisted = rdCall[t].unlisted /\ c.op = rdCall[t].op
    BY <1>1 DEF RdListsOK, RdCallsOK, NoRdCall, RdAt
  <2>3. rdCall' = [rdCall EXCEPT ![t] = c]
    BY <1>3 DEF Set
  <2> HIDE DEF c
  <2>4. rdCall'[t] = c
    BY <2>3 DEF RdListsOK, RdCallsOK
  <2>5. Tail(list) \in Seq(RdStatements)
    BY <1>1
  <2>6. KnowsCopies(t)
    BY DEF RdListsOK
  <2>7. ASSUME NEW st \in RdStatements, rdContent[st] <= CountOf(st, list) PROVE rdContent'[st] <= CountOf(st, Tail(list))
    <3> DEFINE rest == Tail(list)
    <3>1. CountOf(st, list) <= CountOf(st, rest) + (IF list[1] = st THEN 1 ELSE 0)
      BY <1>1, TailCounted
    <3>2. CountOf(st, list) \in Nat /\ CountOf(st, rest) \in Nat
      BY <1>1, <2>5, PlacesCounted
    <3>3. rdContent[st] \in Nat /\ rdContent'[st] = rdContent[st]
      BY <1>1, <1>3, RdStatementsAssumption DEF RdContentOK
    <3>4. list[1] = st => rdContent[st] = 0
      BY <1>3
    <3> HIDE DEF rest, list
    <3> QED
      BY <2>7, <3>1, <3>2, <3>3, <3>4 DEF rest
  <2>8. KnowsCopies(t)'
    <3>1. RemovesListed(c) <=> RemovesListed(rdCall[t])
      BY <2>2 DEF RemovesListed
    <3> QED
      BY <1>1, <2>2, <2>4, <2>6, <2>7, <3>1 DEF KnowsCopies, RdAt
  <2>9. c.at \in RdPlaces
    BY <2>2 DEF RdPlaces
  <2> QED
    BY <2>1, <2>2, <2>3, <2>5, <2>8, <2>9, OneCallSteps
<1>4. CASE Set(t, Return_(t, "ErrorUnknown", {})) /\ UNCHANGED rdContent
  <2>1. RdContentOK' /\ \A x \in RdStatements : rdContent'[x] <= rdContent[x]
    BY <1>1, <1>4, NoneGo
  <2> QED
    BY <1>4, <2>1, CallReturns
<1> QED
  BY <1>2, <1>3, <1>4 DEF removeListed, RemoveOne

\* The others note what is added.
LEMMA AdditionsKnow ==
  ASSUME RdListsOK, NEW t \in RdThreads, addStatement(t)
  PROVE  RdListsOK'
<1> DEFINE st == rdCall[t].arg
           c == Return_(t, "ErrorNone", {"statementAdded", "statementsAdded"})
<1>1. RdContentOK
  BY DEF RdListsOK
<1>2. CASE UNCHANGED rdContent /\ Set(t, Return_(t, "ErrorUnknown", {}))
  <2>1. RdContentOK' /\ \A x \in RdStatements : rdContent'[x] <= rdContent[x]
    BY <1>1, <1>2, NoneGo
  <2> QED
    BY <1>2, <2>1, CallReturns
<1>3. CASE /\ AddedCount(st) <= MaxCopies
           /\ rdContent' = [rdContent EXCEPT ![st] = AddedCount(st)]
           /\ Added(t, st, c)
  <2>1. DOMAIN c = DOMAIN NoRdCall /\ c.at = "idle" /\ c.todo = <<>>
    <3>1. DOMAIN c = DOMAIN NoRdCall /\ c.at = "idle"
      BY CallsEnded DEF RdListsOK
    <3>2. c.todo = <<>>
      BY DEF Return_, RdListsOK, RdCallsOK, NoRdCall
    <3> QED
      BY <3>1, <3>2
  <2>2. rdCall' = [u \in RdThreads |-> IF u = t THEN c ELSE [rdCall[u] EXCEPT !.since = @ \cup {st}]]
    BY <1>3 DEF Added
  <2> HIDE DEF c
  <2>3. rdCall'[t] = c
    BY <2>2
  <2>4. ASSUME NEW u \in RdThreads, u # t
        PROVE  /\ DOMAIN rdCall'[u] = DOMAIN NoRdCall /\ rdCall'[u].at = rdCall[u].at /\ rdCall'[u].todo = rdCall[u].todo
               /\ rdCall'[u].op = rdCall[u].op /\ rdCall'[u].arg = rdCall[u].arg
               /\ rdCall'[u].since = rdCall[u].since \cup {st} /\ rdCall'[u].unlisted = rdCall[u].unlisted
    <3>1. rdCall'[u] = [rdCall[u] EXCEPT !.since = @ \cup {st}]
      BY <2>2, <2>4
    <3>2. DOMAIN rdCall[u] = DOMAIN NoRdCall
      BY DEF RdListsOK, RdCallsOK
    <3> QED
      BY <3>1, <3>2 DEF NoRdCall
  <2>5. RdCallsOK'
    <3>1. \A u \in RdThreads : DOMAIN rdCall[u] = DOMAIN NoRdCall /\ rdCall[u].at \in RdPlaces
      BY DEF RdListsOK, RdCallsOK, RdAt
    <3>2. \A u \in RdThreads : DOMAIN rdCall'[u] = DOMAIN NoRdCall /\ rdCall'[u].at \in RdPlaces
      BY <2>1, <2>3, <2>4, <3>1 DEF RdPlaces
    <3>3. DOMAIN rdCall' = RdThreads /\ rdCall' = [u \in RdThreads |-> rdCall'[u]]
      BY <2>2
    <3> QED
      BY <3>2, <3>3 DEF RdCallsOK, RdAt
  <2>6. \A x \in RdStatements : rdContent'[x] = IF x = st THEN AddedCount(st) ELSE rdContent[x]
    BY <1>1, <1>3 DEF RdContentOK
  <2>7. RdContentOK'
    <3>1. st \in RdStatements => AddedCount(st) \in 0..MaxCopies
      BY <1>1, <1>3, RdStatementsAssumption DEF RdContentOK, AddedCount
    <3>2. \A x \in RdStatements : rdContent[x] \in 0..MaxCopies
      BY <1>1 DEF RdContentOK
    <3>3. \A x \in RdStatements : rdContent'[x] \in 0..MaxCopies
      BY <2>6, <3>1, <3>2
    <3>4. rdContent' = [x \in RdStatements |-> rdContent'[x]]
      BY <1>1, <1>3 DEF RdContentOK
    <3> QED
      BY <3>3, <3>4 DEF RdContentOK
  <2>8. \A u \in RdThreads : rdCall'[u].todo \in Seq(RdStatements)
    <3>1. <<>> \in Seq(RdStatements)
      OBVIOUS
    <3>2. \A u \in RdThreads : rdCall[u].todo \in Seq(RdStatements)
      BY DEF RdListsOK
    <3> QED
      BY <2>1, <2>3, <2>4, <3>1, <3>2
  <2>9. ASSUME NEW u \in RdThreads, u # t PROVE KnowsCopies(u)'
    <3>1. KnowsCopies(u)
      BY DEF RdListsOK
    <3>2. RemovesListed(rdCall'[u]) <=> RemovesListed(rdCall[u])
      BY <2>4, <2>9 DEF RemovesListed
    <3> HIDE DEF st
    <3> QED
      BY <2>4, <2>6, <2>9, <3>1, <3>2 DEF KnowsCopies, RdAt
  <2>10. KnowsCopies(t)'
    BY <2>1, <2>3 DEF KnowsCopies, RdAt
  <2> QED
    BY <2>5, <2>7, <2>8, <2>9, <2>10 DEF RdListsOK
<1> QED
  BY <1>2, <1>3 DEF addStatement

LEMMA EndsKnow ==
  ASSUME RdListsOK, NEW t \in RdThreads,
         \/ refused(t) \/ createBlankNode(t) \/ openIterator(t) \/ readOnce(t)
         \/ removeStatement(t) \/ removeContext(t) \/ listedRemoved(t)
  PROVE  RdListsOK'
<1>1. RdContentOK
  BY DEF RdListsOK
<1>2. \E rc, signals : Set(t, Return_(t, rc, signals))
  BY DEF refused, createBlankNode, openIterator, readOnce, removeStatement, RemoveOne, removeContext, listedRemoved
<1>3. RdContentOK' /\ \A x \in RdStatements : rdContent'[x] <= rdContent[x]
  <2>1. CASE UNCHANGED rdContent
    BY <1>1, <2>1, NoneGo
  <2>2. CASE removeStatement(t)
    <3>1. UNCHANGED rdContent \/ \E st : rdContent[st] > 0 /\ rdContent' = [rdContent EXCEPT ![st] = @ - 1]
      BY <2>2 DEF removeStatement, RemoveOne
    <3> QED
      BY <1>1, <2>1, <3>1, CopiesGo
  <2>3. CASE removeContext(t)
    <3>1. UNCHANGED rdContent
          \/ \E tm : rdContent' = [st \in RdStatements |-> IF StatementMatches(st, tm) THEN 0 ELSE rdContent[st]]
      BY <2>3 DEF removeContext
    <3>2. ASSUME NEW tm, rdContent' = [st \in RdStatements |-> IF StatementMatches(st, tm) THEN 0 ELSE rdContent[st]]
          PROVE  RdContentOK' /\ \A x \in RdStatements : rdContent'[x] <= rdContent[x]
      <4>1. \A x \in RdStatements : rdContent[x] \in 0..MaxCopies /\ 0 \in 0..MaxCopies
        BY <1>1, RdStatementsAssumption DEF RdContentOK
      <4>2. \A x \in RdStatements : rdContent'[x] = 0 \/ rdContent'[x] = rdContent[x]
        BY <3>2
      <4>3. \A x \in RdStatements : rdContent'[x] \in 0..MaxCopies /\ rdContent'[x] <= rdContent[x]
        BY <4>1, <4>2, RdStatementsAssumption
      <4> QED
        BY <3>2, <4>3 DEF RdContentOK
    <3> QED
      BY <2>1, <3>1, <3>2
  <2> QED
    BY <2>1, <2>2, <2>3 DEF refused, createBlankNode, openIterator, readOnce, listedRemoved
<1> QED
  BY <1>2, <1>3, CallReturns

LEMMA RestKnows ==
  ASSUME RdListsOK, UNCHANGED <<rdCall, rdContent>>
  PROVE  RdListsOK'
BY DEF RdListsOK, RdCallsOK, RdContentOK, KnowsCopies, RdAt

LEMMA RdListsStep == RdListsOK /\ [RdNext]_rdVars => RdListsOK'
<1> SUFFICES ASSUME RdListsOK, [RdNext]_rdVars PROVE RdListsOK'
  OBVIOUS
<1>1. CASE UNCHANGED rdVars
  BY <1>1, RestKnows DEF rdVars
<1>2. ASSUME NEW t \in RdThreads, NEW op, NEW arg, begin(t, op, arg) PROVE RdListsOK'
  BY <1>2, BeginsKnow
<1>3. ASSUME NEW t \in RdThreads, closeIterator_(t) \/ destroyModel_(t) PROVE RdListsOK'
  BY <1>3, RestKnows DEF closeIterator_, destroyModel_
<1>4. ASSUME NEW t \in RdThreads,
             \/ refused(t) \/ createBlankNode(t) \/ lockForRead(t) \/ openIterator(t) \/ readOnce(t) \/ listForRemoval(t)
             \/ enterWrite(t) \/ addStatement(t) \/ removeStatement(t)
             \/ removeContext(t) \/ removeListed(t) \/ listedRemoved(t)
      PROVE  RdListsOK'
  BY <1>4, ReadersKnow, WritersKnow, ListsKnow, RemovalsKnow, AdditionsKnow, EndsKnow
<1> QED
  BY <1>1, <1>2, <1>3, <1>4 DEF RdNext

\* A call of one thread is moved by that thread only.
LEMMA OthersStay ==
  ASSUME RdListsOK, NEW t \in RdThreads, NEW u \in RdThreads, u # t,
         (\E c : Set(u, c) \/ \E st : Added(u, st, c)) \/ UNCHANGED rdCall
  PROVE  rdCall'[t].at = rdCall[t].at
<1>1. DOMAIN rdCall = RdThreads /\ "at" \in DOMAIN rdCall[t]
  BY DEF RdListsOK, RdCallsOK, NoRdCall
<1>2. ASSUME NEW c, Set(u, c) PROVE rdCall'[t].at = rdCall[t].at
  BY <1>1, <1>2 DEF Set
<1>3. ASSUME NEW c, NEW st, Added(u, st, c) PROVE rdCall'[t].at = rdCall[t].at
  <2>1. rdCall'[t] = [rdCall[t] EXCEPT !.since = @ \cup {st}]
    BY <1>3 DEF Added
  <2> QED
    BY <1>1, <2>1
<1> QED
  BY <1>2, <1>3

LEMMA OneThreadActs ==
  ASSUME RdNext
  PROVE  \E u \in RdThreads :
           /\ (\E c : Set(u, c) \/ \E st : Added(u, st, c)) \/ UNCHANGED rdCall
           /\ \/ UNCHANGED rdCall
              \/ RdAt(u) # "writing"
              \/ addStatement(u) \/ removeStatement(u) \/ removeContext(u) \/ removeListed(u) \/ listedRemoved(u)
<1>1. ASSUME NEW u \in RdThreads, NEW op, NEW arg, begin(u, op, arg)
      PROVE  (\E c : Set(u, c)) /\ RdAt(u) # "writing"
  BY <1>1 DEF begin, At, RdAt
<1>2. ASSUME NEW u \in RdThreads,
             \/ refused(u) \/ createBlankNode(u) \/ lockForRead(u) \/ openIterator(u)
             \/ readOnce(u) \/ listForRemoval(u) \/ enterWrite(u)
      PROVE  (\E c : Set(u, c)) /\ RdAt(u) # "writing"
  BY <1>2 DEF refused, createBlankNode, lockForRead, openIterator, readOnce, listForRemoval, enterWrite, Move, At, RdAt
<1>3. ASSUME NEW u \in RdThreads, closeIterator_(u) \/ destroyModel_(u) PROVE UNCHANGED rdCall
  BY <1>3 DEF closeIterator_, destroyModel_
<1>4. ASSUME NEW u \in RdThreads,
             addStatement(u) \/ removeStatement(u) \/ removeContext(u) \/ removeListed(u) \/ listedRemoved(u)
      PROVE  \E c : Set(u, c) \/ \E st : Added(u, st, c)
  BY <1>4 DEF addStatement, removeStatement, removeContext, removeListed, listedRemoved, RemoveOne
<1> QED
  BY <1>1, <1>2, <1>3, <1>4 DEF RdNext

LEMMA GoneWhenDone ==
  ASSUME RdListsOK, RdNext, NEW t \in RdThreads, rdCall[t].op = "removeAll", Partial(rdCall[t].arg), At(t, "writing"),
         rdCall'[t].at = "idle", rdCall'[t].rc = "ErrorNone", ~rdCall[t].unlisted,
         NEW st \in RdStatements, StatementMatches(st, rdCall[t].arg)
  PROVE  rdContent'[st] = 0 \/ st \in rdCall[t].since
<1>1. DOMAIN rdCall = RdThreads /\ DOMAIN rdCall[t] = DOMAIN NoRdCall /\ RdAt(t) = "writing" /\ RdContentOK
  BY DEF RdListsOK, RdCallsOK, At, RdAt
<1>2. PICK u \in RdThreads :
           /\ (\E c : Set(u, c) \/ \E x : Added(u, x, c)) \/ UNCHANGED rdCall
           /\ \/ UNCHANGED rdCall
              \/ RdAt(u) # "writing"
              \/ addStatement(u) \/ removeStatement(u) \/ removeContext(u) \/ removeListed(u) \/ listedRemoved(u)
  BY OneThreadActs
<1>3. rdCall'[t].at # rdCall[t].at
  BY <1>1 DEF RdAt
<1>4. u = t /\ ~UNCHANGED rdCall
  BY <1>2, <1>3, OthersStay
<1>5. addStatement(t) \/ removeStatement(t) \/ removeContext(t) \/ removeListed(t) \/ listedRemoved(t)
  BY <1>1, <1>2, <1>4
<1>6. ~addStatement(t) /\ ~removeStatement(t)
  BY DEF addStatement, removeStatement
<1>7. ASSUME NEW signals, Set(t, Return_(t, "ErrorUnknown", signals)) PROVE FALSE
  <2>1. rdCall'[t] = Return_(t, "ErrorUnknown", signals)
    BY <1>1, <1>7 DEF Set
  <2>2. Return_(t, "ErrorUnknown", signals).rc = "ErrorUnknown"
    BY <1>1 DEF Return_, NoRdCall
  <2> QED
    BY <2>1, <2>2
<1>8. CASE removeContext(t)
  <2>1. rdContent' = [x \in RdStatements |-> IF StatementMatches(x, rdCall[t].arg) THEN 0 ELSE rdContent[x]]
    BY <1>7, <1>8 DEF removeContext
  <2> QED
    BY <2>1
<1>9. CASE removeListed(t)
  <2>1. Set(t, [rdCall[t] EXCEPT !.todo = Tail(@), !.done = 1, !.signals = {"statementRemoved"}])
    BY <1>7, <1>9 DEF removeListed, RemoveOne
  <2>2. rdCall'[t] = [rdCall[t] EXCEPT !.todo = Tail(@), !.done = 1, !.signals = {"statementRemoved"}]
    BY <1>1, <2>1 DEF Set
  <2>3. rdCall'[t].at = rdCall[t].at
    BY <1>1, <2>2 DEF NoRdCall
  <2> QED
    BY <1>3, <2>3
<1>10. CASE listedRemoved(t)
  <2>1. rdCall[t].todo = <<>> /\ ~ContextOnly(rdCall[t].arg) /\ UNCHANGED rdContent
    BY <1>10 DEF listedRemoved, RemovingListed
  <2>2. CountOf(st, <<>>) = 0
    <3>1. PlacesOf(st, <<>>) = {}
      BY DEF PlacesOf
    <3> QED
      BY <3>1, FS_EmptySet DEF CountOf
  <2>3. st \in rdCall[t].since \/ rdContent[st] <= 0
    BY <1>1, <2>1, <2>2 DEF RdListsOK, KnowsCopies, RemovesListed
  <2>4. rdContent[st] \in Nat
    BY <1>1, RdStatementsAssumption DEF RdContentOK
  <2> QED
    BY <2>1, <2>3, <2>4
<1> QED
  BY <1>5, <1>6, <1>8, <1>9, <1>10

(***************************************************************************)
(* removeAllStatements lists under a read lock and removes under a write   *)
(* lock taken later; when it could list and reports success every copy of  *)
(* what it listed is gone, whatever other threads have done between the    *)
(* locks, but for what they have added.                                    *)
(***************************************************************************)
THEOREM RemovedIsGone == RdInit /\ [][RdNext]_rdVars => RemovedAllGone
<1> DEFINE Gone == \A t \in RdThreads : ReportsRemoved(t) /\ ~rdCall[t].unlisted => LeftOnlyAdded(t)
<1>1. RdListsOK /\ [RdNext]_rdVars => [Gone]_rdVars
  BY GoneWhenDone DEF ReportsRemoved, LeftOnlyAdded
<1>2. [][Gone]_rdVars => RemovedAllGone
  BY DEF RemovedAllGone
<1> HIDE DEF Gone
<1> QED
  BY <1>1, <1>2, RdListsStart, RdListsStep, PTL

(***************************************************************************)
(* The Redland backend as a whole: MultiMutex, the removals of             *)
(* RedlandModel and the three iterators.                                   *)
(***************************************************************************)
THEOREM RedlandStaysExact ==
  RdInit /\ [][RdNext]_rdVars /\ RiInit /\ [][RiNext]_riVars => RedlandExact
<1>1. RdInit /\ [][RdNext]_rdVars => RedlandSound
  BY OneThreadBelowLocks, RemovedIsGone DEF RedlandSound
<1>2. RedlandSound /\ []EachElementOnce => RedlandExact
  BY DEF RedlandExact
<1> HIDE DEF RedlandSound, RedlandExact
<1> QED
  BY <1>1, <1>2, ElementsInTurn, PTL
-----------------------------------------------------------------------------
(***************************************************************************)
(* Sesame2Model.  The lock is a shared one held by calls and by the        *)
(* iterators that have not ended; a writer is alone.                       *)
(***************************************************************************)
SesameOps == SeReads \cup {"none", "add", "remove", "removeAll"}
SesamePlaces == {"idle", "read", "write", "refused", "body", "emit"}
SesameCalls ==
  [op : SesameOps, arg : {EmptyStatement} \cup SeStatements \cup SeTemplates, at : SesamePlaces,
   rc : {"ErrorNone", "ErrorUnknown", "ErrorInvalidArgument"}]

SeTypeOK ==
  /\ seReaders \in [SeThreads -> Nat]
  /\ seWriter \in SeThreads \cup {"none"}
  /\ seIterator \in [SeThreads -> {"none", "open"}]
  /\ seCall \in [SeThreads -> SesameCalls]

(***************************************************************************)
(* Strengthening: a thread in a call has no iterator, for seBegin asks for *)
(* it, and a call waits for the lock its operation needs.                  *)
(***************************************************************************)
NoIteratorBelow(t) == ~SeAt(t, "idle") => seIterator[t] = "none"
WaitsForItsLock(t) ==
  /\ SeAt(t, "read") => seCall[t].op \in SeReads
  /\ SeAt(t, "write") => seCall[t].op \notin SeReads

SesameInv ==
  /\ SeTypeOK /\ SesameLockExact
  /\ \A t \in SeThreads : NoIteratorBelow(t) /\ WaitsForItsLock(t)

(***************************************************************************)
(* What the lock owes one thread.                                          *)
(***************************************************************************)
SesameHolds(t) ==
  /\ seReaders[t] = (IF SeBody(t, SeReads) THEN 1 ELSE 0) + (IF seIterator[t] = "open" THEN 1 ELSE 0)
  /\ seWriter = t <=> SeAt(t, "body") /\ seCall[t].op \notin SeReads
  /\ NoIteratorBelow(t) /\ WaitsForItsLock(t)
SesameWriterAlone == seWriter # "none" => \A t \in SeThreads : seReaders[t] = 0
-----------------------------------------------------------------------------
LEMMA SesameInvParts == SesameInv <=> SeTypeOK /\ SesameWriterAlone /\ \A t \in SeThreads : SesameHolds(t)
  BY DEF SesameInv, SesameLockExact, SesameHolds, SesameWriterAlone

LEMMA SesameInitInv == SeInit => SesameInv
<1> SUFFICES ASSUME SeInit PROVE SeTypeOK /\ SesameWriterAlone /\ \A t \in SeThreads : SesameHolds(t)
  BY SesameInvParts
<1>1. SeTypeOK
  <2>1. NoSeCall \in SesameCalls
    BY DEF NoSeCall, SesameCalls, SesameOps, SesamePlaces
  <2> QED
    BY <2>1 DEF SeInit, SeTypeOK
<1>2. SesameWriterAlone
  BY DEF SeInit, SesameWriterAlone
<1>3. ASSUME NEW t \in SeThreads PROVE SesameHolds(t)
  BY SeThreadsAssumption DEF SeInit, NoSeCall, SesameHolds, SeBody, SeAt, NoIteratorBelow, WaitsForItsLock
<1> QED
  BY <1>1, <1>2, <1>3

(***************************************************************************)
(* A call that goes on, or ends, changes its own place only.               *)
(***************************************************************************)
LEMMA SesameCallMoves ==
  ASSUME SeTypeOK, NEW t \in SeThreads, NEW p \in SesamePlaces, NEW rc \in {"ErrorNone", "ErrorUnknown", "ErrorInvalidArgument"},
         SeGo(t, p) \/ (SeEnd(t, rc) /\ p = "idle")
  PROVE  /\ seCall' \in [SeThreads -> SesameCalls]
         /\ seCall'[t].at = p /\ seCall'[t].op = seCall[t].op
         /\ \A u \in SeThreads \ {t} : seCall'[u] = seCall[u]
<1>1. seCall \in [SeThreads -> SesameCalls]
  BY DEF SeTypeOK
<1>2. CASE SeGo(t, p)
  <2>1. seCall' = [seCall EXCEPT ![t] = [seCall[t] EXCEPT !.at = p]]
    BY <1>2 DEF SeGo
  <2> QED
    BY <1>1, <2>1 DEF SesameCalls
<1>3. CASE SeEnd(t, rc) /\ p = "idle"
  <2>1. seCall' = [seCall EXCEPT ![t] = [seCall[t] EXCEPT !.at = "idle", !.rc = rc]]
    BY <1>3 DEF SeEnd
  <2>2. [seCall[t] EXCEPT !.at = "idle", !.rc = rc] \in SesameCalls
        /\ [seCall[t] EXCEPT !.at = "idle", !.rc = rc].at = "idle"
        /\ [seCall[t] EXCEPT !.at = "idle", !.rc = rc].op = seCall[t].op
    BY <1>1 DEF SesameCalls, SesamePlaces
  <2> QED
    BY <1>1, <1>3, <2>1, <2>2
<1> QED
  BY <1>2, <1>3

(***************************************************************************)
(* A step that leaves the lock alone, and in which a thread neither enters *)
(* nor leaves the body of a call.                                          *)
(***************************************************************************)
LEMMA SesameLockUntouched ==
  ASSUME SesameInv, NEW t \in SeThreads, UNCHANGED <<seLock, seIterator>>,
         seCall' \in [SeThreads -> SesameCalls], \A u \in SeThreads \ {t} : seCall'[u] = seCall[u],
         seCall[t].at # "body", seCall'[t].at # "body",
         seCall'[t].at # "idle" => seIterator[t] = "none",
         seCall'[t].at = "read" => seCall'[t].op \in SeReads,
         seCall'[t].at = "write" => seCall'[t].op \notin SeReads
  PROVE  SesameInv'
<1> USE DEF seLock
<1>1. SeTypeOK /\ SesameWriterAlone /\ \A u \in SeThreads : SesameHolds(u)
  BY SesameInvParts
<1>2. SeTypeOK' /\ SesameWriterAlone'
  BY <1>1 DEF SeTypeOK, SesameWriterAlone
<1>3. ASSUME NEW u \in SeThreads PROVE SesameHolds(u)'
  <2>1. SesameHolds(u)
    BY <1>1
  <2>2. CASE u # t
    BY <2>1, <2>2 DEF SesameHolds, SeBody, SeAt, NoIteratorBelow, WaitsForItsLock
  <2>3. CASE u = t
    BY <2>1, <2>3 DEF SesameHolds, SeBody, SeAt, NoIteratorBelow, WaitsForItsLock
  <2> QED
    BY <2>2, <2>3
<1> QED
  BY <1>2, <1>3 DEF SesameInv, SesameLockExact, SesameHolds, SesameWriterAlone
-----------------------------------------------------------------------------
(***************************************************************************)
(* Calls that begin, are refused, or send their signals                    *)
(***************************************************************************)
LEMMA SesameBeginInv ==
  ASSUME SesameInv, NEW t \in SeThreads, NEW op \in SeReads \cup {"add", "remove", "removeAll"},
         NEW arg \in {EmptyStatement} \cup SeStatements \cup SeTemplates, seBegin(t, op, arg)
  PROVE  SesameInv'
<1>1. SeTypeOK
  BY DEF SesameInv
<1> DEFINE single == op = "remove" /\ StatementValid(arg) /\ ~IsEmpty(arg.c)
           place == CASE op \in SeReads -> "read"
                      [] op = "remove" /\ ~StatementValid(arg) -> "refused"
                      [] OTHER -> "write"
           call == [op |-> IF single THEN "removeAll" ELSE op, arg |-> arg, rc |-> "ErrorNone", at |-> place]
<1>2. seCall' = [seCall EXCEPT ![t] = call] /\ SeAt(t, "idle") /\ seIterator[t] = "none" /\ UNCHANGED <<seLock, seIterator>>
  BY DEF seBegin
<1>3. /\ place \in {"read", "write", "refused"}
      /\ place = "read" <=> op \in SeReads
  BY DEF SeReads
<1>4. (IF single THEN "removeAll" ELSE op) \in SesameOps /\ (single => op \notin SeReads)
  BY DEF SesameOps, SeReads
<1> HIDE DEF single, place
<1>5. call \in SesameCalls
  BY <1>3, <1>4 DEF SesameCalls, SesamePlaces
<1>6. call.at = place /\ call.op = (IF single THEN "removeAll" ELSE op)
  OBVIOUS
<1> HIDE DEF call
<1>7. /\ seCall' \in [SeThreads -> SesameCalls] /\ seCall'[t] = call
      /\ \A u \in SeThreads \ {t} : seCall'[u] = seCall[u]
  BY <1>1, <1>2, <1>5 DEF SeTypeOK
<1>8. place = "read" => call.op \in SeReads
  BY <1>3, <1>4, <1>6
<1>9. place = "write" => call.op \notin SeReads
  BY <1>3, <1>4, <1>6 DEF SeReads
<1> QED
  BY <1>2, <1>3, <1>6, <1>7, <1>8, <1>9, SesameLockUntouched DEF SeAt

LEMMA SesameOutsideInv ==
  ASSUME SesameInv, NEW t \in SeThreads, seRefused(t) \/ seEmit(t)
  PROVE  SesameInv'
<1>1. SeTypeOK
  BY DEF SesameInv
<1>2. /\ \E rc \in {"ErrorNone", "ErrorUnknown", "ErrorInvalidArgument"} : SeEnd(t, rc)
      /\ seCall[t].at # "body" /\ UNCHANGED <<seLock, seIterator>>
  BY DEF seRefused, seEmit, SeAt
<1>3. /\ seCall' \in [SeThreads -> SesameCalls] /\ seCall'[t].at = "idle"
      /\ \A u \in SeThreads \ {t} : seCall'[u] = seCall[u]
  BY <1>1, <1>2, SesameCallMoves DEF SesamePlaces
<1> QED
  BY <1>2, <1>3, SesameLockUntouched
-----------------------------------------------------------------------------
(***************************************************************************)
(* Taking the lock                                                         *)
(***************************************************************************)
LEMMA SesameLockForReadInv ==
  ASSUME SesameInv, NEW t \in SeThreads, seLockForRead(t)
  PROVE  SesameInv'
<1>1. SeTypeOK /\ SesameWriterAlone /\ \A u \in SeThreads : SesameHolds(u)
  BY SesameInvParts
<1>2. /\ SeAt(t, "read") /\ seWriter = "none" /\ SeGo(t, "body")
      /\ seReaders' = [seReaders EXCEPT ![t] = @ + 1] /\ UNCHANGED <<seWriter, seIterator>>
  BY DEF seLockForRead
<1>3. /\ seCall' \in [SeThreads -> SesameCalls] /\ seCall'[t].at = "body" /\ seCall'[t].op = seCall[t].op
      /\ \A u \in SeThreads \ {t} : seCall'[u] = seCall[u]
  BY <1>1, <1>2, SesameCallMoves DEF SesamePlaces
<1>4. SeTypeOK' /\ SesameWriterAlone'
  <2>1. seReaders' \in [SeThreads -> Nat]
    BY <1>1, <1>2 DEF SeTypeOK
  <2>2. SeTypeOK'
    BY <1>1, <1>2, <1>3, <2>1 DEF SeTypeOK
  <2>3. SesameWriterAlone'
    BY <1>2 DEF SesameWriterAlone
  <2> QED
    BY <2>2, <2>3
<1>5. ASSUME NEW u \in SeThreads PROVE SesameHolds(u)'
  <2>1. SesameHolds(u) /\ seReaders \in [SeThreads -> Nat]
    BY <1>1 DEF SeTypeOK
  <2>2. CASE u # t
    BY <1>2, <1>3, <2>1, <2>2 DEF SesameHolds, SeBody, SeAt, NoIteratorBelow, WaitsForItsLock
  <2>3. CASE u = t
    <3>1. /\ seReaders[t] = 0 /\ seReaders'[t] = 1 /\ seIterator[t] = "none"
          /\ seCall[t].op \in SeReads /\ seWriter # t
      BY <1>2, <2>1, <2>3, SeThreadsAssumption DEF SesameHolds, SeBody, SeAt, NoIteratorBelow, WaitsForItsLock
    <3> QED
      BY <1>2, <1>3, <2>3, <3>1 DEF SesameHolds, SeBody, SeAt, NoIteratorBelow, WaitsForItsLock
  <2> QED
    BY <2>2, <2>3
<1> QED
  BY <1>4, <1>5 DEF SesameInv, SesameLockExact, SesameHolds, SesameWriterAlone

LEMMA SesameLockForWriteInv ==
  ASSUME SesameInv, NEW t \in SeThreads, seLockForWrite(t)
  PROVE  SesameInv'
<1>1. SeTypeOK /\ SesameWriterAlone /\ \A u \in SeThreads : SesameHolds(u)
  BY SesameInvParts
<1>2. /\ SeAt(t, "write") /\ seWriter = "none" /\ SeGo(t, "body") /\ seWriter' = t
      /\ \A u \in SeThreads : seReaders[u] = 0
      /\ UNCHANGED <<seReaders, seIterator>>
  BY DEF seLockForWrite
<1>3. /\ seCall' \in [SeThreads -> SesameCalls] /\ seCall'[t].at = "body" /\ seCall'[t].op = seCall[t].op
      /\ \A u \in SeThreads \ {t} : seCall'[u] = seCall[u]
  BY <1>1, <1>2, SesameCallMoves DEF SesamePlaces
<1>4. SeTypeOK' /\ SesameWriterAlone'
  BY <1>1, <1>2, <1>3 DEF SeTypeOK, SesameWriterAlone
<1>5. ASSUME NEW u \in SeThreads PROVE SesameHolds(u)'
  <2>1. SesameHolds(u)
    BY <1>1
  <2>2. CASE u # t
    <3>1. seWriter # u
      BY <1>2, SeThreadsAssumption
    <3> QED
      BY <1>2, <1>3, <2>1, <2>2, <3>1 DEF SesameHolds, SeBody, SeAt, NoIteratorBelow, WaitsForItsLock
  <2>3. CASE u = t
    BY <1>2, <1>3, <2>1, <2>3 DEF SesameHolds, SeBody, SeAt, NoIteratorBelow, WaitsForItsLock
  <2> QED
    BY <2>2, <2>3
<1> QED
  BY <1>4, <1>5 DEF SesameInv, SesameLockExact, SesameHolds, SesameWriterAlone
-----------------------------------------------------------------------------
(***************************************************************************)
(* Whichever way a call leaves its body, with the lock released and no     *)
(* iterator, what it held is what seUnlock gives back.                     *)
(***************************************************************************)
LEMMA SesameReleaseInv ==
  ASSUME SesameInv, NEW t \in SeThreads, SeAt(t, "body"), seUnlock(t), UNCHANGED seIterator,
         seCall' \in [SeThreads -> SesameCalls], \A u \in SeThreads \ {t} : seCall'[u] = seCall[u],
         seCall'[t].at \in {"idle", "emit"}
  PROVE  SesameInv'
<1>1. SeTypeOK /\ SesameWriterAlone /\ \A u \in SeThreads : SesameHolds(u)
  BY SesameInvParts
<1>2. seIterator[t] = "none" /\ seReaders \in [SeThreads -> Nat]
  BY <1>1 DEF SesameHolds, NoIteratorBelow, SeAt, SeTypeOK
<1>3. /\ seReaders' \in [SeThreads -> Nat] /\ seReaders'[t] = 0
      /\ \A u \in SeThreads \ {t} : seReaders'[u] = seReaders[u]
      /\ seWriter' = IF seWriter = t THEN "none" ELSE seWriter
  <2>1. CASE seWriter = t
    <3>1. seWriter' = "none" /\ UNCHANGED seReaders
      BY <2>1 DEF seUnlock
    <3>2. seReaders[t] = 0
      BY <1>1, <2>1, SeThreadsAssumption DEF SesameWriterAlone
    <3> QED
      BY <1>2, <2>1, <3>1, <3>2
  <2>2. CASE seWriter # t
    <3>1. seReaders' = [seReaders EXCEPT ![t] = @ - 1] /\ UNCHANGED seWriter
      BY <2>2 DEF seUnlock
    <3>2. seReaders[t] = 1
      BY <1>1, <1>2, <2>2 DEF SesameHolds, SeBody, SeAt
    <3> QED
      BY <1>2, <2>2, <3>1, <3>2
  <2> QED
    BY <2>1, <2>2
<1>4. SeTypeOK'
  BY <1>1, <1>3 DEF SeTypeOK
<1>5. SesameWriterAlone'
  <2> SUFFICES ASSUME seWriter' # "none", NEW u \in SeThreads PROVE seReaders'[u] = 0
    BY DEF SesameWriterAlone
  <2> QED
    BY <1>1, <1>3 DEF SesameWriterAlone
<1>6. ASSUME NEW u \in SeThreads PROVE SesameHolds(u)'
  <2>1. SesameHolds(u)
    BY <1>1
  <2>2. CASE u # t
    <3>1. seWriter' = u <=> seWriter = u
      BY <1>3, <2>2, SeThreadsAssumption
    <3> QED
      BY <1>3, <2>1, <2>2, <3>1 DEF SesameHolds, SeBody, SeAt, NoIteratorBelow, WaitsForItsLock
  <2>3. CASE u = t
    <3>1. seWriter' # t
      BY <1>3, SeThreadsAssumption
    <3> QED
      BY <1>2, <1>3, <2>3, <3>1 DEF SesameHolds, SeBody, SeAt, NoIteratorBelow, WaitsForItsLock
  <2> QED
    BY <2>2, <2>3
<1> QED
  BY <1>4, <1>5, <1>6 DEF SesameInv, SesameLockExact, SesameHolds, SesameWriterAlone

(***************************************************************************)
(* The iterator of a call that reads takes over its lock.                  *)
(***************************************************************************)
LEMMA SesameKeepInv ==
  ASSUME SesameInv, NEW t \in SeThreads, SeBody(t, SeReads), UNCHANGED seLock,
         seIterator' = [seIterator EXCEPT ![t] = "open"],
         seCall' \in [SeThreads -> SesameCalls], \A u \in SeThreads \ {t} : seCall'[u] = seCall[u],
         seCall'[t].at = "idle"
  PROVE  SesameInv'
<1> USE DEF seLock
<1>1. SeTypeOK /\ SesameWriterAlone /\ \A u \in SeThreads : SesameHolds(u)
  BY SesameInvParts
<1>2. SeTypeOK' /\ SesameWriterAlone'
  BY <1>1 DEF SeTypeOK, SesameWriterAlone
<1>3. seIterator'[t] = "open" /\ \A u \in SeThreads \ {t} : seIterator'[u] = seIterator[u]
  BY <1>1 DEF SeTypeOK
<1>4. ASSUME NEW u \in SeThreads PROVE SesameHolds(u)'
  <2>1. SesameHolds(u)
    BY <1>1
  <2>2. CASE u # t
    BY <1>3, <2>1, <2>2 DEF SesameHolds, SeBody, SeAt, NoIteratorBelow, WaitsForItsLock
  <2>3. CASE u = t
    <3>1. seReaders[t] = 1 /\ seWriter # t
      BY <2>1, <2>3 DEF SesameHolds, SeBody, SeAt, NoIteratorBelow
    <3> QED
      BY <1>3, <2>3, <3>1 DEF SesameHolds, SeBody, SeAt, NoIteratorBelow, WaitsForItsLock
  <2> QED
    BY <2>2, <2>3
<1> QED
  BY <1>2, <1>4 DEF SesameInv, SesameLockExact, SesameHolds, SesameWriterAlone
-----------------------------------------------------------------------------
(***************************************************************************)
(* The bodies: each ends with the lock released or kept by an iterator.    *)
(***************************************************************************)
LEMMA SesameWriteBodiesInv ==
  ASSUME SesameInv, NEW t \in SeThreads, addUnconverted(t) \/ addConverted(t) \/ removeMatching_(t)
  PROVE  SesameInv'
<1>1. SeTypeOK
  BY DEF SesameInv
<1>2. /\ SeAt(t, "body") /\ seUnlock(t) /\ UNCHANGED seIterator
      /\ SeEnd(t, "ErrorUnknown") \/ SeGo(t, "emit")
  <2>1. CASE addUnconverted(t)
    BY <2>1 DEF addUnconverted, SeBody
  <2>2. CASE addConverted(t)
    BY <2>2 DEF addConverted, SeBody
  <2>3. CASE removeMatching_(t)
    BY <2>3 DEF removeMatching_, SeBody
  <2> QED
    BY <2>1, <2>2, <2>3
<1>3. /\ seCall' \in [SeThreads -> SesameCalls] /\ seCall'[t].at \in {"idle", "emit"}
      /\ \A u \in SeThreads \ {t} : seCall'[u] = seCall[u]
  BY <1>1, <1>2, SesameCallMoves DEF SesamePlaces
<1> QED
  BY <1>2, <1>3, SesameReleaseInv

LEMMA SesameReadBodiesInv ==
  ASSUME SesameInv, NEW t \in SeThreads, seList(t) \/ seQuery(t) \/ seReadOnce(t)
  PROVE  SesameInv'
<1>1. SeTypeOK
  BY DEF SesameInv
<1>2. /\ SeBody(t, SeReads)
      /\ SeEnd(t, "ErrorUnknown") \/ SeEnd(t, "ErrorNone")
      /\ \/ seUnlock(t) /\ UNCHANGED seIterator
         \/ UNCHANGED seLock /\ seIterator' = [seIterator EXCEPT ![t] = "open"]
  <2>1. CASE seList(t)
    BY <2>1 DEF seList, SeBody, SeReads
  <2>2. CASE seQuery(t)
    BY <2>2 DEF seQuery, SeBody, SeReads
  <2>3. CASE seReadOnce(t)
    BY <2>3 DEF seReadOnce, SeBody, SeReads
  <2> QED
    BY <2>1, <2>2, <2>3
<1>3. /\ seCall' \in [SeThreads -> SesameCalls] /\ seCall'[t].at = "idle"
      /\ \A u \in SeThreads \ {t} : seCall'[u] = seCall[u]
  BY <1>1, <1>2, SesameCallMoves DEF SesamePlaces
<1>4. CASE seUnlock(t) /\ UNCHANGED seIterator
  BY <1>2, <1>3, <1>4, SesameReleaseInv DEF SeBody
<1>5. CASE UNCHANGED seLock /\ seIterator' = [seIterator EXCEPT ![t] = "open"]
  BY <1>2, <1>3, <1>5, SesameKeepInv
<1> QED
  BY <1>2, <1>4, <1>5

(***************************************************************************)
(* An iterator that ends or is closed gives its lock back.                 *)
(***************************************************************************)
LEMMA SesameClosedInv ==
  ASSUME SesameInv, NEW t \in SeThreads, SeAt(t, "idle"), seIterator[t] = "open", closeBackend(t), UNCHANGED seCall
  PROVE  SesameInv'
<1>1. SeTypeOK /\ SesameWriterAlone /\ \A u \in SeThreads : SesameHolds(u)
  BY SesameInvParts
<1>2. /\ SeAt(t, "idle") /\ seIterator[t] = "open" /\ seUnlock(t) /\ UNCHANGED seCall
      /\ seIterator' = [seIterator EXCEPT ![t] = "none"]
  BY DEF closeBackend
<1>3. seReaders[t] = 1 /\ seWriter # t /\ seReaders \in [SeThreads -> Nat]
  BY <1>1, <1>2 DEF SesameHolds, SeBody, SeAt, SeTypeOK
<1>4. seReaders' = [seReaders EXCEPT ![t] = @ - 1] /\ UNCHANGED seWriter
  BY <1>2, <1>3 DEF seUnlock
<1>5. /\ seReaders' \in [SeThreads -> Nat] /\ seReaders'[t] = 0
      /\ \A u \in SeThreads \ {t} : seReaders'[u] = seReaders[u] /\ seIterator'[u] = seIterator[u]
      /\ seIterator'[t] = "none"
  BY <1>1, <1>2, <1>3, <1>4 DEF SeTypeOK
<1>6. SeTypeOK' /\ SesameWriterAlone'
  BY <1>1, <1>2, <1>4, <1>5 DEF SeTypeOK, SesameWriterAlone
<1>7. ASSUME NEW u \in SeThreads PROVE SesameHolds(u)'
  <2>1. SesameHolds(u)
    BY <1>1
  <2>2. CASE u # t
    BY <1>2, <1>4, <1>5, <2>1, <2>2 DEF SesameHolds, SeBody, SeAt, NoIteratorBelow, WaitsForItsLock
  <2>3. CASE u = t
    BY <1>2, <1>3, <1>4, <1>5, <2>3 DEF SesameHolds, SeBody, SeAt, NoIteratorBelow, WaitsForItsLock
  <2> QED
    BY <2>2, <2>3
<1> QED
  BY <1>6, <1>7 DEF SesameInv, SesameLockExact, SesameHolds, SesameWriterAlone

LEMMA SesameIteratorInv ==
  ASSUME SesameInv, NEW t \in SeThreads, seIteratorNext(t) \/ seIteratorClose(t)
  PROVE  SesameInv'
<1>1. CASE closeBackend(t)
  BY <1>1, SesameClosedInv DEF seIteratorNext, seIteratorClose
<1>2. CASE UNCHANGED <<seReaders, seWriter, seIterator>>
  BY <1>2 DEF seIteratorNext, seIteratorClose, SesameInv, SeTypeOK, SesameLockExact, SeBody, SeAt, NoIteratorBelow, WaitsForItsLock
<1> QED
  BY <1>1, <1>2 DEF seIteratorNext, seIteratorClose, seLock

(***************************************************************************)
(* The destructor runs when no call is under way and closes what is open.  *)
(***************************************************************************)
LEMMA SesameDestroyInv ==
  ASSUME SesameInv, NEW t \in SeThreads, seDestroyModel(t)
  PROVE  SesameInv'
<1>1. /\ \A u \in SeThreads : SeAt(u, "idle")
      /\ seReaders' = [u \in SeThreads |-> 0] /\ seWriter' = "none"
      /\ seIterator' = [u \in SeThreads |-> "none"] /\ UNCHANGED seCall
  BY DEF seDestroyModel
<1>2. SeTypeOK' /\ SesameWriterAlone'
  BY <1>1 DEF SesameInv, SeTypeOK, SesameWriterAlone
<1>3. ASSUME NEW u \in SeThreads PROVE SesameHolds(u)'
  BY <1>1, SeThreadsAssumption DEF SesameHolds, SeBody, SeAt, NoIteratorBelow, WaitsForItsLock
<1> QED
  BY <1>2, <1>3 DEF SesameInv, SesameLockExact, SesameHolds, SesameWriterAlone
-----------------------------------------------------------------------------
LEMMA SesameStepInv == SesameInv /\ [SeNext]_seVars => SesameInv'
<1> SUFFICES ASSUME SesameInv, [SeNext]_seVars PROVE SesameInv'
  OBVIOUS
<1>1. ASSUME UNCHANGED <<seReaders, seWriter, seIterator, seCall>> PROVE SesameInv'
  BY <1>1 DEF SesameInv, SeTypeOK, SesameLockExact, SeBody, SeAt, NoIteratorBelow, WaitsForItsLock
<1>2. CASE UNCHANGED seVars
  BY <1>1, <1>2 DEF seVars, seLock
<1>3. ASSUME NEW t \in SeThreads, NEW setting \in {"accepted", "refused"}, seCreateModel(t, setting) PROVE SesameInv'
  BY <1>1, <1>3 DEF seCreateModel, seLock
<1>4. ASSUME NEW t \in SeThreads, seDestroyModel(t) \/ seCreateBlankNode(t) PROVE SesameInv'
  BY <1>1, <1>4, SesameDestroyInv DEF seCreateBlankNode, seLock
<1>5. ASSUME NEW t \in SeThreads, NEW st \in SeStatements, seBegin(t, "add", st) \/ seBegin(t, "remove", st) PROVE SesameInv'
  BY <1>5, SesameBeginInv
<1>6. ASSUME NEW t \in SeThreads, NEW tm \in SeTemplates, seBegin(t, "removeAll", tm) PROVE SesameInv'
  BY <1>6, SesameBeginInv
<1>7. ASSUME NEW t \in SeThreads, NEW op \in SeReads, seBegin(t, op, EmptyStatement) PROVE SesameInv'
  BY <1>7, SesameBeginInv
<1>8. ASSUME NEW t \in SeThreads,
             \/ seRefused(t) \/ seLockForRead(t) \/ seLockForWrite(t)
             \/ addUnconverted(t) \/ addConverted(t) \/ removeMatching_(t) \/ seEmit(t)
             \/ seList(t) \/ seQuery(t) \/ seReadOnce(t)
             \/ seIteratorNext(t) \/ seIteratorClose(t)
      PROVE  SesameInv'
  BY <1>8, SesameOutsideInv, SesameLockForReadInv, SesameLockForWriteInv, SesameWriteBodiesInv, SesameReadBodiesInv, SesameIteratorInv
<1> QED
  BY <1>2, <1>3, <1>4, <1>5, <1>6, <1>7, <1>8 DEF SeNext

(***************************************************************************)
(* For any set of threads, and whichever Java call throws, the lock of the *)
(* Sesame2 backend is held exactly by the calls below it and by the open   *)
(* iterators, and a writer is alone (Sesame2::Model and its iterator       *)
(* backends).                                                              *)
(***************************************************************************)
THEOREM LockHeldByCallsAndIterators == SeSpec => []SesameLockExact
<1>1. SesameInv => SesameLockExact
  BY DEF SesameInv
<1> QED
  BY <1>1, SesameInitInv, SesameStepInv, PTL DEF SeSpec
-----------------------------------------------------------------------------
(***************************************************************************)
(* Nodes are equal as the code compares them when they are the same, and a *)
(* template picks the statements that have its nodes.                      *)
(***************************************************************************)
LEMMA NodesEqual ==
  ASSUME NEW n, NEW m, IsNode(n), IsNode(m)
  PROVE  NodeEquals(n, m) <=> n = m
BY DEF NodeEquals, IsNode, IsEmpty

LEMMA NodesMatch ==
  ASSUME NEW n, NEW m, IsNode(n), IsNode(m)
  PROVE  NodeMatches(n, m) <=> IsEmpty(m) \/ n = m
BY NodesEqual DEF NodeMatches

LEMMA EmptyNode == IsNode(Empty) /\ IsEmpty(Empty)
BY DEF Empty, IsNode, IsEmpty

LEMMA Uris ==
  ASSUME NEW u
  PROVE  Resource(<<u>>) = [type |-> "ResourceNode", text |-> <<u>>] /\ IsNode(Resource(<<u>>))
BY DEF Resource, NoText, IsNode, IsEmpty

LEMMA UrisDiffer ==
  ASSUME NEW u, NEW v, u # v
  PROVE  Resource(<<u>>) # Resource(<<v>>)
<1>1. ASSUME NEW x PROVE Resource(x).text = x
  BY DEF Resource, Empty
<1>2. <<u>> # <<v>>
  OBVIOUS
<1> QED
  BY <1>1, <1>2

LEMMA LiteralNodes ==
  ASSUME NEW text
  PROVE  IsNode(Literal(text))
BY DEF Literal, IsNode, IsEmpty

LEMMA OneMore ==
  ASSUME NEW S, IsFiniteSet(S), NEW x
  PROVE  /\ IsFiniteSet(S \cup {x}) /\ Cardinality(S) \in Nat
         /\ Cardinality(S \cup {x}) \in Nat /\ Cardinality(S \cup {x}) <= Cardinality(S) + 1
<1>1. Cardinality(S) \in Nat
  BY FS_CardinalityType
<1>2. IsFiniteSet(S \cup {x})
  BY FS_AddElement
<1>3. Cardinality(S \cup {x}) = IF x \in S THEN Cardinality(S) ELSE Cardinality(S) + 1
  BY FS_AddElement
<1> QED
  BY <1>1, <1>2, <1>3

LEMMA FourAreFinite ==
  ASSUME NEW a, NEW b, NEW c, NEW d
  PROVE  IsFiniteSet({a, b, c, d})
<1>1. IsFiniteSet({a} \cup {b})
  BY FS_Singleton, FS_AddElement
<1>2. IsFiniteSet(({a} \cup {b}) \cup {c})
  BY <1>1, FS_AddElement
<1>3. IsFiniteSet((({a} \cup {b}) \cup {c}) \cup {d})
  BY <1>2, FS_AddElement
<1>4. {a, b, c, d} = (({a} \cup {b}) \cup {c}) \cup {d}
  OBVIOUS
<1> QED
  BY <1>3, <1>4
-----------------------------------------------------------------------------
(***************************************************************************)
(* VirtuosoModel.  What the server holds are statements, and what a call   *)
(* says of itself is kept until the next.                                  *)
(***************************************************************************)
VmInv == (\A x \in vmContent : IsStatement(x)) /\ RemovalsExact

LEMMA Graphs ==
  /\ IsNode(defaultGraph) /\ IsNode(openlinkVirtualGraph)
  /\ ~IsEmpty(defaultGraph) /\ ~IsEmpty(openlinkVirtualGraph)
  /\ defaultGraph # openlinkVirtualGraph
<1>1. defaultGraph # openlinkVirtualGraph
  BY UrisDiffer DEF defaultGraph, openlinkVirtualGraph
<1>2. IsNode(defaultGraph) /\ IsNode(openlinkVirtualGraph)
  BY Uris DEF defaultGraph, openlinkVirtualGraph
<1>3. ASSUME NEW u PROVE ~IsEmpty(Resource(<<u>>))
  BY DEF Resource, NoText, IsEmpty
<1> QED
  BY <1>1, <1>2, <1>3 DEF defaultGraph, openlinkVirtualGraph

\* Only the object of a pattern differs from its statement.
LEMMA PatternParts ==
  ASSUME NEW st, IsStatement(st)
  PROVE  /\ Pattern(st).s = st.s /\ Pattern(st).p = st.p /\ Pattern(st).c = st.c
         /\ Pattern(st).o = Stored(FakeType(st.o))
BY DEF Pattern, IsStatement, Statement

LEMMA TripleParts ==
  ASSUME NEW st, IsStatement(st)
  PROVE  /\ IsStatement(Triple(st)) /\ Triple(st).c = Empty
         /\ Triple(st).s = st.s /\ Triple(st).p = st.p /\ Triple(st).o = st.o
<1>1. Triple(st) = Statement(st.s, st.p, st.o, Empty)
  BY DEF Triple, SetContext, IsStatement, Statement
<1> QED
  BY <1>1, EmptyNode DEF IsStatement, Statement

LEMMA GraphParts ==
  ASSUME NEW st, IsStatement(st)
  PROVE  /\ IsStatement(WithGraph(st))
         /\ WithGraph(st).s = st.s /\ WithGraph(st).p = st.p /\ WithGraph(st).o = st.o
         /\ WithGraph(st).c = IF IsEmpty(st.c) THEN defaultGraph ELSE st.c
<1>1. WithGraph(st) = Statement(st.s, st.p, st.o, IF IsEmpty(st.c) THEN defaultGraph ELSE st.c)
  BY DEF WithGraph, SetContext, IsStatement, Statement
<1> QED
  BY <1>1, Graphs DEF IsStatement, Statement

LEMMA StoredIsStatement ==
  ASSUME NEW st, IsStatement(st)
  PROVE  IsStatement(StoredStatement(st))
<1>1. StoredStatement(st) = Statement(st.s, st.p, Stored(st.o), st.c)
  BY DEF StoredStatement, IsStatement, Statement
<1>2. IsNode(Stored(st.o))
  BY LiteralNodes DEF Stored, Typed, IsStatement
<1> QED
  BY <1>1, <1>2 DEF IsStatement, Statement

(***************************************************************************)
(* What a pattern finds is in its context, and it is what the pattern      *)
(* without the context finds.                                              *)
(***************************************************************************)
LEMMA FoundInContext ==
  ASSUME NEW x, NEW t, IsStatement(x), IsStatement(t), StatementMatches(x, Pattern(t))
  PROVE  /\ IsEmpty(t.c) \/ x.c = t.c
         /\ StatementMatches(Triple(x), Pattern(Triple(t)))
<1>1. NodeMatches(x.c, t.c)
  BY PatternParts DEF StatementMatches
<1>2. IsEmpty(t.c) \/ x.c = t.c
  BY <1>1, NodesMatch DEF IsStatement
<1>3. NodeMatches(Triple(x).c, Pattern(Triple(t)).c)
  BY TripleParts, PatternParts, EmptyNode DEF NodeMatches
<1>4. /\ NodeMatches(Triple(x).s, Pattern(Triple(t)).s) /\ NodeMatches(Triple(x).p, Pattern(Triple(t)).p)
      /\ NodeMatches(Triple(x).o, Pattern(Triple(t)).o)
  BY TripleParts, PatternParts DEF StatementMatches
<1> QED
  BY <1>2, <1>3, <1>4 DEF StatementMatches
-----------------------------------------------------------------------------
LEMMA VmInitInv == VmInit => VmInv
<1>1. IsStatement(Statement(openlinkVirtualGraph, openlinkVirtualGraph, openlinkVirtualGraph, openlinkVirtualGraph))
  BY Graphs DEF IsStatement, Statement
<1> QED
  BY <1>1 DEF VmInit, VmInv, RemovalsExact, NoCallYet

\* What a call that refuses, or that the server does not obey, leaves behind
LEMMA VmRefusedInv ==
  ASSUME VmInv, NEW op, NEW arg, NEW rc, NEW failed, NEW signals,
         rc # "ErrorNone", UNCHANGED <<vmContent, vmOptions>>, Record(op, arg, rc, failed, signals)
  PROVE  VmInv'
<1>1. /\ vmCall'.op = op /\ vmCall'.rc = rc /\ vmCall'.before = vmContent
  BY DEF Record
<1> QED
  BY <1>1 DEF VmInv, RemovalsExact

LEMMA VmAddInv ==
  ASSUME VmInv, NEW st \in VmStatements, VmAddStatement(st)
  PROVE  VmInv'
<1>1. CASE Refuse("add", st)
  BY <1>1, VmRefusedInv DEF Refuse, VmAddStatement
<1>2. ASSUME NEW failed \in BOOLEAN,
             vmContent' = IF failed THEN vmContent ELSE vmContent \cup {StoredStatement(WithGraph(st))},
             Record("add", st, "ErrorNone", failed, Signals({"statementAdded", "statementsAdded"}))
      PROVE  VmInv'
  <2>1. IsStatement(StoredStatement(WithGraph(st)))
    BY VmStatementsAssumption, GraphParts, StoredIsStatement
  <2>2. vmCall'.op = "add"
    BY <1>2 DEF Record
  <2> QED
    BY <1>2, <2>1, <2>2 DEF VmInv, RemovalsExact
<1> QED
  BY <1>1, <1>2 DEF VmAddStatement

(***************************************************************************)
(* One command that names its graph: what it removes is in that graph.     *)
(***************************************************************************)
LEMMA VmRemoveInv ==
  ASSUME VmInv, NEW st \in VmStatements, VmRemoveStatement(st)
  PROVE  VmInv'
<1> DEFINE matching == ListStatements(vmContent, Pattern(WithGraph(st)))
<1>0. IsStatement(st) /\ vmOptions' = vmOptions
  BY VmStatementsAssumption DEF VmRemoveStatement
<1>1. CASE Refuse("remove", st)
  BY <1>0, <1>1, VmRefusedInv DEF Refuse
<1>2. ASSUME NEW failed \in BOOLEAN, Removable(st), failed, vmContent' = vmContent,
             Record("remove", st, "ErrorUnknown", failed, Signals({"statementRemoved", "statementsRemoved"}))
      PROVE  VmInv'
  BY <1>0, <1>2, VmRefusedInv
<1>3. ASSUME Removable(st), vmContent' = vmContent \ matching,
             Record("remove", st, "ErrorNone", FALSE, Signals({"statementRemoved", "statementsRemoved"}))
      PROVE  VmInv'
  <2>1. /\ vmCall'.op = "remove" /\ vmCall'.arg = st /\ vmCall'.rc = "ErrorNone"
        /\ vmCall'.before = vmContent
    BY <1>3 DEF Record
  <2>2. ASSUME NEW x \in matching
        PROVE  /\ x.c = WithGraph(st).c
               /\ StatementMatches(Triple(x), Pattern(Triple(st)))
    <3>1. IsStatement(x) /\ StatementMatches(x, Pattern(WithGraph(st)))
      BY <2>2 DEF VmInv, ListStatements
    <3>2. Triple(WithGraph(st)) = Triple(st)
      BY <1>0 DEF WithGraph, Triple, SetContext, IsStatement, Statement
    <3> QED
      BY <1>0, <3>1, <3>2, GraphParts, Graphs, FoundInContext
  <2>3. WithGraph(st).c # openlinkVirtualGraph
    BY <1>0, <1>3, GraphParts, Graphs DEF Removable
  <2>4. (~VmContainsStatement(st))'
    BY <1>0, <1>3 DEF VmContainsStatement, VmContainsAnyStatement, ContainsAnyStatement, ListStatements,
      Pattern, FakeType, WithGraph, Removable, GraphKnown
  <2>5. \A x \in vmContent \ vmContent' : x \in matching
    BY <1>3
  <2>6. WithGraph(st).c = IF IsEmpty(st.c) THEN defaultGraph ELSE st.c
    BY <1>0, GraphParts
  <2>7. (\A x \in vmContent' : IsStatement(x)) /\ (openlinkVirtualGraph \in {x.c : x \in vmContent}
           => openlinkVirtualGraph \in {x.c : x \in vmContent'})
    BY <1>3, <2>2, <2>3 DEF VmInv
  <2>8. ASSUME NEW t PROVE Pattern(t)' = Pattern(t)
    BY <1>0 DEF Pattern, FakeType
  <2> HIDE DEF matching
  <2> QED
    BY <2>1, <2>2, <2>4, <2>5, <2>6, <2>7, <2>8 DEF VmInv, RemovalsExact
<1> QED
  BY <1>1, <1>2, <1>3 DEF VmRemoveStatement, Command

(***************************************************************************)
(* removeAllStatements, in one graph, in all of them at once, or in one    *)
(* after the other.                                                        *)
(***************************************************************************)
LEMMA InGraphInv ==
  ASSUME VmInv, NEW t \in VmTemplates, ~IsEmpty(t.c), RemoveInGraph(t), vmOptions' = vmOptions
  PROVE  VmInv'
<1> DEFINE matching == ListStatements(vmContent, Pattern(t))
<1>0. IsStatement(t)
  BY VmStatementsAssumption
<1>1. CASE Refuse("removeAll", t)
  BY <1>1, VmRefusedInv DEF Refuse
<1>2. ASSUME NEW rc, NEW failed, NEW signals, vmContent' = vmContent, rc # "ErrorNone",
             Record("removeAll", t, rc, failed, signals)
      PROVE  VmInv'
  BY <1>2, VmRefusedInv
<1>3. ASSUME NEW rc, NEW signals, t.c # openlinkVirtualGraph, vmContent' = vmContent \ matching,
             rc = "ErrorNone" \/ (t.c = defaultGraph /\ ~vmOptions.emptyGraphs),
             Record("removeAll", t, rc, FALSE, signals)
      PROVE  VmInv'
  <2>1. /\ vmCall'.op = "removeAll" /\ vmCall'.arg = t /\ vmCall'.rc = rc
        /\ vmCall'.before = vmContent
    BY <1>3 DEF Record
  <2>2. ASSUME NEW x \in matching
        PROVE  x.c = t.c /\ StatementMatches(Triple(x), Pattern(Triple(t)))
    BY <1>0, <2>2, FoundInContext DEF VmInv, ListStatements
  <2>3. (VmListStatements(t) = {})'
    <3>1. ListStatements(vmContent', Pattern(t)) = {}
      BY <1>3 DEF ListStatements
    <3>2. Pattern(t)' = Pattern(t)
      BY DEF Pattern, FakeType
    <3> QED
      BY <3>1, <3>2 DEF VmListStatements
  <2>4. \A x \in vmContent \ vmContent' : x \in matching
    BY <1>3
  <2>5. (\A x \in vmContent' : IsStatement(x)) /\ (openlinkVirtualGraph \in {x.c : x \in vmContent}
           => openlinkVirtualGraph \in {x.c : x \in vmContent'})
    BY <1>3, <2>2 DEF VmInv
  <2>6. ASSUME NEW u PROVE Pattern(u)' = Pattern(u)
    BY DEF Pattern, FakeType
  <2>7. rc # "ErrorNone" => LateRefusal'
    BY <1>3, <2>1 DEF LateRefusal
  <2> HIDE DEF matching
  <2> QED
    BY <2>1, <2>2, <2>3, <2>4, <2>5, <2>6, <2>7 DEF VmInv, RemovalsExact
<1>4. CASE /\ t.c # openlinkVirtualGraph
           /\ Command("removeAll", t, vmContent \ matching)
  <2>1. PICK failed \in BOOLEAN :
          /\ vmContent' = IF failed THEN vmContent ELSE vmContent \ matching
          /\ Record("removeAll", t, IF failed THEN "ErrorUnknown" ELSE "ErrorNone", failed,
                    Signals({"statementRemoved", "statementsRemoved"}))
    BY <1>4 DEF Command
  <2> QED
    BY <1>2, <1>3, <1>4, <2>1
<1>5. CASE /\ t.c # openlinkVirtualGraph /\ t.c = defaultGraph /\ ~vmOptions.emptyGraphs
           /\ \E failed \in BOOLEAN :
                /\ vmContent' = IF failed THEN vmContent ELSE vmContent \ matching
                /\ Record("removeAll", t, "ErrorInvalidArgument", failed, Signals({"statementsRemoved"}))
  BY <1>2, <1>3, <1>5
<1> QED
  BY <1>1, <1>4, <1>5 DEF RemoveInGraph

LEMMA InGraphsInv ==
  ASSUME VmInv, NEW t \in VmTemplates, IsEmpty(t.c), RemoveInGraphs(t), vmOptions' = vmOptions
  PROVE  VmInv'
<1> DEFINE matching == ListStatements(vmContent, Pattern(t))
           graphs == {x.c : x \in matching} \ {openlinkVirtualGraph}
<1>0. IsStatement(t) /\ t.c = Empty
  BY VmStatementsAssumption DEF IsStatement, IsNode
<1>1. \A u : Pattern(u)' = Pattern(u)
  BY DEF Pattern, FakeType
<1>2. ASSUME NEW x \in matching
      PROVE  StatementMatches(Triple(x), Pattern(Triple(t)))
  BY <1>0, <1>2, FoundInContext DEF VmInv, ListStatements
<1>3. CASE vmOptions.deleteWhere /\ Command("removeAll", t, vmContent \ matching)
  <2>1. PICK failed \in BOOLEAN :
          /\ vmContent' = IF failed THEN vmContent ELSE vmContent \ matching
          /\ Record("removeAll", t, IF failed THEN "ErrorUnknown" ELSE "ErrorNone", failed,
                    Signals({"statementRemoved", "statementsRemoved"}))
    BY <1>3 DEF Command
  <2>2. CASE failed
    BY <2>1, <2>2, VmRefusedInv
  <2>3. CASE ~failed
    <3>1. /\ vmCall'.op = "removeAll" /\ vmCall'.arg = t /\ vmCall'.rc = "ErrorNone"
          /\ vmCall'.before = vmContent /\ vmContent' = vmContent \ matching
      BY <2>1, <2>3 DEF Record
    <3>2. (VmListStatements(t) = {})'
      <4>1. ListStatements(vmContent', Pattern(t)) = {}
        BY <3>1 DEF ListStatements
      <4> QED
        BY <1>1, <4>1 DEF VmListStatements
    <3>3. ReachesAllGraphs'
      BY <1>0, <1>3, <3>1 DEF ReachesAllGraphs
    <3>4. \A x \in vmContent \ vmContent' : x \in matching
      BY <3>1
    <3>5. \A x \in vmContent' : IsStatement(x)
      BY <3>1 DEF VmInv
    <3> HIDE DEF matching
    <3> QED
      BY <1>1, <1>2, <3>1, <3>2, <3>3, <3>4, <3>5 DEF VmInv, RemovalsExact
  <2> QED
    BY <2>2, <2>3
<1>4. ASSUME NEW done \in SUBSET graphs, NEW rc, NEW failed, NEW signals,
             vmContent' = {x \in vmContent : ~(x \in matching /\ x.c \in done)},
             Record("removeAll", t, rc, failed, signals), ~vmOptions.deleteWhere,
             rc = "ErrorNone" => failed \/ done = graphs,
             rc # "ErrorNone" => failed \/ ~vmOptions.emptyGraphs
      PROVE  VmInv'
  <2>1. /\ vmCall'.op = "removeAll" /\ vmCall'.arg = t /\ vmCall'.rc = rc
        /\ vmCall'.failed = failed /\ vmCall'.before = vmContent
    BY <1>4 DEF Record
  <2>2. \A x \in vmContent \ vmContent' : x \in matching /\ x.c # openlinkVirtualGraph
    BY <1>4
  <2>3. (\A x \in vmContent' : IsStatement(x)) /\ (openlinkVirtualGraph \in {x.c : x \in vmContent}
           => openlinkVirtualGraph \in {x.c : x \in vmContent'})
    BY <1>4 DEF VmInv
  <2>4. rc = "ErrorNone" /\ ~failed => (VmListStatements(t) = {})'
    <3>1. ASSUME done = graphs, NEW y \in ListStatements(vmContent', Pattern(t))
          PROVE  y.c = openlinkVirtualGraph
      BY <1>4, <3>1 DEF ListStatements
    <3> QED
      BY <1>0, <1>1, <1>4, <3>1 DEF VmListStatements
  <2>5. rc # "ErrorNone" => failed \/ LateRefusal'
    BY <1>0, <1>4, <2>1 DEF LateRefusal
  <2>6. failed => UnlistedGraphs'
    BY <1>0, <1>4, <2>1 DEF UnlistedGraphs
  <2>7. \A x \in vmContent \ vmContent', y \in ListStatements(vmContent, Pattern(t))' : x.c # y.c
    BY <1>1, <1>4 DEF ListStatements
  <2> HIDE DEF matching, graphs
  <2> QED
    BY <1>0, <1>1, <1>2, <2>1, <2>2, <2>3, <2>4, <2>5, <2>6, <2>7 DEF VmInv, RemovalsExact
<1>5. CASE /\ ~vmOptions.deleteWhere
           /\ \E listed \in SUBSET graphs : \E done \in SUBSET listed :
             /\ vmContent' = {x \in vmContent : ~(x \in matching /\ x.c \in done)}
             /\ Record("removeAll", t,
                       CASE RefusedLate(done) -> "ErrorInvalidArgument"
                         [] ~RefusedLate(done) /\ done # listed -> "ErrorUnknown"
                         [] OTHER -> "ErrorNone",
                       listed # graphs \/ (done # listed /\ ~RefusedLate(done)),
                       IF done = {} THEN {} ELSE Signals({"statementRemoved", "statementsRemoved"}))
  <2>1. PICK listed \in SUBSET graphs, done \in SUBSET graphs :
             /\ done \subseteq listed
             /\ vmContent' = {x \in vmContent : ~(x \in matching /\ x.c \in done)}
             /\ Record("removeAll", t,
                       CASE RefusedLate(done) -> "ErrorInvalidArgument"
                         [] ~RefusedLate(done) /\ done # listed -> "ErrorUnknown"
                         [] OTHER -> "ErrorNone",
                       listed # graphs \/ (done # listed /\ ~RefusedLate(done)),
                       IF done = {} THEN {} ELSE Signals({"statementRemoved", "statementsRemoved"}))
    BY <1>5
  <2> HIDE DEF matching, graphs
  <2> DEFINE late == RefusedLate(done)
             rc == CASE late -> "ErrorInvalidArgument"
                     [] ~late /\ done # listed -> "ErrorUnknown"
                     [] OTHER -> "ErrorNone"
             failed == listed # graphs \/ (done # listed /\ ~late)
  <2>2. late => ~vmOptions.emptyGraphs
    BY DEF RefusedLate
  <2>3. Record("removeAll", t, rc, failed, IF done = {} THEN {} ELSE Signals({"statementRemoved", "statementsRemoved"}))
    BY <2>1
  <2> HIDE DEF late
  <2>4. /\ rc = "ErrorNone" => failed \/ done = graphs
        /\ rc # "ErrorNone" => failed \/ ~vmOptions.emptyGraphs
    BY <2>2
  <2> HIDE DEF rc, failed
  <2> QED
    BY <1>4, <1>5, <2>1, <2>3, <2>4
<1> QED
  BY <1>3, <1>5 DEF RemoveInGraphs
-----------------------------------------------------------------------------
LEMMA VmStepInv == VmInv /\ [VmNext]_vmVars => VmInv'
<1> SUFFICES ASSUME VmInv, [VmNext]_vmVars PROVE VmInv'
  OBVIOUS
<1>1. ASSUME UNCHANGED <<vmContent, vmCall, vmOptions>> PROVE VmInv'
  <2>1. \A u : Pattern(u)' = Pattern(u)
    BY <1>1 DEF Pattern, FakeType
  <2>2. \A u : (VmContainsStatement(u)' <=> VmContainsStatement(u)) /\ VmListStatements(u)' = VmListStatements(u)
    BY <1>1, <2>1 DEF VmContainsStatement, VmContainsAnyStatement, VmListStatements, GraphKnown
  <2>3. /\ (LateRefusal' <=> LateRefusal) /\ (ReachesAllGraphs' <=> ReachesAllGraphs)
        /\ UnlistedGraphs' <=> UnlistedGraphs
    BY <1>1 DEF LateRefusal, ReachesAllGraphs, UnlistedGraphs
  <2> QED
    BY <1>1, <2>1, <2>2, <2>3 DEF VmInv, RemovalsExact
<1>2. ASSUME NEW local \in BOOLEAN, createModel(local) PROVE VmInv'
  BY <1>1, <1>2 DEF createModel
<1>3. ASSUME NEW t \in VmTemplates, VmRemoveAllStatements(t) PROVE VmInv'
  BY <1>3, InGraphInv, InGraphsInv DEF VmRemoveAllStatements
<1>4. CASE VmExecuteQuery \/ VmNext_ \/ VmClose
  BY <1>1, <1>4 DEF VmExecuteQuery, VmNext_, VmClose
<1>5. CASE UNCHANGED vmVars
  BY <1>1, <1>5 DEF vmVars
<1> QED
  BY <1>2, <1>3, <1>4, <1>5, VmAddInv, VmRemoveInv DEF VmNext

(***************************************************************************)
(* VmRemoveStatement and VmRemoveAllStatements on any statements: a        *)
(* removal that says it has succeeded has removed what was asked for and   *)
(* nothing from another graph, but for whole graphs that a query which has *)
(* failed did not list.                                                    *)
(***************************************************************************)
THEOREM RemovalsStayExact == VmSpec => []RemovalsExact
<1>1. VmInv => RemovalsExact
  BY DEF VmInv
<1> QED
  BY VmInitInv, VmStepInv, <1>1, PTL DEF VmSpec
-----------------------------------------------------------------------------
(***************************************************************************)
(* FilterModels.  A call on a filter goes on with what its call on the     *)
(* parent has left for its own thread, and a change the parent has made is *)
(* announced when the timer it has started runs out.                       *)
(***************************************************************************)
FmPhases == {"idle", "call", "copy", "return"}

FmTypeOK ==
  /\ fmParent \in Parents
  /\ DOMAIN fmError = Objects /\ \A o \in Objects : DOMAIN fmError[o] = Threads
  /\ DOMAIN fmCall = Threads
  /\ \A t \in Threads : DOMAIN fmCall[t] = DOMAIN NoCall /\ fmCall[t].phase \in FmPhases
  /\ addTimer \in BOOLEAN /\ removeTimer \in BOOLEAN /\ reentered \in BOOLEAN
  /\ unannounced \in SUBSET FmSignals /\ emitting \in FmSignals \cup {"none"}

\* The error of a call is in the parent until it is copied, and then in the filter.
Silent(t) == fmParent = "dummy" /\ fmCall[t].op = "list"
ErrorOnTheWay ==
  \A t \in Threads : ~Silent(t) =>
    /\ fmCall[t].phase = "copy" => fmError[fmParent][t] = fmCall[t].parentRc
    /\ fmCall[t].phase = "return" => fmError["filter"][t] = fmCall[t].parentRc

\* A signal that comes while it is being emitted is the one that may get lost.
SignalDue ==
  ~reentered => \A s \in unannounced : TimerActive(s) /\ emitting # s

FmInv == FmTypeOK /\ ErrorOnTheWay /\ SignalDue
-----------------------------------------------------------------------------
LEMMA FmInitInv == FmInit => FmInv
<1> SUFFICES ASSUME FmInit PROVE FmInv
  OBVIOUS
<1>1. FmTypeOK
  BY DEF FmInit, FmTypeOK, FmPhases, NoCall, Parents
<1>2. ErrorOnTheWay
  BY DEF FmInit, ErrorOnTheWay, NoCall
<1>3. SignalDue
  BY DEF FmInit, SignalDue
<1> QED
  BY <1>1, <1>2, <1>3 DEF FmInv

\* What a call on the parent does to the errors, the calls and the signals
LEMMA ForwardEffect ==
  ASSUME FmTypeOK, NEW t \in Threads, ForwardCall(t)
  PROVE  /\ fmCall[t].phase = "call"
         /\ \E rc, code :
              /\ Answer(t, rc)
              /\ fmError' = [fmError EXCEPT ![fmParent][t] = code]
              /\ Silent(t) \/ code = rc
         /\ NoSignal \/ \E s \in FmSignals : ParentSignal(s)
         /\ UNCHANGED <<fmParent, emitting>>
<1> DEFINE Effect(rc, code) ==
      /\ Answer(t, rc)
      /\ fmError' = [fmError EXCEPT ![fmParent][t] = code]
      /\ Silent(t) \/ code = rc
    Signalled == NoSignal \/ \E s \in FmSignals : ParentSignal(s)
<1>1. CASE fmParent = "dummy"
  <2>1. CASE fmCall[t].op # "list"
    <3>1. DummyWrite(t)
      BY <1>1, <2>1 DEF ForwardCall
    <3>2. Effect(NotSupported, NotSupported) /\ NoSignal
      BY <1>1, <3>1 DEF DummyWrite, SetError
    <3> QED
      BY <3>2 DEF ForwardCall
  <2>2. CASE fmCall[t].op = "list"
    <3>1. DummyRead(t)
      BY <1>1, <2>2 DEF ForwardCall
    <3>2. Effect(ErrorNone, NotSupported) /\ NoSignal
      BY <1>1, <2>2, <3>1 DEF DummyRead, SetError, Silent
    <3> QED
      BY <3>2 DEF ForwardCall
  <2> QED
    BY <2>1, <2>2
<1>2. CASE fmParent = "storage"
  <2>1. ASSUME NEW content, NEW s \in FmSignals, StorageWrite(t, Head(fmCall[t].todo), content, s)
        PROVE  (\E rc, code : Effect(rc, code)) /\ Signalled
    <3>1. \E code : SetError("storage", t, code)
                    /\ Answer(t, code)
      BY <2>1 DEF StorageWrite
    <3>2. \E code : Effect(code, code)
      BY <1>2, <3>1 DEF SetError
    <3>3. Signalled
      BY <2>1 DEF StorageWrite
    <3> QED
      BY <3>2, <3>3
  <2>2. ASSUME NEW template, StorageRemoveAll(t, template)
        PROVE  (\E rc, code : Effect(rc, code)) /\ Signalled
    <3>1. \E code : SetError("storage", t, code)
                    /\ Answer(t, code)
      BY <2>2 DEF StorageRemoveAll
    <3>2. \E code : Effect(code, code)
      BY <1>2, <3>1 DEF SetError
    <3>3. Signalled
      BY <2>2 DEF StorageRemoveAll, FmSignals
    <3> QED
      BY <3>2, <3>3
  <2>3. CASE SetError("storage", t, ErrorNone) /\ NoSignal
             /\ Answer(t, ErrorNone)
    <3>1. Effect(ErrorNone, ErrorNone)
      BY <1>2, <2>3 DEF SetError
    <3> QED
      BY <2>3, <3>1 DEF ForwardCall
  <2>4. CASE \E content : \E s \in FmSignals : StorageWrite(t, Head(fmCall[t].todo), content, s)
    BY <2>1, <2>4 DEF ForwardCall
  <2>5. CASE \E template : StorageRemoveAll(t, template)
    BY <2>2, <2>5 DEF ForwardCall
  <2> QED
    BY <1>2, <2>3, <2>4, <2>5 DEF ForwardCall, FmSignals
<1> QED
  BY <1>1, <1>2 DEF FmTypeOK, Parents

(***************************************************************************)
(* A step of one thread leaves the calls of the others alone and the       *)
(* errors they wait for, since each model keeps an error per thread.       *)
(***************************************************************************)
LEMMA ForwardInv ==
  ASSUME FmInv, NEW t \in Threads, ForwardCall(t)
  PROVE  FmInv'
<1> USE DEF FmInv
<1>1. /\ fmCall[t].phase = "call"
      /\ NoSignal \/ \E s \in FmSignals : ParentSignal(s)
      /\ UNCHANGED <<fmParent, emitting>>
  BY ForwardEffect
<1>2. PICK rc, code :
        /\ Answer(t, rc)
        /\ fmError' = [fmError EXCEPT ![fmParent][t] = code]
        /\ Silent(t) \/ code = rc
  BY ForwardEffect
<1>3. FmTypeOK'
  <2>1. CASE NoSignal
    BY <1>1, <1>2, <2>1 DEF Answer, FmTypeOK, NoSignal, FmPhases, Parents, Objects, NoCall
  <2>2. ASSUME NEW s \in FmSignals, ParentSignal(s) PROVE FmTypeOK'
    BY <1>1, <1>2, <2>2 DEF Answer, FmTypeOK, ParentSignal, FmPhases, Parents, Objects, NoCall, FmSignals
  <2> QED
    BY <1>1, <2>1, <2>2
<1>4. ErrorOnTheWay'
  <2> SUFFICES ASSUME NEW x \in Threads, ~Silent(x)'
               PROVE  /\ fmCall'[x].phase = "copy" => fmError'[fmParent'][x] = fmCall'[x].parentRc
                      /\ fmCall'[x].phase = "return" => fmError'["filter"][x] = fmCall'[x].parentRc
    BY DEF ErrorOnTheWay
  <2>1. CASE x = t
    BY <1>1, <1>2, <2>1 DEF Answer, FmTypeOK, Silent, Parents, Objects, NoCall
  <2>2. CASE x # t
    BY <1>1, <1>2, <2>2 DEF Answer, FmTypeOK, ErrorOnTheWay, Silent, Parents, Objects
  <2> QED
    BY <2>1, <2>2
<1>5. SignalDue'
  <2>1. CASE NoSignal
    BY <1>1, <2>1 DEF SignalDue, NoSignal, TimerActive
  <2>2. ASSUME NEW s \in FmSignals, ParentSignal(s) PROVE SignalDue'
    BY <1>1, <2>2 DEF FmTypeOK, SignalDue, ParentSignal, TimerActive, FmSignals
  <2> QED
    BY <1>1, <2>1, <2>2
<1> QED
  BY <1>3, <1>4, <1>5

LEMMA CopyErrorInv ==
  ASSUME FmInv, NEW t \in Threads, CopyError(t)
  PROVE  FmInv'
<1> USE DEF FmInv
<1>1. /\ fmCall[t].phase = "copy"
      /\ fmError' = [fmError EXCEPT !["filter"][t] = fmError[fmParent][t]]
      /\ fmCall' = [fmCall EXCEPT ![t] = Loop(fmCall[t])]
      /\ UNCHANGED <<fmParent, addTimer, removeTimer, unannounced, emitting, reentered>>
  BY DEF CopyError, SetError
<1>2. /\ Loop(fmCall[t]).parentRc = fmCall[t].parentRc /\ Loop(fmCall[t]).op = fmCall[t].op
      /\ Loop(fmCall[t]).phase \in {"return", "call"} /\ DOMAIN Loop(fmCall[t]) = DOMAIN NoCall
  BY DEF Loop, FmTypeOK, NoCall
<1>3. FmTypeOK'
  BY <1>1, <1>2 DEF FmTypeOK, FmPhases, Objects
<1>4. ErrorOnTheWay'
  <2> SUFFICES ASSUME NEW x \in Threads, ~Silent(x)'
               PROVE  /\ fmCall'[x].phase = "copy" => fmError'[fmParent'][x] = fmCall'[x].parentRc
                      /\ fmCall'[x].phase = "return" => fmError'["filter"][x] = fmCall'[x].parentRc
    BY DEF ErrorOnTheWay
  <2>1. CASE x = t
    <3>1. fmError[fmParent][t] = fmCall[t].parentRc
      BY <1>1, <1>2, <2>1 DEF ErrorOnTheWay, Silent, FmTypeOK
    <3> QED
      BY <1>1, <1>2, <2>1, <3>1 DEF FmTypeOK, Objects
  <2>2. CASE x # t
    BY <1>1, <2>2 DEF FmTypeOK, ErrorOnTheWay, Silent, Parents, Objects
  <2> QED
    BY <2>1, <2>2
<1>5. SignalDue'
  BY <1>1 DEF SignalDue, TimerActive
<1> QED
  BY <1>3, <1>4, <1>5

\* A call begins or ends: it has no error on the way then.
LEMMA CallInv ==
  ASSUME FmInv, NEW t \in Threads, NEW call,
         DOMAIN call = DOMAIN NoCall, call.phase \in {"idle", "call"},
         fmCall' = [fmCall EXCEPT ![t] = call],
         UNCHANGED <<fmParent, addTimer, removeTimer, unannounced, emitting, reentered>>,
         fmError' = fmError \/ \E code : SetError("readonly", t, code)
  PROVE  FmInv'
<1> USE DEF FmInv
<1>1. FmTypeOK'
  BY DEF FmTypeOK, FmPhases, Objects, SetError
<1>2. ErrorOnTheWay'
  BY DEF FmTypeOK, ErrorOnTheWay, Silent, Parents, Objects, SetError
<1>3. SignalDue'
  BY DEF SignalDue, TimerActive
<1> QED
  BY <1>1, <1>2, <1>3

\* Calls that are refused at once: only a thread without a call makes them.
LEMMA FmRefusedInv ==
  ASSUME FmInv, NEW t \in Threads, NEW o \in {"filter", "readonly"}, NEW code, NewCall(t), SetError(o, t, code),
         UNCHANGED <<fmParent, fmCall, addTimer, removeTimer, unannounced, emitting, reentered>>
  PROVE  FmInv'
<1> USE DEF FmInv
<1>1. FmTypeOK'
  BY DEF FmTypeOK, FmPhases, Objects, SetError
<1>2. ErrorOnTheWay'
  BY DEF FmTypeOK, ErrorOnTheWay, Silent, Parents, Objects, SetError, NewCall
<1>3. SignalDue'
  BY DEF SignalDue, TimerActive
<1> QED
  BY <1>1, <1>2, <1>3

LEMMA BeginInv ==
  ASSUME FmInv, NEW t \in Threads, NEW op, NEW todo, Begin(t, op, todo)
  PROVE  FmInv'
<1> DEFINE call == [NoCall EXCEPT !.op = op, !.todo = todo, !.phase = "call"]
<1>1. DOMAIN call = DOMAIN NoCall /\ call.phase = "call"
  BY DEF NoCall
<1>2. fmCall' = [fmCall EXCEPT ![t] = call] /\ UNCHANGED <<fmError, fmParent, addTimer, removeTimer, unannounced, emitting, reentered>>
  BY DEF Begin
<1> HIDE DEF call
<1> QED
  BY <1>1, <1>2, CallInv

LEMMA TimerInv ==
  ASSUME FmInv, NEW s \in FmSignals, timerEvent(s) \/ stopTimer(s)
  PROVE  FmInv'
<1> USE DEF FmInv
<1>1. UNCHANGED <<fmError, fmParent, fmCall, reentered>>
  BY DEF timerEvent, stopTimer
<1>2. FmTypeOK'
  BY <1>1 DEF FmTypeOK, timerEvent, stopTimer
<1>3. ErrorOnTheWay'
  BY <1>1 DEF ErrorOnTheWay, Silent
<1>4. SignalDue'
  BY <1>1 DEF FmTypeOK, SignalDue, timerEvent, stopTimer, TimerActive, FmSignals
<1> QED
  BY <1>2, <1>3, <1>4

LEMMA FmStepInv == FmInv /\ [FmNext]_fmVars => FmInv'
<1> SUFFICES ASSUME FmInv, [FmNext]_fmVars PROVE FmInv'
  OBVIOUS
<1>1. ASSUME NEW t \in Threads, NEW list, addStatements(t, list) \/ removeStatements(t, list) PROVE FmInv'
  BY <1>1, BeginInv DEF addStatements, removeStatements
<1>2. ASSUME NEW t \in Threads, NEW x, fmRemoveAllStatements(t, x) \/ fmListStatements(t, x) PROVE FmInv'
  BY <1>2, BeginInv DEF fmRemoveAllStatements, fmListStatements
<1>3. ASSUME NEW t \in Threads, NEW st \in FmStatements, fmRemoveContext(t, st.c) PROVE FmInv'
  <2>1. CASE IsEmpty(st.c)
    BY <1>3, <2>1, FmRefusedInv DEF fmRemoveContext
  <2>2. CASE ~IsEmpty(st.c)
    BY <1>3, <2>2, BeginInv DEF fmRemoveContext, fmRemoveAllStatements
  <2> QED
    BY <2>1, <2>2
<1>4. ASSUME NEW t \in Threads, fmReturn(t) \/ readOnlyRead(t) PROVE FmInv'
  <2>1. /\ fmCall' = [fmCall EXCEPT ![t] = NoCall]
        /\ UNCHANGED <<fmParent, addTimer, removeTimer, unannounced, emitting, reentered>>
        /\ fmError' = fmError \/ \E code : SetError("readonly", t, code)
    BY <1>4 DEF fmReturn, readOnlyRead
  <2>2. NoCall.phase = "idle"
    BY DEF NoCall
  <2> QED
    BY <2>1, <2>2, CallInv
<1>5. ASSUME NEW t \in Threads, readOnlyWrite(t) PROVE FmInv'
  BY <1>5, FmRefusedInv DEF readOnlyWrite
<1>6. ASSUME NEW p \in Parents, setParentModel(p) PROVE FmInv'
  BY <1>6 DEF FmInv, FmTypeOK, ErrorOnTheWay, SignalDue, TimerActive, setParentModel
<1>7. CASE UNCHANGED fmVars
  BY <1>7 DEF FmInv, FmTypeOK, ErrorOnTheWay, Silent, SignalDue, TimerActive, fmVars
<1> QED
  BY <1>1, <1>2, <1>3, <1>4, <1>5, <1>6, <1>7, ForwardInv, CopyErrorInv, TimerInv DEF FmNext

(***************************************************************************)
(* Whatever other threads call meanwhile, a call on a filter reports the   *)
(* error of its own call on the parent, and a change of the parent that    *)
(* the SignalCacheModel has not announced yet has its timer running, but   *)
(* for a change that a listener makes (FilterModel::addStatement and its   *)
(* like, ErrorCache, SignalCacheModel::timerEvent).                        *)
(***************************************************************************)
THEOREM FiltersHandOn == FmInit /\ [][FmNext]_fmVars => []FiltersTransparent
<1>1. FmInv => FiltersTransparent
  BY DEF FmInv, ErrorOnTheWay, SignalDue, Silent, FiltersTransparent, ErrorInherited, NoSignalLost
<1> QED
  BY FmInitInv, FmStepInv, <1>1, PTL
-----------------------------------------------------------------------------
(***************************************************************************)
(* NRLModel.  The cardinalities hold because an addition takes all values  *)
(* of the property away, or counts them, and metadata graphs because only  *)
(* createGraph and removeGraph touch them.                                 *)
(***************************************************************************)
CoreStatement(pair) == Statement(pair[2], CoreGraphMetadataFor, pair[1], pair[2])

\* What is said of a graph is said in its metadata graph.
SaidInMetadata ==
  \A x \in nrlContent, pair \in NrlGraphs : x.s = pair[1] => x.c = pair[2]

NrlTypeOK ==
  /\ (\A st \in nrlContent : IsStatement(st)) /\ IsFiniteSet(nrlContent)
  /\ ignoreContext \in BOOLEAN

NrlInv == NrlTypeOK /\ CardinalityKept /\ SaidInMetadata /\ MetadataWhole
-----------------------------------------------------------------------------
\* The statements that count for one, and the bounds of its property
SameIn(content, st) == {x \in content : x.s = st.s /\ x.p = st.p /\ (ignoreContext \/ x.c = st.c)}

Within(p, same) ==
  LET card == Restrictions[p]
  IN /\ card.c = 1 \/ card.max = 1 => Cardinality(same) = 1
     /\ card.c > 1 /\ ignoreContext => Cardinality(same) <= card.c
     /\ card.c < 1 /\ card.max > 1 /\ ignoreContext => Cardinality(same) <= card.max

LEMMA KeptIsWithin ==
  CardinalityKept <=> \A st \in nrlContent : st.p \in DOMAIN Restrictions => Within(st.p, SameIn(nrlContent, st))
BY DEF CardinalityKept, Within, SameIn

LEMMA FewerIsWithin ==
  ASSUME NEW p \in DOMAIN Restrictions, NEW T, IsFiniteSet(T), NEW S \in SUBSET T, S # {}, Within(p, T)
  PROVE  Within(p, S)
<1>1. IsFiniteSet(S) /\ Cardinality(S) <= Cardinality(T) /\ Cardinality(S) \in Nat /\ Cardinality(T) \in Nat
  BY FS_Subset, FS_CardinalityType
<1>2. Cardinality(S) # 0
  BY <1>1, FS_EmptySet
<1>3. Restrictions[p].c \in Int /\ Restrictions[p].max \in Int
  BY RestrictionsAssumption
<1> QED
  BY <1>1, <1>2, <1>3 DEF Within

LEMMA OneIsWithin ==
  ASSUME NEW p \in DOMAIN Restrictions, NEW st
  PROVE  Within(p, {st})
<1>1. Cardinality({st}) = 1
  BY FS_Singleton
<1>2. Restrictions[p].c \in Int /\ Restrictions[p].max \in Int
  BY RestrictionsAssumption
<1> QED
  BY <1>1, <1>2 DEF Within

(***************************************************************************)
(* A step keeps the cardinalities if every statement it leaves has the     *)
(* competitors it had, or fewer, or is within its bounds for a reason of   *)
(* its own.                                                                *)
(***************************************************************************)
LEMMA CardinalitiesStay ==
  ASSUME NrlTypeOK, CardinalityKept, ignoreContext' = ignoreContext,
         \A st \in nrlContent' : st.p \in DOMAIN Restrictions =>
           \/ SameIn(nrlContent', st) \subseteq nrlContent
           \/ Within(st.p, SameIn(nrlContent', st))
  PROVE  CardinalityKept'
<1> SUFFICES ASSUME NEW st \in nrlContent', st.p \in DOMAIN Restrictions
             PROVE  Within(st.p, SameIn(nrlContent', st))
  BY KeptIsWithin DEF CardinalityKept, Within, SameIn
<1>1. st \in SameIn(nrlContent', st)
  BY DEF SameIn
<1>2. CASE SameIn(nrlContent', st) \subseteq nrlContent
  <2>1. st \in nrlContent /\ SameIn(nrlContent', st) \subseteq SameIn(nrlContent, st)
    BY <1>1, <1>2 DEF SameIn
  <2>2. IsFiniteSet(SameIn(nrlContent, st)) 
    BY FS_Subset DEF SameIn, NrlTypeOK
  <2>3. Within(st.p, SameIn(nrlContent, st))
    BY <2>1, KeptIsWithin
  <2> QED
    BY <1>1, <2>1, <2>2, <2>3, FewerIsWithin
<1> QED
  BY <1>2

\* The metadata stays whole if a step leaves what is said of the graphs and in
\* their metadata graphs alone.
LEMMA MetadataStays ==
  ASSUME SaidInMetadata, MetadataWhole,
         \A x \in nrlContent' \ nrlContent, pair \in NrlGraphs : x.s # pair[1] /\ x.c # pair[2],
         \A x \in nrlContent \ nrlContent', pair \in NrlGraphs : x.s # pair[2]
  PROVE  SaidInMetadata' /\ MetadataWhole'
<1>1. SaidInMetadata'
  BY DEF SaidInMetadata
<1>2. ASSUME NEW pair \in NrlGraphs, NEW x \in nrlContent', x.c = pair[2] \/ x.s = pair[1]
      PROVE  CoreStatement(pair) \in nrlContent'
  <2>1. x \in nrlContent
    BY <1>2
  <2>2. CoreStatement(pair) \in nrlContent
    BY <1>2, <2>1 DEF MetadataWhole, CoreStatement
  <2>3. CoreStatement(pair).s = pair[2]
    BY DEF CoreStatement, Statement
  <2> QED
    BY <2>2, <2>3
<1>3. \A pair \in NrlGraphs : CoreStatement(pair).c = pair[2]
  BY DEF CoreStatement, Statement
<1> QED
  BY <1>1, <1>2, <1>3 DEF MetadataWhole, CoreStatement
-----------------------------------------------------------------------------
\* A statement that callers may add, and what its templates list
LEMMA AddedStatement ==
  ASSUME NEW st \in NrlAdds
  PROVE  /\ IsStatement(st) /\ ~IsEmpty(st.s) /\ ~IsEmpty(st.p)
         /\ \A pair \in NrlGraphs : st.s \notin {pair[1], pair[2]} /\ st.c # pair[2]
BY NrlAddsAssumption DEF StatementValid, IsResource, IsBlank, IsEmpty

LEMMA SamePropertyListed ==
  ASSUME NrlTypeOK, NEW st \in NrlAdds
  PROVE  /\ ListStatements(nrlContent, SameProperty(st)) = {x \in nrlContent : x.s = st.s /\ x.p = st.p}
         /\ ListStatements(nrlContent, SamePropertyInContext(st)) =
              {x \in nrlContent : x.s = st.s /\ x.p = st.p /\ (IsEmpty(st.c) \/ x.c = st.c)}
         /\ \A x \in ListStatements(nrlContent, ContextAsObject(st)) : x \in nrlContent /\ x.s = st.s /\ x.p = st.p
<1>1. /\ IsNode(st.s) /\ IsNode(st.p) /\ IsNode(st.c) /\ IsNode(st.o)
      /\ ~IsEmpty(st.s) /\ ~IsEmpty(st.p)
  BY AddedStatement DEF IsStatement
<1>2. \A x \in nrlContent : IsNode(x.s) /\ IsNode(x.p) /\ IsNode(x.o) /\ IsNode(x.c)
  BY DEF NrlTypeOK, IsStatement
<1>3. ASSUME NEW x \in nrlContent
      PROVE  /\ StatementMatches(x, SameProperty(st)) <=> x.s = st.s /\ x.p = st.p
             /\ StatementMatches(x, SamePropertyInContext(st)) <=> x.s = st.s /\ x.p = st.p /\ (IsEmpty(st.c) \/ x.c = st.c)
             /\ StatementMatches(x, ContextAsObject(st)) => x.s = st.s /\ x.p = st.p
  <2>1. /\ NodeMatches(x.s, st.s) <=> x.s = st.s
        /\ NodeMatches(x.p, st.p) <=> x.p = st.p
        /\ NodeMatches(x.c, st.c) <=> IsEmpty(st.c) \/ x.c = st.c
    BY <1>1, <1>2, NodesMatch
  <2>2. NodeMatches(x.o, Empty) /\ NodeMatches(x.c, Empty)
    BY EmptyNode DEF NodeMatches
  <2> QED
    BY <2>1, <2>2 DEF StatementMatches, SameProperty, SamePropertyInContext, ContextAsObject, Statement
<1> QED
  BY <1>3 DEF ListStatements

LEMMA NrlRemoveInv ==
  ASSUME NrlInv, NEW st \in NrlAdds, nrlRemoveAllStatements(SameProperty(st))
  PROVE  NrlInv'
<1> USE DEF NrlInv
<1>1. /\ nrlContent' = nrlContent \ {x \in nrlContent : x.s = st.s /\ x.p = st.p}
      /\ ignoreContext' = ignoreContext
  BY EmptyNode, SamePropertyListed DEF nrlRemoveAllStatements, SameProperty, Statement
<1>2. NrlTypeOK'
  BY <1>1, FS_Subset DEF NrlTypeOK
<1>3. CardinalityKept'
  <2>1. \A x \in nrlContent' : SameIn(nrlContent', x) \subseteq nrlContent
    BY <1>1 DEF SameIn
  <2> QED
    BY <1>1, <2>1, CardinalitiesStay
<1>4. SaidInMetadata' /\ MetadataWhole'
  BY <1>1, AddedStatement, MetadataStays
<1> QED
  BY <1>2, <1>3, <1>4

(***************************************************************************)
(* addNrlStatement.  Only statements of the same subject and property go,  *)
(* and only the new one comes.                                             *)
(***************************************************************************)
LEMMA NrlAddInv ==
  ASSUME NrlInv, NEW st \in NrlAdds, addNrlStatement(st)
  PROVE  NrlInv'
<1> USE DEF NrlInv
<1> DEFINE matching == {x \in nrlContent : x.s = st.s /\ x.p = st.p}
           card == IF st.p \in DOMAIN Restrictions THEN Restrictions[st.p]
                   ELSE [min |-> -1, max |-> -1, c |-> -1]
           limit == IF card.c > 1 THEN card.c ELSE card.max
<1>0. card.c \in Int /\ card.max \in Int /\ limit \in Int /\ ignoreContext' = ignoreContext
  BY RestrictionsAssumption DEF addNrlStatement
<1>1. \/ (card.c = 1 \/ card.max = 1) /\ Replace(st)
      \/ /\ card.c # 1 /\ card.max # 1 /\ (card.max > 1 \/ card.c > 1)
         /\ AddLimited(st, limit)
      \/ card.c < 1 /\ card.max < 1 /\ AddUnlimited(st)
      \/ nrlContent' = nrlContent
  BY DEF addNrlStatement
<1> HIDE DEF limit
<1>2. nrlContent \ matching \subseteq nrlContent' /\ nrlContent' \subseteq nrlContent \cup {st}
  <2>1. CASE Replace(st)
    BY <2>1, SamePropertyListed DEF Replace
  <2>2. CASE AddLimited(st, limit)
    <3>1. Competitors(st) \subseteq matching
      BY SamePropertyListed DEF Competitors
    <3> QED
      BY <2>2, <3>1 DEF AddLimited
  <2>3. CASE AddUnlimited(st)
    BY <2>3 DEF AddUnlimited
  <2>4. CASE nrlContent' = nrlContent
    BY <2>4
  <2> QED
    BY <1>1, <2>1, <2>2, <2>3, <2>4
<1>3. NrlTypeOK'
  <2>1. IsFiniteSet(nrlContent \cup {st})
    BY FS_AddElement DEF NrlTypeOK
  <2> QED
    BY <1>0, <1>2, <2>1, FS_Subset, AddedStatement DEF NrlTypeOK
<1>4. SaidInMetadata' /\ MetadataWhole'
  BY <1>2, AddedStatement, MetadataStays
<1>5. CardinalityKept'
  <2> SUFFICES ASSUME NEW y \in nrlContent', y.p \in DOMAIN Restrictions
               PROVE  SameIn(nrlContent', y) \subseteq nrlContent \/ Within(y.p, SameIn(nrlContent', y))
    BY <1>0, CardinalitiesStay
  <2>1. CASE ~(y.s = st.s /\ y.p = st.p /\ (ignoreContext \/ y.c = st.c))
    BY <1>2, <2>1 DEF SameIn
  <2>2. CASE y.s = st.s /\ y.p = st.p /\ (ignoreContext \/ y.c = st.c)
    <3>1. card = Restrictions[y.p]
      BY <2>2
    <3>2. CASE Replace(st)
      <4>1. SameIn(nrlContent', y) = {st}
        BY <2>2, <3>2, SamePropertyListed DEF Replace, SameIn
      <4> QED
        BY <4>1, OneIsWithin
    <3>3. CASE card.c # 1 /\ card.max # 1 /\ (card.max > 1 \/ card.c > 1) /\ AddLimited(st, limit)
      <4>1. CASE ~ignoreContext
        BY <3>1, <3>3, <4>1 DEF Within
      <4>2. CASE ignoreContext
        <5>1. Competitors(st) = matching /\ SameIn(nrlContent', y) = {x \in nrlContent' : x.s = st.s /\ x.p = st.p}
          BY <2>2, <4>2, SamePropertyListed DEF Competitors, SameIn
        <5>2. IsFiniteSet(matching) /\ Cardinality(matching) \in Nat
          BY FS_Subset, FS_CardinalityType DEF NrlTypeOK
        <5>3. CASE ~(Cardinality(matching) >= limit) /\ nrlContent' = nrlContent \cup {st}
          <6>1. SameIn(nrlContent', y) = matching \cup {st}
            BY <5>1, <5>3
          <6> HIDE DEF matching
          <6>2. Cardinality(matching \cup {st}) <= Cardinality(matching) + 1 /\ Cardinality(matching \cup {st}) \in Nat
            BY <5>2, OneMore
          <6>3. Cardinality(SameIn(nrlContent', y)) <= limit
            <7>1. ~(Cardinality(matching) >= limit)
              BY <5>3
            <7>2. limit \in Int
              BY <1>0 DEF limit
            <7> HIDE DEF card
            <7> QED
              BY <5>2, <6>1, <6>2, <7>1, <7>2
          <6> HIDE DEF card
          <6> QED
            BY <1>0, <3>1, <3>3, <6>3 DEF Within, limit
        <5>4. CASE nrlContent' = (nrlContent \ matching) \cup {st}
          <6>1. SameIn(nrlContent', y) = {st}
            BY <5>1, <5>4
          <6> QED
            BY <6>1, OneIsWithin
        <5>5. CASE nrlContent' = nrlContent
          BY <5>5 DEF SameIn
        <5> QED
          BY <3>3, <5>1, <5>3, <5>4, <5>5 DEF AddLimited
      <4> QED
        BY <4>1, <4>2
    <3>4. CASE card.c < 1 /\ card.max < 1
      <4> HIDE DEF card
      <4> QED
        BY <1>0, <3>1, <3>4 DEF Within
    <3>5. CASE nrlContent' = nrlContent
      BY <3>5 DEF SameIn
    <3> QED
      BY <1>1, <3>2, <3>3, <3>4, <3>5
  <2> QED
    BY <2>1, <2>2
<1> QED
  BY <1>3, <1>4, <1>5
-----------------------------------------------------------------------------
LEMMA GraphPair ==
  ASSUME NEW pair \in NrlGraphs
  PROVE  /\ IsNode(pair[1]) /\ IsNode(pair[2]) /\ pair[1] # pair[2]
         /\ ~IsEmpty(pair[1]) /\ ~IsEmpty(pair[2])
         /\ \A other \in NrlGraphs : /\ pair[1] # other[2] /\ pair[2] # other[1]
                                     /\ pair # other => pair[1] # other[1] /\ pair[2] # other[2]
BY NrlGraphsAssumption DEF IsResource, IsEmpty

LEMMA CreateGraphInv ==
  ASSUME NrlInv, NEW pair \in NrlGraphs, createGraph(pair[1], pair[2])
  PROVE  NrlInv'
<1> USE DEF NrlInv
<1> DEFINE g == pair[1]
           mg == pair[2]
           new == {Statement(mg, CoreGraphMetadataFor, g, mg),
                   Statement(mg, NrlUri("rdf:type"), NrlUri("nrl:GraphMetadata"), mg),
                   Statement(g, NrlUri("rdf:type"), NrlUri("nrl:InstanceBase"), mg),
                   Statement(g, NrlUri("nao:created"), Literal(<<"now">>), mg)}
<1>1. /\ nrlContent' = nrlContent \cup new /\ ignoreContext' = ignoreContext
      /\ \A st \in nrlContent : st.s # g /\ st.s # mg
  BY DEF createGraph
<1>2. \A x \in new : x.s \in {g, mg} /\ x.c = mg
  BY DEF Statement
<1>3. \A x, y \in new : x.s = y.s /\ x.p = y.p => x = y
  <2>1. CoreGraphMetadataFor # NrlUri("rdf:type") /\ NrlUri("rdf:type") # NrlUri("nao:created")
    BY UrisDiffer DEF CoreGraphMetadataFor, NrlUri
  <2> QED
    BY <2>1, GraphPair DEF Statement
<1>4. NrlTypeOK'
  <2>1. \A st \in new : IsStatement(st)
    <3>1. ASSUME NEW s, NEW p, NEW o, NEW c, IsNode(s), IsNode(p), IsNode(o), IsNode(c)
          PROVE  IsStatement(Statement(s, p, o, c))
      BY <3>1 DEF Statement, IsStatement
    <3>2. /\ IsNode(CoreGraphMetadataFor) /\ \A u : IsNode(NrlUri(u))
          /\ IsNode(Literal(<<"now">>))
      <4>1. \A u : IsNode(NrlUri(u))
        BY Uris DEF NrlUri
      <4> QED
        BY <4>1, LiteralNodes DEF CoreGraphMetadataFor
    <3>3. IsNode(g) /\ IsNode(mg)
      BY GraphPair
    <3> HIDE DEF g, mg
    <3> QED
      BY <3>1, <3>2, <3>3
  <2>2. IsFiniteSet(new)
    BY FourAreFinite
  <2> QED
    BY <1>1, <2>1, <2>2, FS_Union DEF NrlTypeOK
<1> HIDE DEF new
<1>5. CardinalityKept'
  <2> SUFFICES ASSUME NEW y \in nrlContent', y.p \in DOMAIN Restrictions
               PROVE  SameIn(nrlContent', y) \subseteq nrlContent \/ Within(y.p, SameIn(nrlContent', y))
    BY <1>1, CardinalitiesStay
  <2>1. CASE y \in nrlContent
    BY <1>1, <1>2, <2>1 DEF SameIn
  <2>2. CASE y \in new
    <3>1. SameIn(nrlContent', y) = {y}
      BY <1>1, <1>2, <1>3, <2>2 DEF SameIn
    <3> QED
      BY <3>1, OneIsWithin
  <2> QED
    BY <1>1, <2>1, <2>2
<1>6. SaidInMetadata'
  BY <1>1, <1>2, GraphPair DEF SaidInMetadata
<1>7. MetadataWhole'
  <2> SUFFICES ASSUME NEW other \in NrlGraphs, NEW x \in nrlContent', x.c = other[2] \/ x.s = other[1]
               PROVE  /\ CoreStatement(other) \in nrlContent' /\ CoreStatement(other).c = other[2]
    BY DEF MetadataWhole, CoreStatement
  <2>1. CoreStatement(other).c = other[2]
    BY DEF CoreStatement, Statement
  <2>2. CASE other = pair
    BY <1>1, <2>1, <2>2 DEF CoreStatement, new
  <2>3. CASE other # pair
    <3>1. x \in nrlContent
      BY <1>1, <1>2, <2>3, GraphPair
    <3>2. CoreStatement(other) \in nrlContent
      BY <3>1 DEF MetadataWhole, CoreStatement
    <3> QED
      BY <1>1, <2>1, <3>2
  <2> QED
    BY <2>2, <2>3
<1> QED
  BY <1>4, <1>5, <1>6, <1>7

\* A metadata graph goes as a whole, and with it all that is said of its graph.
LEMMA RemoveGraphInv ==
  ASSUME NrlInv, NEW pair \in NrlGraphs, nrlRemoveAllStatements(InContext(pair[1]))
  PROVE  NrlInv'
<1> USE DEF NrlInv
<1>1. removeGraph(pair[1])
  BY EmptyNode, GraphPair DEF nrlRemoveAllStatements, InContext, Statement
<1>2. PICK gone : nrlContent' = {x \in nrlContent : x.c \notin gone} /\ ignoreContext' = ignoreContext
  BY <1>1 DEF removeGraph
<1>3. NrlTypeOK'
  BY <1>2, FS_Subset DEF NrlTypeOK
<1>4. CardinalityKept'
  <2>1. \A x \in nrlContent' : SameIn(nrlContent', x) \subseteq nrlContent
    BY <1>2 DEF SameIn
  <2> QED
    BY <1>2, <2>1, CardinalitiesStay
<1>5. SaidInMetadata'
  BY <1>2 DEF SaidInMetadata
<1>6. MetadataWhole'
  <2> SUFFICES ASSUME NEW other \in NrlGraphs, NEW x \in nrlContent', x.c = other[2] \/ x.s = other[1]
               PROVE  /\ CoreStatement(other) \in nrlContent' /\ CoreStatement(other).c = other[2]
    BY DEF MetadataWhole, CoreStatement
  <2>1. CoreStatement(other).c = other[2]
    BY DEF CoreStatement, Statement
  <2>2. x \in nrlContent /\ x.c = other[2] /\ other[2] \notin gone
    BY <1>2 DEF SaidInMetadata
  <2>3. CoreStatement(other) \in nrlContent
    BY <2>2 DEF MetadataWhole, CoreStatement
  <2> QED
    BY <1>2, <2>1, <2>2, <2>3
<1> QED
  BY <1>3, <1>4, <1>5, <1>6
-----------------------------------------------------------------------------
LEMMA NrlInitInv == NrlInit => NrlInv
<1> SUFFICES ASSUME NrlInit PROVE NrlInv
  OBVIOUS
<1>1. NrlTypeOK
  BY FS_EmptySet DEF NrlInit, NrlTypeOK
<1>2. CardinalityKept /\ SaidInMetadata /\ MetadataWhole
  BY DEF NrlInit, CardinalityKept, SaidInMetadata, MetadataWhole
<1> QED
  BY <1>1, <1>2 DEF NrlInv

LEMMA NrlStepInv == NrlInv /\ [NrlNext]_nrlVars => NrlInv'
<1> SUFFICES ASSUME NrlInv, [NrlNext]_nrlVars PROVE NrlInv'
  OBVIOUS
<1>1. ASSUME nrlContent' = nrlContent, ignoreContext' = ignoreContext PROVE NrlInv'
  BY <1>1 DEF NrlInv, NrlTypeOK, CardinalityKept, SaidInMetadata, MetadataWhole
<1>2. ASSUME NEW b \in BOOLEAN, setIgnoreContext(b) PROVE NrlInv'
  BY <1>2, FS_EmptySet DEF setIgnoreContext, NrlInv, NrlTypeOK, CardinalityKept, SaidInMetadata, MetadataWhole
<1>3. ASSUME NEW b \in BOOLEAN, setEnableQueryPrefixExpansion(b) PROVE NrlInv'
  BY <1>1, <1>3 DEF setEnableQueryPrefixExpansion
<1>4. ASSUME NEW p \in StoredPrefixes, storeOntology(p) PROVE NrlInv'
  BY <1>1, <1>4 DEF storeOntology
<1>5. ASSUME NEW d, nrlExecuteQuery(QueryPrefix, d) PROVE NrlInv'
  BY <1>1, <1>5 DEF nrlExecuteQuery
<1>6. CASE UNCHANGED nrlVars
  BY <1>1, <1>6 DEF nrlVars
<1> QED
  BY <1>2, <1>3, <1>4, <1>5, <1>6, NrlAddInv, NrlRemoveInv, CreateGraphInv, RemoveGraphInv DEF NrlNext

(***************************************************************************)
(* Whatever is added and removed, in whatever graphs, no property has more *)
(* values than NRL allows it, as far as the code counts them, and metadata *)
(* goes with its graph (addNrlStatement, createGraph, removeGraph,         *)
(* removeAllStatements).                                                   *)
(***************************************************************************)
THEOREM NrlStaysKept == NrlInit /\ [][NrlNext]_nrlVars => []NrlKept
<1>1. NrlInv => NrlKept
  BY DEF NrlInv, NrlKept
<1> QED
  BY NrlInitInv, NrlStepInv, <1>1, PTL
-----------------------------------------------------------------------------
(***************************************************************************)
(* IndexFilterModel.  An index is what a query would find of it: the       *)
(* document of each subject, wherever it waits (the cache of the open      *)
(* transaction, the writer, the disk).  Opening and closing readers,       *)
(* writers and searchers, and committing, keep every document.             *)
(***************************************************************************)
Subjects == {st.s : st \in IxStatements}
Fields == {<<st.p, st.o>> : st \in IxStatements}
Docs == UNION {[S -> SUBSET Fields] : S \in SUBSET Subjects}

IxStates ==
  [present : BOOLEAN, disk : Docs, deleted : SUBSET Subjects, written : Docs, reader : BOOLEAN,
   writer : BOOLEAN, searcher : [open : BOOLEAN, docs : Docs], cache : Docs, transactionID : {0, 1}]

\* The index between two calls of CLucene
IxOK(i) ==
  /\ i \in IxStates
  /\ i.writer => ~i.reader /\ ~i.searcher.open
  /\ ~i.writer => i.written = NoDocs
  /\ ~i.reader => i.deleted = {}
  /\ ~i.present => i.disk = NoDocs /\ ~i.reader /\ ~i.writer
  /\ i.searcher.open => i.searcher.docs = i.disk

\* The document of a subject, as CLucene has it and with the cache above it
BelowCache(i, s) ==
  IF s \in DOMAIN i.written THEN i.written[s]
  ELSE IF s \in DOMAIN i.disk \ i.deleted THEN i.disk[s] ELSE {}
Doc(i, s) == IF s \in DOMAIN i.cache THEN i.cache[s] ELSE BelowCache(i, s)

\* Opening and closing readers, writers and searchers keeps every document.
Keeps(i, j) ==
  /\ IxOK(j)
  /\ j.cache = i.cache /\ j.transactionID = i.transactionID /\ (i.present => j.present)
  /\ \A s : BelowCache(j, s) = BelowCache(i, s)

LEMMA DocsAre ==
  ASSUME NEW f
  PROVE  f \in Docs <=> /\ f = [s \in DOMAIN f |-> f[s]] /\ DOMAIN f \subseteq Subjects
                        /\ \A s \in DOMAIN f : f[s] \subseteq Fields
<1>1. f \in Docs => /\ f = [s \in DOMAIN f |-> f[s]] /\ DOMAIN f \subseteq Subjects
                    /\ \A s \in DOMAIN f : f[s] \subseteq Fields
  BY DEF Docs
<1>2. ASSUME f = [s \in DOMAIN f |-> f[s]], DOMAIN f \subseteq Subjects, \A s \in DOMAIN f : f[s] \subseteq Fields
      PROVE  f \in Docs
  <2>1. f \in [DOMAIN f -> SUBSET Fields]
    BY <1>2
  <2> QED
    BY <1>2, <2>1 DEF Docs
<1> QED
  BY <1>1, <1>2

LEMMA NoDocsAre == NoDocs \in Docs /\ DOMAIN NoDocs = {} /\ \A f \in Docs : DOMAIN f = {} => f = NoDocs
<1>1. NoDocs \in Docs /\ DOMAIN NoDocs = {}
  BY DocsAre DEF NoDocs
<1>2. ASSUME NEW f \in Docs, DOMAIN f = {} PROVE f = NoDocs
  BY <1>2, DocsAre DEF NoDocs
<1> QED
  BY <1>1, <1>2

LEMMA MergedDocs ==
  ASSUME NEW f \in Docs, NEW g \in Docs
  PROVE  /\ Merged(f, g) \in Docs /\ DOMAIN Merged(f, g) = DOMAIN f \cup DOMAIN g
         /\ \A s \in DOMAIN f \cup DOMAIN g : Merged(f, g)[s] = IF s \in DOMAIN g THEN g[s] ELSE f[s]
<1>1. /\ DOMAIN Merged(f, g) = DOMAIN f \cup DOMAIN g
      /\ \A s \in DOMAIN f \cup DOMAIN g : Merged(f, g)[s] = IF s \in DOMAIN g THEN g[s] ELSE f[s]
      /\ Merged(f, g) = [s \in DOMAIN Merged(f, g) |-> Merged(f, g)[s]]
  BY DEF Merged
<1>2. /\ DOMAIN f \subseteq Subjects /\ \A s \in DOMAIN f : f[s] \subseteq Fields
      /\ DOMAIN g \subseteq Subjects /\ \A s \in DOMAIN g : g[s] \subseteq Fields
  BY DocsAre
<1>3. Merged(f, g) \in Docs
  BY <1>1, <1>2, DocsAre
<1> QED
  BY <1>1, <1>3

LEMMA WithoutDocs ==
  ASSUME NEW f \in Docs, NEW S
  PROVE  /\ Without(f, S) \in Docs /\ DOMAIN Without(f, S) = DOMAIN f \ S
         /\ \A s \in DOMAIN f \ S : Without(f, S)[s] = f[s]
<1>1. /\ DOMAIN Without(f, S) = DOMAIN f \ S
      /\ \A s \in DOMAIN f \ S : Without(f, S)[s] = f[s]
      /\ Without(f, S) = [s \in DOMAIN Without(f, S) |-> Without(f, S)[s]]
  BY DEF Without
<1>2. DOMAIN f \subseteq Subjects /\ \A s \in DOMAIN f : f[s] \subseteq Fields
  BY DocsAre
<1>3. Without(f, S) \in Docs
  BY <1>1, <1>2, DocsAre
<1> QED
  BY <1>1, <1>3
-----------------------------------------------------------------------------
LEMMA ReaderClosed ==
  ASSUME NEW i, IxOK(i)
  PROVE  /\ Keeps(i, CloseReader(i)) /\ ~CloseReader(i).reader /\ ~CloseReader(i).searcher.open
         /\ CloseReader(i).writer = i.writer /\ CloseReader(i).present = i.present
<1> DEFINE j == CloseReader(i)
<1>1. /\ i \in IxStates /\ i.disk \in Docs
      /\ Without(i.disk, i.deleted) \in Docs /\ DOMAIN Without(i.disk, i.deleted) = DOMAIN i.disk \ i.deleted
      /\ \A s \in DOMAIN i.disk \ i.deleted : Without(i.disk, i.deleted)[s] = i.disk[s]
      /\ NoView \in [open : BOOLEAN, docs : Docs] /\ ~NoView.open
  <2>1. i \in IxStates /\ i.disk \in Docs
    BY DEF IxOK, IxStates
  <2>2. NoView \in [open : BOOLEAN, docs : Docs] /\ ~NoView.open
    BY NoDocsAre DEF NoView
  <2> QED
    BY <2>1, <2>2, WithoutDocs
<1>2. /\ j \in IxStates /\ j.present = i.present /\ j.disk = Without(i.disk, i.deleted) /\ j.deleted = {}
      /\ j.written = i.written /\ j.reader = FALSE /\ j.writer = i.writer /\ j.searcher = NoView
      /\ j.cache = i.cache /\ j.transactionID = i.transactionID
  BY <1>1 DEF CloseReader, IxStates
<1>3. i.disk = NoDocs => j.disk = NoDocs
  BY <1>1, <1>2, NoDocsAre
<1>4. IxOK(j)
  BY <1>1, <1>2, <1>3 DEF IxOK
<1>5. \A s : BelowCache(j, s) = BelowCache(i, s)
  BY <1>1, <1>2 DEF BelowCache
<1> QED
  BY <1>1, <1>2, <1>4, <1>5 DEF Keeps

LEMMA WriterClosed ==
  ASSUME NEW i, IxOK(i)
  PROVE  /\ Keeps(i, CloseWriter(i)) /\ ~CloseWriter(i).writer
         /\ CloseWriter(i).reader = i.reader /\ CloseWriter(i).present = i.present
         /\ CloseWriter(i).searcher = i.searcher
<1> DEFINE j == CloseWriter(i)
<1>1. /\ i \in IxStates /\ i.disk \in Docs /\ i.written \in Docs /\ NoDocs \in Docs
      /\ Merged(i.disk, i.written) \in Docs /\ DOMAIN Merged(i.disk, i.written) = DOMAIN i.disk \cup DOMAIN i.written
      /\ \A s \in DOMAIN i.disk \cup DOMAIN i.written :
           Merged(i.disk, i.written)[s] = IF s \in DOMAIN i.written THEN i.written[s] ELSE i.disk[s]
  <2>1. i \in IxStates /\ i.disk \in Docs /\ i.written \in Docs
    BY DEF IxOK, IxStates
  <2> QED
    BY <2>1, NoDocsAre, MergedDocs
<1>2. /\ j \in IxStates /\ j.present = i.present /\ j.disk = Merged(i.disk, i.written) /\ j.deleted = i.deleted
      /\ j.written = NoDocs /\ j.reader = i.reader /\ j.writer = FALSE /\ j.searcher = i.searcher
      /\ j.cache = i.cache /\ j.transactionID = i.transactionID
  BY <1>1 DEF CloseWriter, IxStates
<1>3. DOMAIN i.disk = {} /\ DOMAIN i.written = {} => j.disk = NoDocs
  BY <1>1, <1>2, NoDocsAre
<1>4. IxOK(j)
  <2>1. i.searcher.open => j.disk = i.disk
    <3>1. DOMAIN i.written = {} => Merged(i.disk, i.written) = [s \in DOMAIN i.disk |-> i.disk[s]]
      BY DEF Merged
    <3>2. i.disk = [s \in DOMAIN i.disk |-> i.disk[s]]
      BY <1>1 DEF Docs
    <3> QED
      BY <1>2, <3>1, <3>2, NoDocsAre DEF IxOK
  <2> QED
    BY <1>1, <1>2, <1>3, <2>1, NoDocsAre DEF IxOK
<1>5. DOMAIN i.written # {} => i.deleted = {}
  BY NoDocsAre DEF IxOK
<1>6. \A s : BelowCache(j, s) = BelowCache(i, s)
  BY <1>1, <1>2, <1>5, NoDocsAre DEF BelowCache
<1> QED
  BY <1>1, <1>2, <1>4, <1>6 DEF Keeps

LEMMA ReaderOpened ==
  ASSUME NEW i, IxOK(i), i.present
  PROVE  /\ Keeps(i, GetIndexReader(i)) /\ GetIndexReader(i).reader /\ ~GetIndexReader(i).writer
         /\ GetIndexReader(i).present
<1>1. CASE i.reader
  BY <1>1 DEF GetIndexReader, Keeps, IxOK
<1>2. CASE ~i.reader
  <2> DEFINE c == CloseWriter(i)
             j == [c EXCEPT !.reader = TRUE]
  <2>1. Keeps(i, c) /\ ~c.writer /\ c.present
    BY WriterClosed
  <2> HIDE DEF c
  <2>2. /\ j \in IxStates /\ j.present = c.present /\ j.disk = c.disk /\ j.deleted = c.deleted
        /\ j.written = c.written /\ j.reader = TRUE /\ j.writer = c.writer /\ j.searcher = c.searcher
        /\ j.cache = c.cache /\ j.transactionID = c.transactionID
    BY <2>1 DEF Keeps, IxOK, IxStates
  <2>3. IxOK(j)
    BY <2>1, <2>2 DEF IxOK, Keeps
  <2>4. \A s : BelowCache(j, s) = BelowCache(c, s)
    BY <2>2 DEF BelowCache
  <2>5. GetIndexReader(i) = j
    BY <1>2 DEF GetIndexReader, c
  <2> HIDE DEF j
  <2> QED
    BY <2>1, <2>2, <2>3, <2>4, <2>5 DEF Keeps
<1> QED
  BY <1>1, <1>2

LEMMA WriterOpened ==
  ASSUME NEW i, IxOK(i)
  PROVE  /\ Keeps(i, GetIndexWriter(i)) /\ GetIndexWriter(i).writer /\ GetIndexWriter(i).present
         /\ ~i.writer => GetIndexWriter(i).written = NoDocs
<1>1. CASE i.writer
  BY <1>1 DEF GetIndexWriter, Keeps, IxOK
<1>2. CASE ~i.writer
  <2> DEFINE c == CloseReader(i)
             j == [c EXCEPT !.writer = TRUE, !.present = TRUE]
  <2>1. Keeps(i, c) /\ ~c.reader /\ ~c.searcher.open /\ ~c.writer
    BY <1>2, ReaderClosed
  <2> HIDE DEF c
  <2>2. /\ j \in IxStates /\ j.present = TRUE /\ j.disk = c.disk /\ j.deleted = c.deleted
        /\ j.written = c.written /\ j.reader = c.reader /\ j.writer = TRUE /\ j.searcher = c.searcher
        /\ j.cache = c.cache /\ j.transactionID = c.transactionID
    BY <2>1 DEF Keeps, IxOK, IxStates
  <2>3. IxOK(j)
    BY <2>1, <2>2 DEF IxOK, Keeps
  <2>4. \A s : BelowCache(j, s) = BelowCache(c, s)
    BY <2>2 DEF BelowCache
  <2>5. GetIndexWriter(i) = j
    BY <1>2 DEF GetIndexWriter, c
  <2>6. c.written = NoDocs
    BY <2>1 DEF Keeps, IxOK
  <2> HIDE DEF j
  <2> QED
    BY <2>1, <2>2, <2>3, <2>4, <2>5, <2>6 DEF Keeps
<1> QED
  BY <1>1, <1>2

LEMMA SearcherOpened ==
  ASSUME NEW i, IxOK(i), i.present
  PROVE  Keeps(i, GetIndexSearcher(i))
<1>1. CASE i.searcher.open
  BY <1>1 DEF GetIndexSearcher, Keeps
<1>2. CASE ~i.searcher.open
  <2> DEFINE c == CloseWriter(i)
             j == [c EXCEPT !.searcher = [open |-> TRUE, docs |-> c.disk]]
  <2>1. Keeps(i, c) /\ ~c.writer
    BY WriterClosed
  <2> HIDE DEF c
  <2>2. /\ j \in IxStates /\ j.present = c.present /\ j.disk = c.disk /\ j.deleted = c.deleted
        /\ j.written = c.written /\ j.reader = c.reader /\ j.writer = c.writer
        /\ j.cache = c.cache /\ j.transactionID = c.transactionID
    BY <2>1 DEF Keeps, IxOK, IxStates
  <2>3. IxOK(j)
    BY <2>1, <2>2 DEF IxOK, Keeps
  <2>4. \A s : BelowCache(j, s) = BelowCache(c, s)
    BY <2>2 DEF BelowCache
  <2>5. GetIndexSearcher(i) = j
    BY <1>2 DEF GetIndexSearcher, c
  <2> HIDE DEF j
  <2> QED
    BY <2>1, <2>2, <2>3, <2>4, <2>5 DEF Keeps
<1> QED
  BY <1>1, <1>2
-----------------------------------------------------------------------------
LEMMA OneDoc ==
  ASSUME NEW s \in Subjects, NEW d \in SUBSET Fields
  PROVE  [t \in {s} |-> d] \in Docs
BY DocsAre

LEMMA BelowCacheIsDoc ==
  ASSUME NEW i, IxOK(i), NEW s
  PROVE  BelowCache(i, s) \in SUBSET Fields
<1>1. i.written \in Docs /\ i.disk \in Docs
  BY DEF IxOK, IxStates
<1> QED
  BY <1>1, DocsAre DEF BelowCache

LEMMA DocIsDoc ==
  ASSUME NEW i, IxOK(i), NEW s
  PROVE  Doc(i, s) \in SUBSET Fields
<1>1. i.cache \in Docs
  BY DEF IxOK, IxStates
<1> QED
  BY <1>1, DocsAre, BelowCacheIsDoc DEF Doc

LEMMA DocumentCached ==
  ASSUME NEW i, IxOK(i), NEW s \in Subjects
  PROVE  /\ IxOK(GetDocument(i, s)) /\ GetDocument(i, s).transactionID = i.transactionID
         /\ GetDocument(i, s).present = i.present
         /\ DOMAIN GetDocument(i, s).cache = DOMAIN i.cache \cup {s}
         /\ \A t : Doc(GetDocument(i, s), t) = Doc(i, t)
<1> DEFINE j == GetDocument(i, s)
<1>1. CASE s \in DOMAIN i.cache
  <2>1. GetDocument(i, s) = i /\ DOMAIN i.cache \cup {s} = DOMAIN i.cache
    BY <1>1 DEF GetDocument
  <2> QED
    BY <2>1
<1>2. CASE s \notin DOMAIN i.cache
  <2> DEFINE read == IF i.present THEN GetIndexReader(i) ELSE i
             old == IF s \in DOMAIN read.disk \ read.deleted THEN read.disk[s] ELSE {}
             one == [t \in {s} |-> old]
  <2>1. Keeps(i, read) /\ ~read.writer /\ read.present = i.present
    <3>1. CASE i.present
      <4>1. Keeps(i, read) /\ ~read.writer /\ read.present
        BY <3>1, ReaderOpened
      <4> QED
        BY <3>1, <4>1 DEF Keeps, IxOK, IxStates
    <3>2. CASE ~i.present
      BY <3>2 DEF Keeps, IxOK
    <3> QED
      BY <3>1, <3>2
  <2> HIDE DEF read
  <2>2. read \in IxStates /\ read.written = NoDocs /\ read.cache \in Docs /\ read.cache = i.cache
    BY <2>1 DEF Keeps, IxOK, IxStates
  <2>3. old = BelowCache(read, s)
    <3>1. DOMAIN read.written = {}
      BY <2>2, NoDocsAre
    <3> QED
      BY <3>1 DEF BelowCache
  <2> HIDE DEF old
  <2>4. one \in Docs /\ DOMAIN one = {s} /\ one[s] = old
    BY <2>1, <2>3, BelowCacheIsDoc, OneDoc DEF Keeps
  <2> HIDE DEF one
  <2>5. /\ Merged(read.cache, one) \in Docs /\ DOMAIN Merged(read.cache, one) = DOMAIN i.cache \cup {s}
        /\ \A t \in DOMAIN i.cache \cup {s} : Merged(read.cache, one)[t] = IF t = s THEN old ELSE i.cache[t]
    <3>1. /\ Merged(read.cache, one) \in Docs /\ DOMAIN Merged(read.cache, one) = DOMAIN read.cache \cup DOMAIN one
          /\ \A t \in DOMAIN read.cache \cup DOMAIN one :
               Merged(read.cache, one)[t] = IF t \in DOMAIN one THEN one[t] ELSE read.cache[t]
      BY <2>2, <2>4, MergedDocs
    <3> QED
      BY <2>2, <2>4, <3>1
  <2>6. j = [read EXCEPT !.cache = Merged(@, one)]
    BY <1>2 DEF GetDocument, read, old, one
  <2> HIDE DEF j
  <2>7. /\ j \in IxStates /\ j.present = read.present /\ j.disk = read.disk /\ j.deleted = read.deleted
        /\ j.written = read.written /\ j.reader = read.reader /\ j.writer = read.writer
        /\ j.searcher = read.searcher
        /\ j.cache = Merged(read.cache, one) /\ j.transactionID = read.transactionID
    BY <2>2, <2>5, <2>6 DEF IxStates
  <2>8. IxOK(j)
    BY <2>1, <2>7 DEF Keeps, IxOK
  <2>9. \A t : BelowCache(j, t) = BelowCache(i, t)
    BY <2>1, <2>7 DEF Keeps, BelowCache
  <2>10. ASSUME NEW t PROVE Doc(j, t) = Doc(i, t)
    <3>1. old = BelowCache(i, s) /\ BelowCache(j, t) = BelowCache(i, t)
      BY <2>1, <2>3, <2>9 DEF Keeps
    <3>2. DOMAIN j.cache = DOMAIN i.cache \cup {s} /\ \A x \in DOMAIN i.cache \cup {s} : j.cache[x] = IF x = s THEN old ELSE i.cache[x]
      BY <2>5, <2>7
    <3> QED
      BY <1>2, <3>1, <3>2 DEF Doc
  <2>11. GetDocument(i, s) = j
    BY DEF j
  <2> QED
    BY <2>1, <2>5, <2>7, <2>8, <2>10, <2>11 DEF Keeps
<1> QED
  BY <1>1, <1>2

LEMMA Committing ==
  ASSUME NEW i, IxOK(i)
  PROVE  /\ IxOK(Commit(i)) /\ Commit(i).cache = NoDocs /\ Commit(i).transactionID = i.transactionID
         /\ (i.present => Commit(i).present) /\ \A t : Doc(Commit(i), t) = Doc(i, t)
<1> DEFINE read == GetIndexReader(i)
           deleting == IF i.present /\ DOMAIN i.cache # {}
                       THEN [read EXCEPT !.deleted = @ \cup (DOMAIN i.cache \cap DOMAIN read.disk)] ELSE i
           full == {s \in DOMAIN i.cache : ~DocEmpty(i.cache[s])}
           docs == [s \in full |-> i.cache[s]]
           writing == GetIndexWriter(deleting)
           adding == IF full = {} THEN deleting ELSE [writing EXCEPT !.written = Merged(@, docs)]
           j == [adding EXCEPT !.cache = NoDocs]
<1>0. Commit(i) = j
  BY DEF Commit
<1>1. i.cache \in Docs /\ DOMAIN i.cache \subseteq Subjects /\ \A s \in DOMAIN i.cache : i.cache[s] \in SUBSET Fields
  BY DocsAre DEF IxOK, IxStates
<1>2. /\ IxOK(deleting) /\ deleting.cache = i.cache /\ deleting.transactionID = i.transactionID
      /\ deleting.present = i.present /\ (DOMAIN i.cache # {} => ~deleting.writer)
      /\ \A t : BelowCache(deleting, t) = IF t \in DOMAIN i.cache THEN {} ELSE BelowCache(i, t)
  <2>1. CASE i.present /\ DOMAIN i.cache # {}
    <3>1. Keeps(i, read) /\ read.reader /\ ~read.writer /\ read.present
      BY <2>1, ReaderOpened
    <3> HIDE DEF read
    <3>2. /\ read \in IxStates /\ read.written = NoDocs /\ DOMAIN read.written = {}
          /\ read.deleted \cup (DOMAIN i.cache \cap DOMAIN read.disk) \in SUBSET Subjects
      BY <1>1, <3>1, NoDocsAre DEF Keeps, IxOK, IxStates
    <3>3. deleting = [read EXCEPT !.deleted = @ \cup (DOMAIN i.cache \cap DOMAIN read.disk)]
      BY <2>1
    <3> HIDE DEF deleting
    <3>4. /\ deleting \in IxStates /\ deleting.present = read.present /\ deleting.disk = read.disk
          /\ deleting.deleted = read.deleted \cup (DOMAIN i.cache \cap DOMAIN read.disk)
          /\ deleting.written = read.written /\ deleting.reader = read.reader
          /\ deleting.writer = read.writer /\ deleting.searcher = read.searcher
          /\ deleting.cache = read.cache /\ deleting.transactionID = read.transactionID
      BY <3>2, <3>3 DEF IxStates
    <3>5. IxOK(deleting)
      BY <3>1, <3>4 DEF Keeps, IxOK
    <3>6. \A t : BelowCache(deleting, t) = IF t \in DOMAIN i.cache THEN {} ELSE BelowCache(read, t)
      BY <3>2, <3>4 DEF BelowCache
    <3> QED
      BY <2>1, <3>1, <3>4, <3>5, <3>6 DEF Keeps
  <2>2. CASE ~i.present
    <3>1. DOMAIN i.written = {} /\ DOMAIN i.disk = {} /\ ~i.writer
      BY <2>2, NoDocsAre DEF IxOK
    <3>2. deleting = i
      BY <2>2
    <3>3. \A t : BelowCache(i, t) = {}
      BY <3>1 DEF BelowCache
    <3> HIDE DEF deleting
    <3> QED
      BY <3>1, <3>2, <3>3
  <2>3. CASE DOMAIN i.cache = {}
    BY <2>3
  <2> QED
    BY <2>1, <2>2, <2>3
<1>3. full \subseteq DOMAIN i.cache /\ \A s \in DOMAIN i.cache : s \notin full => i.cache[s] = {}
  BY DEF DocEmpty
<1>4. docs \in Docs /\ DOMAIN docs = full /\ \A s \in full : docs[s] = i.cache[s]
  <2>1. docs = [s \in DOMAIN docs |-> docs[s]] /\ DOMAIN docs = full /\ \A s \in full : docs[s] = i.cache[s]
    OBVIOUS
  <2>2. DOMAIN docs \subseteq Subjects /\ \A s \in DOMAIN docs : docs[s] \subseteq Fields
    BY <1>1, <1>3, <2>1
  <2> HIDE DEF docs
  <2> QED
    BY <2>1, <2>2, DocsAre
<1> HIDE DEF deleting, full, docs
<1>5. /\ IxOK(adding) /\ adding.cache = i.cache /\ adding.transactionID = i.transactionID
      /\ (i.present => adding.present)
      /\ \A t : BelowCache(adding, t) = Doc(i, t)
  <2>1. CASE full = {}
    <3>1. adding = deleting
      BY <2>1
    <3>2. \A s \in DOMAIN i.cache : i.cache[s] = {}
      BY <1>3, <2>1
    <3> HIDE DEF adding
    <3> QED
      BY <1>2, <3>1, <3>2 DEF Doc
  <2>2. CASE full # {}
    <3>1. /\ Keeps(deleting, writing) /\ writing.writer /\ writing.present /\ writing.written = NoDocs
      BY <1>2, <1>3, <2>2, WriterOpened
    <3> HIDE DEF writing
    <3>2. writing \in IxStates /\ writing.written \in Docs /\ DOMAIN writing.written = {}
      BY <3>1, NoDocsAre DEF Keeps, IxOK, IxStates
    <3>3. /\ Merged(writing.written, docs) \in Docs /\ DOMAIN Merged(writing.written, docs) = full
          /\ \A s \in full : Merged(writing.written, docs)[s] = i.cache[s]
      <4>1. /\ Merged(writing.written, docs) \in Docs
            /\ DOMAIN Merged(writing.written, docs) = DOMAIN writing.written \cup DOMAIN docs
            /\ \A s \in DOMAIN writing.written \cup DOMAIN docs :
                 Merged(writing.written, docs)[s] = IF s \in DOMAIN docs THEN docs[s] ELSE writing.written[s]
        BY <1>4, <3>2, MergedDocs
      <4> QED
        BY <1>4, <3>2, <4>1
    <3>4. adding = [writing EXCEPT !.written = Merged(@, docs)]
      BY <2>2
    <3> HIDE DEF adding
    <3>5. /\ adding \in IxStates /\ adding.present = writing.present /\ adding.disk = writing.disk
          /\ adding.deleted = writing.deleted
          /\ adding.written = Merged(writing.written, docs) /\ adding.reader = writing.reader
          /\ adding.writer = writing.writer /\ adding.searcher = writing.searcher
          /\ adding.cache = writing.cache /\ adding.transactionID = writing.transactionID
      BY <3>2, <3>3, <3>4 DEF IxStates
    <3>6. IxOK(adding)
      BY <3>1, <3>5 DEF Keeps, IxOK
    <3>7. \A t : BelowCache(adding, t) = IF t \in full THEN i.cache[t] ELSE BelowCache(writing, t)
      BY <3>2, <3>3, <3>5 DEF BelowCache
    <3>8. \A t : BelowCache(writing, t) = IF t \in DOMAIN i.cache THEN {} ELSE BelowCache(i, t)
      BY <1>2, <3>1 DEF Keeps
    <3>9. \A t : BelowCache(adding, t) = Doc(i, t)
      BY <1>3, <3>7, <3>8 DEF Doc
    <3> QED
      BY <1>2, <3>1, <3>5, <3>6, <3>9 DEF Keeps
  <2> QED
    BY <2>1, <2>2
<1> HIDE DEF adding
<1>6. /\ j \in IxStates /\ j.present = adding.present /\ j.disk = adding.disk /\ j.deleted = adding.deleted
      /\ j.written = adding.written /\ j.reader = adding.reader /\ j.writer = adding.writer
      /\ j.searcher = adding.searcher /\ j.cache = NoDocs /\ j.transactionID = adding.transactionID
  BY <1>5, NoDocsAre DEF IxOK, IxStates
<1> HIDE DEF j
<1>7. IxOK(j)
  BY <1>5, <1>6 DEF IxOK
<1>8. \A t : Doc(j, t) = Doc(i, t)
  BY <1>5, <1>6, NoDocsAre DEF Doc, BelowCache
<1> QED
  BY <1>0, <1>5, <1>6, <1>7, <1>8
-----------------------------------------------------------------------------
\* A document waits in the cache only while a transaction is open.
Settled(i) == i.transactionID = 0 => i.cache = NoDocs
SameDocs(i, j) == \A s : Doc(j, s) = Doc(i, s)

\* The index between two operations, and one that has the same documents
Healthy(i) == IxOK(i) /\ Settled(i)
Follows(i, j) == Healthy(j) /\ (i.present => j.present) /\ SameDocs(i, j)

LEMMA IdsAre == \A i : IxOK(i) => i.transactionID \in {0, 1}
BY DEF IxOK, IxStates

LEMMA WithTransaction ==
  ASSUME NEW i, IxOK(i), NEW id \in {0, 1}
  PROVE  /\ IxOK([i EXCEPT !.transactionID = id]) /\ [i EXCEPT !.transactionID = id].cache = i.cache
         /\ [i EXCEPT !.transactionID = id].transactionID = id /\ [i EXCEPT !.transactionID = id].present = i.present
         /\ SameDocs(i, [i EXCEPT !.transactionID = id])
<1> DEFINE j == [i EXCEPT !.transactionID = id]
<1>1. /\ j \in IxStates /\ j.present = i.present /\ j.disk = i.disk /\ j.deleted = i.deleted
      /\ j.written = i.written /\ j.reader = i.reader /\ j.writer = i.writer
      /\ j.searcher = i.searcher /\ j.cache = i.cache /\ j.transactionID = id
  BY DEF IxOK, IxStates
<1> HIDE DEF j
<1>2. IxOK(j)
  BY <1>1 DEF IxOK
<1>3. SameDocs(i, j)
  BY <1>1 DEF SameDocs, Doc, BelowCache
<1>4. j = [i EXCEPT !.transactionID = id]
  BY DEF j
<1> QED
  BY <1>1, <1>2, <1>3, <1>4

LEMMA TransactionStarted ==
  ASSUME NEW i, Healthy(i)
  PROVE  Follows(i, StartTransaction(i)) /\ StartTransaction(i).transactionID = 1
         /\ StartTransaction(i).cache = i.cache /\ StartTransaction(i).present = i.present
<1>1. CASE i.transactionID = 0
  <2>1. StartTransaction(i) = [i EXCEPT !.transactionID = 1]
    BY <1>1 DEF StartTransaction
  <2> DEFINE j == [i EXCEPT !.transactionID = 1]
  <2>2. IxOK(j) /\ j.cache = i.cache /\ j.transactionID = 1 /\ j.present = i.present /\ SameDocs(i, j)
    BY WithTransaction DEF Healthy
  <2> HIDE DEF j
  <2>3. Follows(i, j)
    BY <2>2 DEF Follows, Healthy, Settled
  <2> QED
    BY <2>1, <2>2, <2>3 DEF j
<1>2. CASE i.transactionID = 1
  BY <1>2 DEF StartTransaction, Follows, SameDocs, Healthy
<1> QED
  BY <1>1, <1>2, IdsAre DEF Healthy

LEMMA TransactionClosed ==
  ASSUME NEW i, Healthy(i), NEW id \in {0, 1}
  PROVE  /\ Follows(i, CloseTransaction(i, id))
         /\ id # i.transactionID => CloseTransaction(i, id) = i
         /\ id = i.transactionID => CloseTransaction(i, id).transactionID = 0 /\ CloseTransaction(i, id).cache = NoDocs
<1>1. CASE id = i.transactionID /\ id = 1
  <2>1. CloseTransaction(i, id) = [Commit(i) EXCEPT !.transactionID = 0]
    BY <1>1 DEF CloseTransaction
  <2>2. IxOK(Commit(i)) /\ Commit(i).cache = NoDocs /\ (i.present => Commit(i).present) /\ SameDocs(i, Commit(i))
    BY Committing DEF Healthy, SameDocs
  <2> DEFINE c == Commit(i)
             j == [c EXCEPT !.transactionID = 0]
  <2> HIDE DEF c
  <2>3. IxOK(j) /\ j.cache = c.cache /\ j.transactionID = 0 /\ j.present = c.present /\ SameDocs(c, j)
    BY <2>2, WithTransaction DEF c
  <2>4. CloseTransaction(i, id) = j
    BY <2>1 DEF c
  <2> HIDE DEF j
  <2>5. Follows(i, j) /\ j.cache = NoDocs
    BY <2>2, <2>3 DEF Follows, Healthy, Settled, SameDocs, c
  <2> QED
    BY <1>1, <2>3, <2>4, <2>5
<1>2. CASE ~(id = i.transactionID /\ id = 1)
  <2>1. CloseTransaction(i, id) = i
    BY <1>2 DEF CloseTransaction
  <2> QED
    BY <1>2, <2>1 DEF Follows, SameDocs, Healthy, Settled
<1> QED
  BY <1>1, <1>2

LEMMA AutoCommitted ==
  ASSUME NEW i, IxOK(i)
  PROVE  Follows(i, AutoCommit(i)) /\ AutoCommit(i).transactionID = i.transactionID
<1>1. CASE i.transactionID = 0
  BY <1>1, Committing DEF AutoCommit, Follows, Healthy, Settled, SameDocs
<1>2. CASE i.transactionID # 0
  BY <1>2 DEF AutoCommit, Follows, Healthy, Settled, SameDocs
<1> QED
  BY <1>1, <1>2

\* The index with another document of a subject in the cache
Edited(i, s, doc) == [GetDocument(i, s) EXCEPT !.cache[s] = doc]

LEMMA DocumentChanged ==
  ASSUME NEW i, IxOK(i), NEW s \in Subjects, NEW doc \in SUBSET Fields
  PROVE  /\ IxOK(Edited(i, s, doc))
         /\ Edited(i, s, doc).transactionID = i.transactionID
         /\ Edited(i, s, doc).present = i.present
         /\ \A t : Doc(Edited(i, s, doc), t) = IF t = s THEN doc ELSE Doc(i, t)
<1> DEFINE got == GetDocument(i, s)
           j == [got EXCEPT !.cache[s] = doc]
           cache == [got.cache EXCEPT ![s] = doc]
<1>1. /\ IxOK(got) /\ got.transactionID = i.transactionID /\ got.present = i.present
      /\ s \in DOMAIN got.cache /\ \A t : Doc(got, t) = Doc(i, t)
  BY DocumentCached
<1>2. j = Edited(i, s, doc)
  BY DEF Edited
<1> HIDE DEF got
<1>3. got \in IxStates /\ got.cache \in Docs
  BY <1>1 DEF IxOK, IxStates
<1>4. /\ cache \in Docs /\ DOMAIN cache = DOMAIN got.cache
      /\ \A t \in DOMAIN got.cache : cache[t] = IF t = s THEN doc ELSE got.cache[t]
  <2>1. /\ DOMAIN cache = DOMAIN got.cache /\ cache = [t \in DOMAIN cache |-> cache[t]]
        /\ \A t \in DOMAIN got.cache : cache[t] = IF t = s THEN doc ELSE got.cache[t]
    OBVIOUS
  <2>2. DOMAIN got.cache \subseteq Subjects /\ \A t \in DOMAIN got.cache : got.cache[t] \subseteq Fields
    BY <1>3, DocsAre
  <2> HIDE DEF cache
  <2>3. DOMAIN cache \subseteq Subjects /\ \A t \in DOMAIN cache : cache[t] \subseteq Fields
    BY <2>1, <2>2
  <2> QED
    BY <2>1, <2>3, DocsAre
<1>5. j = [got EXCEPT !.cache = cache]
  BY <1>3 DEF IxStates
<1> HIDE DEF cache, j
<1>6. /\ j \in IxStates /\ j.present = got.present /\ j.disk = got.disk /\ j.deleted = got.deleted
      /\ j.written = got.written /\ j.reader = got.reader /\ j.writer = got.writer
      /\ j.searcher = got.searcher /\ j.cache = cache /\ j.transactionID = got.transactionID
  BY <1>3, <1>4, <1>5 DEF IxStates
<1>7. IxOK(j)
  BY <1>1, <1>6 DEF IxOK
<1>8. ASSUME NEW t PROVE Doc(j, t) = IF t = s THEN doc ELSE Doc(got, t)
  <2>1. BelowCache(j, t) = BelowCache(got, t)
    BY <1>6 DEF BelowCache
  <2> QED
    BY <1>1, <1>4, <1>6, <2>1 DEF Doc
<1> QED
  BY <1>1, <1>2, <1>6, <1>7, <1>8
-----------------------------------------------------------------------------
LEMMA StatementsAre ==
  \A st \in IxStatements : st.s \in Subjects /\ <<st.p, st.o>> \in Fields
                           /\ st = Statement(st.s, st.p, st.o, st.c) /\ Triple(st) = Statement(st.s, st.p, st.o, Empty)
<1> SUFFICES ASSUME NEW st \in IxStatements
             PROVE  st = Statement(st.s, st.p, st.o, st.c) /\ Triple(st) = Statement(st.s, st.p, st.o, Empty)
  BY DEF Subjects, Fields
<1>1. st = Statement(st.s, st.p, st.o, st.c)
  BY IxStatementsAssumption DEF IsStatement
<1> QED
  BY <1>1 DEF Statement, Triple, SetContext

LEMMA EntryAdded ==
  ASSUME NEW i, Healthy(i), NEW st \in IxStatements, NodeText(st.o) # NoText
  PROVE  /\ Healthy(IndexAddStatement(i, st)) /\ IndexAddStatement(i, st).transactionID = i.transactionID
         /\ i.present => IndexAddStatement(i, st).present
         /\ \A t : Doc(IndexAddStatement(i, st), t)
                   = IF t = st.s THEN Doc(i, t) \cup {<<st.p, st.o>>} ELSE Doc(i, t)
<1> DEFINE got == GetDocument(i, st.s)
           doc == AddProperty(got.cache[st.s], st)
           j == Edited(i, st.s, doc)
<1>1. IndexAddStatement(i, st) = AutoCommit(j)
  BY DEF IndexAddStatement, Edited
<1>2. st.s \in Subjects /\ <<st.p, st.o>> \in Fields /\ IxOK(i)
  BY StatementsAre DEF Healthy
<1>3. got.cache[st.s] = Doc(i, st.s) /\ IxOK(got)
  <2>1. st.s \in DOMAIN got.cache /\ Doc(got, st.s) = Doc(i, st.s) /\ IxOK(got)
    BY <1>2, DocumentCached
  <2> QED
    BY <2>1 DEF Doc
<1>4. doc \in SUBSET Fields /\ doc = Doc(i, st.s) \cup {<<st.p, st.o>>}
  <2>1. Doc(i, st.s) \in SUBSET Fields
    BY <1>2, DocIsDoc
  <2> QED
    BY <1>2, <1>3, <2>1 DEF AddProperty
<1>5. /\ IxOK(j) /\ j.transactionID = i.transactionID /\ j.present = i.present
      /\ \A t : Doc(j, t) = IF t = st.s THEN doc ELSE Doc(i, t)
  <2>1. doc \in SUBSET Fields
    BY <1>4
  <2> HIDE DEF doc
  <2> QED
    BY <1>2, <2>1, DocumentChanged
<1> HIDE DEF j, doc
<1>6. Follows(j, AutoCommit(j)) /\ AutoCommit(j).transactionID = j.transactionID
  BY <1>5, AutoCommitted
<1> QED
  BY <1>1, <1>4, <1>5, <1>6 DEF Follows, SameDocs

LEMMA EntryRemoved ==
  ASSUME NEW i, Healthy(i), NEW st \in IxStatements, NodeText(st.o) # NoText, i.present
  PROVE  /\ Healthy(IndexRemoveStatement(i, st)) /\ IndexRemoveStatement(i, st).transactionID = i.transactionID
         /\ i.present => IndexRemoveStatement(i, st).present
         /\ \A t : Doc(IndexRemoveStatement(i, st), t)
                   = IF t = st.s THEN Doc(i, t) \ {<<st.p, st.o>>} ELSE Doc(i, t)
<1> DEFINE got == GetDocument(i, st.s)
           doc == RemoveProperty(got.cache[st.s], st)
           j == Edited(i, st.s, doc)
<1>1. IndexRemoveStatement(i, st) = AutoCommit(j)
  BY DEF IndexRemoveStatement, Edited
<1>2. st.s \in Subjects /\ IxOK(i)
  BY StatementsAre DEF Healthy
<1>3. got.cache[st.s] = Doc(i, st.s) /\ IxOK(got)
  <2>1. st.s \in DOMAIN got.cache /\ Doc(got, st.s) = Doc(i, st.s) /\ IxOK(got)
    BY <1>2, DocumentCached
  <2> QED
    BY <2>1 DEF Doc
<1>4. doc \in SUBSET Fields /\ doc = Doc(i, st.s) \ {<<st.p, st.o>>}
  <2>1. Doc(i, st.s) \in SUBSET Fields
    BY <1>2, DocIsDoc
  <2> QED
    BY <1>2, <1>3, <2>1 DEF RemoveProperty
<1>5. /\ IxOK(j) /\ j.transactionID = i.transactionID /\ j.present = i.present
      /\ \A t : Doc(j, t) = IF t = st.s THEN doc ELSE Doc(i, t)
  <2>1. doc \in SUBSET Fields
    BY <1>4
  <2> HIDE DEF doc
  <2> QED
    BY <1>2, <2>1, DocumentChanged
<1> HIDE DEF j, doc
<1>6. Follows(j, AutoCommit(j)) /\ AutoCommit(j).transactionID = j.transactionID
  BY <1>5, AutoCommitted
<1> QED
  BY <1>1, <1>4, <1>5, <1>6 DEF Follows, SameDocs

\* clear() leaves only what waits in the cache
LEMMA Cleared ==
  ASSUME NEW i, Healthy(i)
  PROVE  /\ Healthy(Clear(i)) /\ Clear(i).transactionID = i.transactionID /\ Clear(i).present = i.present
         /\ \A t : Doc(Clear(i), t) = Waiting(i, t)
<1>1. CASE ~i.present
  <2>1. Clear(i) = i
    BY <1>1 DEF Clear
  <2>2. DOMAIN i.written = {} /\ DOMAIN i.disk = {}
    BY <1>1, NoDocsAre DEF Healthy, IxOK
  <2> QED
    BY <2>1, <2>2 DEF Doc, Waiting, BelowCache
<1>2. CASE i.present
  <2> DEFINE read == GetIndexReader(i)
             j == [read EXCEPT !.deleted = DOMAIN read.disk]
  <2>1. Keeps(i, read) /\ read.reader /\ ~read.writer /\ read.present
    BY <1>2, ReaderOpened DEF Healthy
  <2>2. Clear(i) = CloseReader(j)
    BY <1>2 DEF Clear
  <2> HIDE DEF read
  <2>3. /\ read \in IxStates /\ DOMAIN read.written = {} /\ DOMAIN read.disk \in SUBSET Subjects
    <3>1. read \in IxStates /\ read.written = NoDocs /\ read.disk \in Docs
      BY <2>1 DEF Keeps, IxOK, IxStates
    <3> QED
      BY <3>1, NoDocsAre, DocsAre
  <2>4. /\ j \in IxStates /\ j.present = read.present /\ j.disk = read.disk /\ j.deleted = DOMAIN read.disk
        /\ j.written = read.written /\ j.reader = read.reader /\ j.writer = read.writer
        /\ j.searcher = read.searcher /\ j.cache = read.cache /\ j.transactionID = read.transactionID
    BY <2>3 DEF IxStates
  <2> HIDE DEF j
  <2>5. IxOK(j)
    BY <2>1, <2>4 DEF Keeps, IxOK
  <2>6. \A t : BelowCache(j, t) = {}
    BY <2>3, <2>4 DEF BelowCache
  <2>7. Keeps(j, CloseReader(j)) /\ CloseReader(j).present = j.present
    BY <2>5, ReaderClosed
  <2>8. j.present = i.present
    BY <1>2, <2>1, <2>4, <2>5 DEF Keeps, IxOK, IxStates, Healthy
  <2> QED
    BY <2>1, <2>2, <2>4, <2>6, <2>7, <2>8 DEF Keeps, Doc, Waiting, Healthy, Settled
<1> QED
  BY <1>1, <1>2

FieldsOf(sts) == {<<st.p, st.o>> : st \in sts}

LEMMA IndexedAll ==
  ASSUME NEW i, Healthy(i), NEW s \in Subjects, NEW sts \in SUBSET IxStatements
  PROVE  /\ Healthy(IndexAll(i, s, sts)) /\ IndexAll(i, s, sts).transactionID = i.transactionID
         /\ i.present => IndexAll(i, s, sts).present
         /\ \A t : Doc(IndexAll(i, s, sts), t)
                   = IF t = s THEN Doc(i, t) \cup FieldsOf(sts) ELSE Doc(i, t)
<1> DEFINE started == StartTransaction(i)
           got == GetDocument(started, s)
           doc == got.cache[s] \cup {<<st.p, st.o>> : st \in sts}
           filled == IF sts = {} THEN started ELSE Edited(started, s, doc)
           id == StartedId(i)
<1>1. IndexAll(i, s, sts) = CloseTransaction(filled, id)
  BY DEF IndexAll, Edited
<1>2. Follows(i, started) /\ started.transactionID = 1 /\ IxOK(started)
  BY TransactionStarted DEF Follows, Healthy
<1> HIDE DEF started
<1>3. got.cache[s] = Doc(i, s)
  <2>1. s \in DOMAIN got.cache /\ Doc(got, s) = Doc(started, s)
    BY <1>2, DocumentCached
  <2> QED
    BY <1>2, <2>1 DEF Doc, Follows, SameDocs
<1> HIDE DEF got
<1>4. doc \in SUBSET Fields
  <2>1. Doc(i, s) \in SUBSET Fields
    BY DocIsDoc DEF Healthy
  <2> QED
    BY <1>3, <2>1 DEF Fields
<1>5. doc = Doc(i, s) \cup FieldsOf(sts)
  BY <1>3 DEF FieldsOf
<1> HIDE DEF doc
<1>6. /\ Healthy(filled) /\ filled.transactionID = 1 /\ (i.present => filled.present)
      /\ \A t : Doc(filled, t) = IF t = s THEN Doc(i, t) \cup FieldsOf(sts) ELSE Doc(i, t)
  <2>1. CASE sts = {}
    <3>1. FieldsOf(sts) = {}
      BY <2>1 DEF FieldsOf
    <3> QED
      BY <1>2, <2>1, <3>1 DEF Follows, SameDocs
  <2>2. CASE sts # {}
    <3>1. /\ IxOK(filled) /\ filled.transactionID = 1 /\ filled.present = started.present
          /\ \A t : Doc(filled, t) = IF t = s THEN doc ELSE Doc(started, t)
      BY <1>2, <1>4, <2>2, DocumentChanged
    <3> HIDE DEF filled
    <3> QED
      BY <1>2, <1>5, <3>1 DEF Follows, SameDocs, Healthy, Settled
  <2> QED
    BY <2>1, <2>2
<1> HIDE DEF filled
<1>7. id \in {0, 1} /\ (id = 1 <=> i.transactionID = 0) /\ i.transactionID \in {0, 1}
  BY IdsAre DEF StartedId, Healthy
<1> HIDE DEF id
<1>8. /\ Follows(filled, CloseTransaction(filled, id))
      /\ id # filled.transactionID => CloseTransaction(filled, id) = filled
      /\ id = filled.transactionID => CloseTransaction(filled, id).transactionID = 0
  BY <1>6, <1>7, TransactionClosed
<1>9. CloseTransaction(filled, id).transactionID = i.transactionID
  BY <1>6, <1>7, <1>8
<1> QED
  BY <1>1, <1>6, <1>8, <1>9 DEF Follows, SameDocs
-----------------------------------------------------------------------------
(***************************************************************************)
(* rebuildIndex takes the subjects one by one.  A function defined by      *)
(* recursion on finite sets exists, and induction on their size: stated    *)
(* with sets, since the library's theorems take operators.                 *)
(***************************************************************************)
\* Natural induction, for the set of the numbers that have a property
LEMMA NatSet ==
  ASSUME NEW T, T \subseteq Nat, 0 \in T, \A n \in T : n + 1 \in T
  PROVE  T = Nat
<1> SUFFICES ASSUME Nat \ T # {} PROVE FALSE
  OBVIOUS
<1> DEFINE R == OpToRel(<, Nat)
<1>1. \A x, y \in Nat : <<x, y>> \in R <=> x < y
  BY DEF OpToRel
<1>2. IsWellFoundedOn(R, Nat)
  BY NatLessThanWellFounded
<1> HIDE DEF R
<1>3. PICK x \in Nat \ T : \A y \in Nat \ T : ~ (<<y, x>> \in R)
  <2>1. Nat \ T \subseteq Nat
    OBVIOUS
  <2> QED
    BY <1>2, <2>1, WFMin
<1>4. \A y \in Nat \ T : ~(y < x)
  BY <1>1, <1>3
<1>5. x # 0 /\ x - 1 \in Nat
  OBVIOUS
<1>6. x - 1 \in T
  BY <1>4, <1>5
<1> QED
  BY <1>3, <1>5, <1>6

Small(U, n) == {A \in SUBSET U : Cardinality(A) <= n}
FirstOf(A) == CHOOSE x \in A : TRUE

LEMMA WithoutFirst ==
  ASSUME NEW U, IsFiniteSet(U), NEW n \in Nat, NEW A \in Small(U, n + 1), A # {}
  PROVE  FirstOf(A) \in A /\ A \ {FirstOf(A)} \in Small(U, n)
<1>1. FirstOf(A) \in A
  BY DEF FirstOf
<1>2. A \in SUBSET U /\ Cardinality(A) <= n + 1 /\ IsFiniteSet(A)
  BY FS_Subset DEF Small
<1>3. Cardinality(A) \in Nat /\ Cardinality(A \ {FirstOf(A)}) = Cardinality(A) - 1
  BY <1>1, <1>2, FS_CardinalityType, FS_RemoveElement
<1> HIDE DEF FirstOf
<1> QED
  BY <1>1, <1>2, <1>3 DEF Small

\* What a function on subsets does with each of them, from what it did before
StepMaps(U, V) == [U \X V -> V]
StepOf(g, A, base, F) == IF A = {} THEN base ELSE F[<<FirstOf(A), g[A \ {FirstOf(A)}]>>]

LEMMA SmallRecursion ==
  ASSUME NEW U, IsFiniteSet(U), NEW V, NEW base \in V, NEW F \in StepMaps(U, V)
  PROVE  \A n \in Nat : \E g \in [Small(U, n) -> V] : \A A \in Small(U, n) : g[A] = StepOf(g, A, base, F)
<1> DEFINE T == {n \in Nat : \E g \in [Small(U, n) -> V] : \A A \in Small(U, n) : g[A] = StepOf(g, A, base, F)}
<1>1. 0 \in T
  <2> DEFINE g == [A \in Small(U, 0) |-> base]
  <2>1. \A A \in Small(U, 0) : A = {}
    <3> SUFFICES ASSUME NEW A \in Small(U, 0) PROVE A = {}
      OBVIOUS
    <3>1. IsFiniteSet(A) /\ Cardinality(A) <= 0
      BY FS_Subset DEF Small
    <3>2. Cardinality(A) = 0
      BY <3>1, FS_CardinalityType
    <3> QED
      BY <3>1, <3>2, FS_EmptySet
  <2>2. g \in [Small(U, 0) -> V] /\ \A A \in Small(U, 0) : g[A] = StepOf(g, A, base, F)
    BY <2>1 DEF StepOf
  <2> QED
    BY <2>2
<1>2. ASSUME NEW n \in T PROVE n + 1 \in T
  <2>0. n \in Nat
    OBVIOUS
  <2>1. PICK g \in [Small(U, n) -> V] : \A A \in Small(U, n) : g[A] = StepOf(g, A, base, F)
    OBVIOUS
  <2> DEFINE h == [A \in Small(U, n + 1) |-> StepOf(g, A, base, F)]
  <2>2. \A A \in Small(U, n + 1) : StepOf(g, A, base, F) \in V
    <3> SUFFICES ASSUME NEW A \in Small(U, n + 1), A # {} PROVE StepOf(g, A, base, F) \in V
      BY DEF StepOf
    <3>1. FirstOf(A) \in U /\ A \ {FirstOf(A)} \in Small(U, n)
      BY <2>0, WithoutFirst DEF Small
    <3>2. <<FirstOf(A), g[A \ {FirstOf(A)}]>> \in U \X V
      BY <2>1, <3>1
    <3> QED
      BY <3>2 DEF StepOf, StepMaps
  <2>3. h \in [Small(U, n + 1) -> V]
    BY <2>2
  <2>4. \A A \in Small(U, n) : A \in Small(U, n + 1) /\ h[A] = g[A]
    <3> SUFFICES ASSUME NEW A \in Small(U, n) PROVE A \in Small(U, n + 1) /\ h[A] = g[A]
      OBVIOUS
    <3>1. IsFiniteSet(A) /\ Cardinality(A) \in Nat /\ Cardinality(A) <= n
      BY FS_Subset, FS_CardinalityType DEF Small
    <3>2. A \in Small(U, n + 1)
      BY <2>0, <3>1 DEF Small
    <3> QED
      BY <2>1, <3>2
  <2>5. ASSUME NEW A \in Small(U, n + 1) PROVE h[A] = StepOf(h, A, base, F)
    <3>1. CASE A = {}
      BY <3>1 DEF StepOf
    <3>2. CASE A # {}
      <4>1. A \ {FirstOf(A)} \in Small(U, n)
        BY <2>0, <3>2, WithoutFirst
      <4>2. h[A \ {FirstOf(A)}] = g[A \ {FirstOf(A)}]
        BY <2>4, <4>1
      <4>3. h[A] = StepOf(g, A, base, F)
        OBVIOUS
      <4> HIDE DEF h
      <4> QED
        BY <4>2, <4>3 DEF StepOf
    <3> QED
      BY <3>1, <3>2
  <2> HIDE DEF h
  <2> QED
    BY <2>0, <2>3, <2>5
<1>3. T = Nat
  <2>1. T \subseteq Nat
    OBVIOUS
  <2> HIDE DEF T
  <2> QED
    BY <1>1, <1>2, <2>1, NatSet
<1> QED
  BY <1>3

\* There is a function on the subsets of U that takes such steps
Recursive(U, V, base, F) ==
  \E g \in [SUBSET U -> V] : \A A \in SUBSET U : g[A] = StepOf(g, A, base, F)

LEMMA SubsetRecursion ==
  ASSUME NEW U, IsFiniteSet(U), NEW V, NEW base \in V, NEW F \in StepMaps(U, V)
  PROVE  Recursive(U, V, base, F)
<1>1. Cardinality(U) \in Nat /\ Small(U, Cardinality(U)) = SUBSET U
  BY FS_CardinalityType, FS_Subset DEF Small
<1>2. \E g \in [SUBSET U -> V] : \A A \in SUBSET U : g[A] = StepOf(g, A, base, F)
  <2>1. \A n \in Nat : \E g \in [Small(U, n) -> V] : \A A \in Small(U, n) : g[A] = StepOf(g, A, base, F)
    BY SmallRecursion
  <2>2. \E g \in [Small(U, Cardinality(U)) -> V] : \A A \in Small(U, Cardinality(U)) : g[A] = StepOf(g, A, base, F)
    BY <1>1, <2>1
  <2> QED
    BY <1>1, <2>2
<1> QED
  BY <1>2 DEF Recursive

LEMMA FiniteSubsets ==
  ASSUME NEW S, IsFiniteSet(S), NEW T, {} \in T,
         \A A \in SUBSET S : A # {} /\ A \ {FirstOf(A)} \in T => A \in T
  PROVE  SUBSET S \subseteq T
<1> DEFINE N == {n \in Nat : Small(S, n) \subseteq T}
<1>1. 0 \in N
  <2>1. \A A \in SUBSET S : IsFiniteSet(A) /\ Cardinality(A) \in Nat /\ (Cardinality(A) = 0 => A = {})
    BY FS_Subset, FS_EmptySet, FS_CardinalityType
  <2>2. \A A \in Small(S, 0) : A = {}
    BY <2>1 DEF Small
  <2> QED
    BY <2>2
<1>2. ASSUME NEW n \in N PROVE n + 1 \in N
  <2>1. n \in Nat /\ Small(S, n) \subseteq T
    OBVIOUS
  <2> SUFFICES ASSUME NEW A \in Small(S, n + 1), A # {} PROVE A \in T
    BY <2>1
  <2>2. A \ {FirstOf(A)} \in Small(S, n)
    BY <2>1, WithoutFirst
  <2>3. A \in SUBSET S
    BY DEF Small
  <2> QED
    BY <2>1, <2>2, <2>3
<1>3. N = Nat
  <2>1. N \subseteq Nat
    OBVIOUS
  <2> HIDE DEF N
  <2> QED
    BY <1>1, <1>2, <2>1, NatSet
<1>4. Cardinality(S) \in Nat /\ Small(S, Cardinality(S)) = SUBSET S
  BY FS_CardinalityType, FS_Subset DEF Small
<1> QED
  BY <1>3, <1>4
-----------------------------------------------------------------------------
\* What the index has of a subject after rebuildIndex
RebuiltDoc(i, content, S, t) ==
  Waiting(i, t) \cup (IF t \in S THEN FieldsOf(ToIndex(content, t)) ELSE {})

LEMMA RebuiltIndex ==
  ASSUME NEW i, Healthy(i), NEW content \in SUBSET IxStatements,
         NEW U \in SUBSET Subjects, IsFiniteSet(U)
  PROVE  /\ Healthy(Rebuilt(i, content, U)) /\ Rebuilt(i, content, U).transactionID = i.transactionID
         /\ i.present => Rebuilt(i, content, U).present
         /\ \A t : Doc(Rebuilt(i, content, U), t) = RebuiltDoc(i, content, U, t)
<1> DEFINE V == {j \in IxStates : /\ Healthy(j) /\ j.transactionID = i.transactionID
                                  /\ i.present => j.present}
           base == Clear(i)
           F == [sj \in U \X V |-> IndexAll(sj[2], sj[1], ToIndex(content, sj[1]))]
           isStep(g) == \A A \in SUBSET U : g[A] = StepOf(g, A, base, F)
           steps(g) == g = [S \in SUBSET U |->
                              IF S = {} THEN Clear(i)
                              ELSE LET s == CHOOSE x \in S : TRUE
                                   IN IndexAll(g[S \ {s}], s, ToIndex(content, s))]
<1>1. base \in V
  BY Cleared DEF Healthy, IxOK
<1>2. ASSUME NEW s \in U, NEW j \in V
      PROVE  /\ IndexAll(j, s, ToIndex(content, s)) \in V
             /\ \A t : Doc(IndexAll(j, s, ToIndex(content, s)), t)
                       = IF t = s THEN Doc(j, t) \cup FieldsOf(ToIndex(content, s)) ELSE Doc(j, t)
  <2>1. ToIndex(content, s) \in SUBSET IxStatements /\ s \in Subjects /\ Healthy(j)
    BY DEF ToIndex
  <2> DEFINE k == IndexAll(j, s, ToIndex(content, s))
  <2>2. /\ Healthy(k) /\ k.transactionID = j.transactionID /\ (j.present => k.present)
        /\ \A t : Doc(k, t) = IF t = s THEN Doc(j, t) \cup FieldsOf(ToIndex(content, s)) ELSE Doc(j, t)
    BY <2>1, IndexedAll
  <2> HIDE DEF k
  <2>3. k \in V
    BY <2>2 DEF Healthy, IxOK
  <2> QED
    BY <2>2, <2>3 DEF k
<1>3. F \in StepMaps(U, V)
  BY <1>2 DEF StepMaps
<1> HIDE DEF V, base
<1>4. \A s \in U : \A j \in V : F[<<s, j>>] = IndexAll(j, s, ToIndex(content, s))
  OBVIOUS
<1> HIDE DEF F
<1>5. \E g \in [SUBSET U -> V] : isStep(g)
  <2>1. Recursive(U, V, base, F)
    BY <1>1, <1>3, SubsetRecursion
  <2> QED
    BY <2>1 DEF Recursive
<1>6. ASSUME NEW g \in [SUBSET U -> V], isStep(g) PROVE steps(g)
  <2>1. ASSUME NEW S \in SUBSET U
        PROVE  StepOf(g, S, base, F) = IF S = {} THEN Clear(i)
                                       ELSE LET s == CHOOSE x \in S : TRUE
                                            IN IndexAll(g[S \ {s}], s, ToIndex(content, s))
    <3>1. CASE S = {}
      BY <3>1 DEF StepOf, base
    <3>2. CASE S # {}
      <4>1. FirstOf(S) \in U /\ g[S \ {FirstOf(S)}] \in V
        BY <3>2 DEF FirstOf
      <4> QED
        BY <1>4, <3>2, <4>1 DEF StepOf, FirstOf
    <3> QED
      BY <3>1, <3>2
  <2> QED
    BY <1>6, <2>1
<1> DEFINE step == CHOOSE g : steps(g)
<1>7. steps(step)
  <2> HIDE DEF steps, isStep
  <2>1. \E g : steps(g)
    BY <1>5, <1>6
  <2> QED
    BY <2>1, Zenon
<1>8. Rebuilt(i, content, U) = step[U]
  BY DEF Rebuilt
<1> HIDE DEF step
<1>9. step[{}] = base
  BY <1>7 DEF base
<1>10. \A A \in SUBSET U : A # {} =>
         step[A] = IndexAll(step[A \ {FirstOf(A)}], FirstOf(A), ToIndex(content, FirstOf(A)))
  BY <1>7 DEF FirstOf
<1> DEFINE T == {A \in SUBSET U : step[A] \in V /\ \A t : Doc(step[A], t) = RebuiltDoc(i, content, A, t)}
<1>11. {} \in T
  BY <1>1, <1>9, Cleared DEF RebuiltDoc, base
<1>12. ASSUME NEW A \in SUBSET U, A # {}, A \ {FirstOf(A)} \in T PROVE A \in T
  <2> DEFINE s == FirstOf(A)
             j == step[A \ {s}]
  <2>1. s \in A /\ s \in U
    BY <1>12 DEF FirstOf
  <2>2. j \in V /\ \A t : Doc(j, t) = RebuiltDoc(i, content, A \ {s}, t)
    BY <1>12
  <2>3. step[A] = IndexAll(j, s, ToIndex(content, s))
    BY <1>10, <1>12
  <2> HIDE DEF s, j
  <2>4. /\ step[A] \in V
        /\ \A t : Doc(step[A], t) = IF t = s THEN Doc(j, t) \cup FieldsOf(ToIndex(content, s)) ELSE Doc(j, t)
    BY <1>2, <2>1, <2>2, <2>3
  <2>5. \A t : Doc(step[A], t) = RebuiltDoc(i, content, A, t)
    BY <2>1, <2>2, <2>4 DEF RebuiltDoc
  <2> QED
    BY <2>4, <2>5
<1>13. U \in T
  <2> HIDE DEF T
  <2>1. SUBSET U \subseteq T
    BY <1>11, <1>12, FiniteSubsets
  <2> QED
    BY <2>1
<1>14. step[U] \in V /\ \A t : Doc(step[U], t) = RebuiltDoc(i, content, U, t)
  BY <1>13
<1> QED
  BY <1>8, <1>14 DEF V
-----------------------------------------------------------------------------
LEMMA IndexClosed ==
  ASSUME NEW i, Healthy(i)
  PROVE  Follows(i, CloseIndex(i)) /\ CloseIndex(i).transactionID = 0
<1> DEFINE c == CloseTransaction(i, i.transactionID)
           r == CloseReader(c)
<1>1. Follows(i, c) /\ c.transactionID = 0 /\ c.cache = NoDocs
  BY IdsAre, TransactionClosed DEF Healthy
<1> HIDE DEF c
<1>2. Keeps(c, r)
  BY <1>1, ReaderClosed DEF Follows, Healthy
<1> HIDE DEF r
<1>3. Keeps(r, CloseWriter(r))
  BY <1>2, WriterClosed DEF Keeps
<1>4. CloseIndex(i) = CloseWriter(r)
  BY DEF CloseIndex, r, c
<1> QED
  BY <1>1, <1>2, <1>3, <1>4 DEF Follows, Healthy, Settled, SameDocs, Keeps, Doc

\* What a query would find of an index whose cache is empty
EntryOf(s, e) == Statement(s, e[1], e[2], Empty)

LEMMA FoundEntries ==
  ASSUME NEW i, IxOK(i), i.cache = NoDocs, NEW x
  PROVE  x \in Entries(CloseWriter(CloseReader(i)).disk)
           <=> \E s \in Subjects : \E e \in Doc(i, s) : x = EntryOf(s, e)
<1> DEFINE r == CloseReader(i)
           w == CloseWriter(r)
           disk == w.disk
<1>1. Keeps(i, r) /\ ~r.reader
  BY ReaderClosed
<1> HIDE DEF r
<1>2. Keeps(r, w) /\ ~w.writer /\ w.reader = r.reader
  BY <1>1, WriterClosed DEF Keeps
<1> HIDE DEF w
<1>3. DOMAIN w.written = {} /\ w.deleted = {} /\ w.disk \in Docs
  BY <1>1, <1>2, NoDocsAre DEF Keeps, IxOK, IxStates
<1>4. disk = w.disk /\ DOMAIN disk \subseteq Subjects
  BY <1>3, DocsAre
<1> HIDE DEF disk
<1>5. \A s : Doc(i, s) = BelowCache(w, s)
  BY <1>1, <1>2, NoDocsAre DEF Keeps, Doc
<1>6. \A s : Doc(i, s) = IF s \in DOMAIN disk THEN disk[s] ELSE {}
  BY <1>3, <1>4, <1>5 DEF BelowCache
<1>7. x \in Entries(disk) <=> \E s \in DOMAIN disk : \E e \in disk[s] : x = EntryOf(s, e)
  BY DEF Entries, EntryOf
<1>8. Entries(CloseWriter(CloseReader(i)).disk) = Entries(disk)
  BY DEF r, w, disk
<1> QED
  BY <1>4, <1>6, <1>7, <1>8

\* An open searcher has what is on disk; deletions of the reader may be missing.
LEMMA SearcherFinds ==
  ASSUME NEW i, IxOK(i), i.cache = NoDocs, NEW s \in Subjects, NEW e \in Doc(i, s)
  PROVE  EntryOf(s, e) \in Entries(GetIndexSearcher(i).searcher.docs)
<1> DEFINE docs == GetIndexSearcher(i).searcher.docs
<1>1. Doc(i, s) = BelowCache(i, s)
  BY NoDocsAre DEF Doc
<1>2. s \in DOMAIN docs /\ docs[s] = Doc(i, s)
  <2>1. CASE i.searcher.open
    <3>1. docs = i.disk /\ DOMAIN i.written = {}
      BY <2>1, NoDocsAre DEF IxOK, GetIndexSearcher
    <3> QED
      BY <1>1, <3>1 DEF BelowCache
  <2>2. CASE ~i.searcher.open
    <3> DEFINE w == CloseWriter(i)
    <3>1. w \in [DOMAIN i -> {w[f] : f \in DOMAIN i}] /\ w.disk = Merged(i.disk, i.written)
      BY DEF CloseWriter, IxOK, IxStates
    <3>2. docs = w.disk
      <4> HIDE DEF w
      <4>1. "searcher" \in DOMAIN w
        BY <3>1 DEF IxOK, IxStates
      <4> QED
        BY <2>2, <4>1 DEF GetIndexSearcher, w
    <3> QED
      BY <1>1, <3>1, <3>2 DEF BelowCache, Merged
  <2> QED
    BY <2>1, <2>2
<1> HIDE DEF docs
<1>3. EntryOf(s, e) \in Entries(docs)
  BY <1>2 DEF Entries, EntryOf
<1> QED
  BY <1>3 DEF docs
-----------------------------------------------------------------------------
\* Between two operations of the filter model: whose transaction is open
IxCore ==
  /\ Healthy(ix)
  /\ cacheId \in {0, 1} /\ (ix.transactionID # 0 => cacheId = ix.transactionID)

IxContentOK == ixContent \in SUBSET IxStatements /\ IsFiniteSet(ixContent)

\* What the index has is stored, index-only or kept, ...
EntriesKnown ==
  \A s \in Subjects : \A e \in Doc(ix, s) :
    /\ IndexStatement(EntryOf(s, e)) /\ NodeText(e[2]) # NoText
    /\ EntryOf(s, e) \in {Triple(st) : st \in ixContent} \cup indexedOnly \cup kept

\* ... and what is stored and can be indexed is there.
EntriesThere ==
  \A st \in ixContent :
    IndexStatement(st) /\ NodeText(st.o) # NoText =>
      <<st.p, st.o>> \in Doc(ix, st.s) \/ Triple(st) \in lost

IxInv == IxCore /\ IxContentOK /\ EntriesKnown /\ EntriesThere

LEMMA EntriesAre ==
  ASSUME NEW st \in IxStatements
  PROVE  /\ EntryOf(st.s, <<st.p, st.o>>) = Triple(st)
         /\ IndexStatement(EntryOf(st.s, <<st.p, st.o>>)) <=> IndexStatement(st)
         /\ \A s : \A e \in Fields : EntryOf(s, e) = Triple(st) => s = st.s /\ e = <<st.p, st.o>>
<1>1. Triple(st) = Statement(st.s, st.p, st.o, Empty)
  BY StatementsAre
<1>2. EntryOf(st.s, <<st.p, st.o>>) = Statement(st.s, st.p, st.o, Empty)
  BY DEF EntryOf
<1>3. IndexStatement(Statement(st.s, st.p, st.o, Empty)) <=> IndexStatement(st)
  BY DEF IndexStatement, Statement
<1>4. ASSUME NEW s, NEW e \in Fields, EntryOf(s, e) = Triple(st) PROVE s = st.s /\ e = <<st.p, st.o>>
  <2>1. Statement(s, e[1], e[2], Empty) = Statement(st.s, st.p, st.o, Empty)
    BY <1>1, <1>4 DEF EntryOf
  <2>2. s = st.s /\ e[1] = st.p /\ e[2] = st.o
    BY <2>1 DEF Statement
  <2>3. PICK x \in IxStatements : e = <<x.p, x.o>>
    BY DEF Fields
  <2> QED
    BY <2>2, <2>3
<1> QED
  BY <1>1, <1>2, <1>3, <1>4

LEMMA FoundNow ==
  ASSUME IxCore, NEW x
  PROVE  /\ x \in Reopened <=> \E s \in Subjects : \E e \in Doc(ix, s) : x = EntryOf(s, e)
         /\ (\E s \in Subjects : \E e \in Doc(ix, s) : x = EntryOf(s, e)) => x \in Found
<1>1. /\ Follows(ix, CloseTransaction(ix, cacheId))
      /\ cacheId # ix.transactionID => CloseTransaction(ix, cacheId) = ix
      /\ cacheId = ix.transactionID => CloseTransaction(ix, cacheId).cache = NoDocs
  BY TransactionClosed DEF IxCore
<1> DEFINE c == Committed
<1>2. c = CloseTransaction(ix, cacheId)
  BY DEF Committed
<1>3. IxOK(c) /\ c.cache = NoDocs /\ \A s : Doc(c, s) = Doc(ix, s)
  <2> HIDE DEF c
  <2> QED
    BY <1>1, <1>2 DEF IxCore, Follows, SameDocs, Healthy, Settled
<1> HIDE DEF c
<1>4. x \in Entries(CloseWriter(CloseReader(c)).disk)
        <=> \E s \in Subjects : \E e \in Doc(c, s) : x = EntryOf(s, e)
  BY <1>3, FoundEntries
<1>5. Reopened = Entries(CloseWriter(CloseReader(c)).disk) /\ Found = Entries(GetIndexSearcher(c).searcher.docs)
  BY DEF Reopened, Found, c
<1>6. ASSUME NEW s \in Subjects, NEW e \in Doc(c, s) PROVE EntryOf(s, e) \in Found
  BY <1>3, <1>5, <1>6, SearcherFinds
<1> QED
  BY <1>3, <1>4, <1>5, <1>6

LEMMA IxInvAgrees == IxInv => IndexAgrees
<1> SUFFICES ASSUME IxInv PROVE IndexAgrees
  OBVIOUS
<1>1. WriterExclusive
  BY NoDocsAre DEF IxInv, IxCore, Healthy, IxOK, WriterExclusive
<1>2. IndexComplete
  <2> SUFFICES ASSUME NEW st \in ixContent, IndexStatement(st), NodeText(st.o) # NoText, Triple(st) \notin lost
               PROVE  Triple(st) \in Found
    BY DEF IndexComplete
  <2>1. st \in IxStatements /\ st.s \in Subjects /\ <<st.p, st.o>> \in Doc(ix, st.s)
    BY StatementsAre DEF IxInv, IxContentOK, EntriesThere
  <2>2. EntryOf(st.s, <<st.p, st.o>>) = Triple(st)
    BY <2>1, EntriesAre
  <2> QED
    BY <2>1, <2>2, FoundNow DEF IxInv
<1>3. IndexSound
  <2> SUFFICES ASSUME NEW x \in Reopened PROVE x \in {Triple(st) : st \in ixContent} \cup indexedOnly \cup kept
    BY DEF IndexSound
  <2>1. PICK s \in Subjects : \E e \in Doc(ix, s) : x = EntryOf(s, e)
    BY FoundNow DEF IxInv
  <2> QED
    BY <2>1 DEF IxInv, EntriesKnown
<1> QED
  BY <1>1, <1>2, <1>3 DEF IndexAgrees
-----------------------------------------------------------------------------
\* A transaction that is closed, or left open, by its owner
LEMMA CoreClosed ==
  ASSUME NEW done, Healthy(done), NEW id \in {0, 1}, done.transactionID # 0 => id = done.transactionID,
         \/ ix' = CloseTransaction(done, id) /\ cacheId' = 0
         \/ ix' = done /\ cacheId' = id
  PROVE  IxCore' /\ Follows(done, ix')
<1>1. CASE ix' = CloseTransaction(done, id) /\ cacheId' = 0
  <2>1. /\ Follows(done, ix') /\ (id # done.transactionID => ix' = done)
        /\ id = done.transactionID => ix'.transactionID = 0
    BY <1>1, TransactionClosed
  <2> QED
    BY <1>1, <2>1 DEF IxCore, Follows
<1>2. CASE ix' = done /\ cacheId' = id
  BY <1>2 DEF IxCore, Follows, SameDocs
<1> QED
  BY <1>1, <1>2

\* The index and the transaction with which a change begins
StartedIx == IF Starting THEN StartTransaction(ix) ELSE ix
StartedBy == IF Starting THEN StartedId(ix) ELSE cacheId

LEMMA ChangeStarts ==
  ASSUME IxCore
  PROVE  /\ Follows(ix, StartedIx) /\ StartedBy \in {0, 1} /\ StartedIx.present = ix.present
         /\ StartedIx.transactionID # 0 => StartedBy = StartedIx.transactionID
<1>1. CASE Starting
  <2>1. ix.transactionID = 0
    BY <1>1, IdsAre DEF IxCore, Starting, Healthy
  <2> QED
    BY <1>1, <2>1, TransactionStarted DEF IxCore, StartedIx, StartedBy, StartedId
<1>2. CASE ~Starting
  BY <1>2 DEF IxCore, StartedIx, StartedBy, Follows, SameDocs
<1> QED
  BY <1>1, <1>2

LEMMA ChangeAdds ==
  ASSUME IxCore, NEW st \in IxStatements, Change(LAMBDA i : IndexAddStatement(i, st))
  PROVE  /\ IxCore'
         /\ \A t : Doc(ix', t) = IF t = st.s /\ NodeText(st.o) # NoText THEN Doc(ix, t) \cup {<<st.p, st.o>>}
                                 ELSE Doc(ix, t)
<1> DEFINE done == IndexAddStatement(StartedIx, st)
<1>1. \/ ix' = CloseTransaction(done, StartedBy) /\ cacheId' = 0
      \/ ix' = done /\ cacheId' = StartedBy
  BY DEF Change, StartedIx, StartedBy
<1>2. /\ Healthy(StartedIx) /\ SameDocs(ix, StartedIx) /\ StartedBy \in {0, 1}
      /\ StartedIx.transactionID # 0 => StartedBy = StartedIx.transactionID
  BY ChangeStarts DEF Follows
<1>3. /\ Healthy(done) /\ done.transactionID = StartedIx.transactionID
      /\ \A t : Doc(done, t) = IF t = st.s /\ NodeText(st.o) # NoText
                               THEN Doc(StartedIx, t) \cup {<<st.p, st.o>>} ELSE Doc(StartedIx, t)
  <2>1. CASE NodeText(st.o) = NoText
    BY <1>2, <2>1 DEF IndexAddStatement
  <2>2. CASE NodeText(st.o) # NoText
    BY <1>2, <2>2, EntryAdded
  <2> QED
    BY <2>1, <2>2
<1> HIDE DEF done
<1>4. IxCore' /\ Follows(done, ix')
  BY <1>1, <1>2, <1>3, CoreClosed
<1> QED
  BY <1>2, <1>3, <1>4 DEF Follows, SameDocs

LEMMA ChangeRemoves ==
  ASSUME IxCore, NEW st \in IxStatements, Change(LAMBDA i : IndexRemoveStatement(i, st))
  PROVE  /\ IxCore'
         /\ \A t : Doc(ix', t) = IF t = st.s /\ NodeText(st.o) # NoText /\ ix.present
                                 THEN Doc(ix, t) \ {<<st.p, st.o>>} ELSE Doc(ix, t)
<1> DEFINE done == IndexRemoveStatement(StartedIx, st)
<1>1. \/ ix' = CloseTransaction(done, StartedBy) /\ cacheId' = 0
      \/ ix' = done /\ cacheId' = StartedBy
  BY DEF Change, StartedIx, StartedBy
<1>2. /\ Healthy(StartedIx) /\ SameDocs(ix, StartedIx) /\ StartedBy \in {0, 1} /\ StartedIx.present = ix.present
      /\ StartedIx.transactionID # 0 => StartedBy = StartedIx.transactionID
  BY ChangeStarts DEF Follows
<1>3. /\ Healthy(done) /\ done.transactionID = StartedIx.transactionID
      /\ \A t : Doc(done, t) = IF t = st.s /\ NodeText(st.o) # NoText /\ StartedIx.present
                               THEN Doc(StartedIx, t) \ {<<st.p, st.o>>} ELSE Doc(StartedIx, t)
  <2>1. CASE NodeText(st.o) = NoText \/ ~StartedIx.present
    BY <1>2, <2>1 DEF IndexRemoveStatement
  <2>2. CASE NodeText(st.o) # NoText /\ StartedIx.present
    BY <1>2, <2>2, EntryRemoved
  <2> QED
    BY <2>1, <2>2
<1> HIDE DEF done
<1>4. IxCore' /\ Follows(done, ix')
  BY <1>1, <1>2, <1>3, CoreClosed
<1> QED
  BY <1>2, <1>3, <1>4 DEF Follows, SameDocs

LEMMA SameIndex ==
  ASSUME IxInv, IxCore', SameDocs(ix, ix'), UNCHANGED <<ixContent, indexedOnly, lost, kept>>
  PROVE  IxInv'
BY DEF IxInv, IxContentOK, EntriesKnown, EntriesThere, SameDocs

LEMMA IndexAdds ==
  ASSUME IxInv, NEW st \in IxStatements, ixAddStatement(st)
  PROVE  IxInv'
<1>1. CASE StoreStatement(st) /\ st \in ixContent
  <2>1. UNCHANGED <<ix, cacheId, ixContent, indexedOnly, lost, kept>>
    BY <1>1 DEF ixAddStatement, NoChange
  <2> QED
    BY <2>1 DEF IxInv, IxCore, IxContentOK, EntriesKnown, EntriesThere
<1>2. CASE ~(StoreStatement(st) /\ st \in ixContent)
  <2> DEFINE e0 == <<st.p, st.o>>
             known == {Triple(x) : x \in ixContent} \cup indexedOnly
  <2>1. /\ ixContent' = IF StoreStatement(st) THEN ixContent \cup {st} ELSE ixContent
        /\ indexedOnly' = IF StoreStatement(st) THEN indexedOnly ELSE indexedOnly \cup {Triple(st)}
        /\ IF IndexStatement(st) THEN Change(LAMBDA i : IndexAddStatement(i, st)) ELSE NoChange
        /\ lost' = lost \ {Triple(st)} /\ kept' = kept \ {Triple(st)}
    BY <1>2 DEF ixAddStatement
  <2>2. IxContentOK'
    BY <2>1, FS_AddElement DEF IxInv, IxContentOK
  <2>3. /\ IxCore'
        /\ \A t : Doc(ix', t) = IF t = st.s /\ NodeText(st.o) # NoText /\ IndexStatement(st)
                                THEN Doc(ix, t) \cup {e0} ELSE Doc(ix, t)
    <3>1. CASE IndexStatement(st)
      BY <2>1, <3>1, ChangeAdds DEF IxInv
    <3>2. CASE ~IndexStatement(st)
      <4>1. UNCHANGED <<ix, cacheId>>
        BY <2>1, <3>2 DEF NoChange
      <4> QED
        BY <3>2, <4>1 DEF IxInv, IxCore
    <3> QED
      BY <3>1, <3>2
  <2>4. {Triple(x) : x \in ixContent'} \cup indexedOnly' = known \cup {Triple(st)}
    BY <2>1
  <2>5. ASSUME NEW s \in Subjects, NEW e \in Doc(ix', s)
        PROVE  /\ IndexStatement(EntryOf(s, e)) /\ NodeText(e[2]) # NoText
               /\ EntryOf(s, e) \in {Triple(x) : x \in ixContent'} \cup indexedOnly' \cup kept'
    <3>1. CASE e \in Doc(ix, s)
      BY <2>1, <2>4, <3>1 DEF IxInv, EntriesKnown
    <3>2. CASE e \notin Doc(ix, s)
      <4>1. s = st.s /\ e = e0 /\ NodeText(st.o) # NoText /\ IndexStatement(st)
        BY <2>3, <2>5, <3>2
      <4>2. EntryOf(s, e) = Triple(st) /\ IndexStatement(EntryOf(s, e)) /\ e[2] = st.o
        BY <4>1, EntriesAre
      <4> QED
        BY <2>4, <4>1, <4>2
    <3> QED
      BY <3>1, <3>2
  <2>6. ASSUME NEW x \in ixContent', IndexStatement(x), NodeText(x.o) # NoText
        PROVE  <<x.p, x.o>> \in Doc(ix', x.s) \/ Triple(x) \in lost'
    <3>0. x \in IxStatements
      BY <2>2 DEF IxContentOK
    <3>1. CASE Triple(x) # Triple(st)
      <4>1. x \in ixContent
        BY <2>1, <3>1
      <4>2. <<x.p, x.o>> \in Doc(ix, x.s) \/ Triple(x) \in lost
        BY <2>6, <4>1 DEF IxInv, EntriesThere
      <4> QED
        BY <2>1, <2>3, <3>1, <4>2
    <3>2. CASE Triple(x) = Triple(st)
      <4>1. x.s = st.s /\ x.p = st.p /\ x.o = st.o
        <5>1. Statement(x.s, x.p, x.o, Empty) = Statement(st.s, st.p, st.o, Empty)
          BY <3>0, <3>2, StatementsAre
        <5> QED
          BY <5>1 DEF Statement
      <4>2. IndexStatement(st)
        BY <2>6, <4>1 DEF IndexStatement
      <4> QED
        BY <2>3, <2>6, <4>1, <4>2
    <3> QED
      BY <3>1, <3>2
  <2> QED
    BY <2>2, <2>3, <2>5, <2>6 DEF IxInv, EntriesKnown, EntriesThere
<1> QED
  BY <1>1, <1>2

\* A statement that is no longer stored, and its entry
LEMMA EntryGone ==
  ASSUME IxInv, NEW st \in IxStatements, IndexStatement(st),
         ixContent' \in SUBSET ixContent,
         \A x \in ixContent \ ixContent' : IndexStatement(x) => x = st,
         indexedOnly \ {Triple(st)} \subseteq indexedOnly',
         RemoveEntry(st)
  PROVE  IxInv'
<1>0. /\ IxCore'
      /\ \A t : Doc(ix', t) = IF t = st.s /\ NodeText(st.o) # NoText /\ ix.present
                              THEN Doc(ix, t) \ {<<st.p, st.o>>} ELSE Doc(ix, t)
  BY ChangeRemoves DEF IxInv, RemoveEntry
<1>1. IxContentOK'
  BY FS_Subset DEF IxInv, IxContentOK
<1>2. ASSUME NEW s \in Subjects, NEW e \in Doc(ix', s)
      PROVE  /\ IndexStatement(EntryOf(s, e)) /\ NodeText(e[2]) # NoText
             /\ EntryOf(s, e) \in {Triple(x) : x \in ixContent'} \cup indexedOnly' \cup kept'
  <2>1. /\ e \in Doc(ix, s) /\ IndexStatement(EntryOf(s, e)) /\ NodeText(e[2]) # NoText
        /\ EntryOf(s, e) \in {Triple(x) : x \in ixContent} \cup indexedOnly \cup kept
    BY <1>0, <1>2 DEF IxInv, EntriesKnown
  <2>2. e \in Fields
    BY <2>1, DocIsDoc DEF IxInv, IxCore, Healthy
  <2>3. CASE EntryOf(s, e) = Triple(st)
    <3>1. s = st.s /\ e = <<st.p, st.o>> /\ NodeText(st.o) # NoText
      <4>1. s = st.s /\ e = <<st.p, st.o>>
        BY <2>2, <2>3, EntriesAre
      <4>2. e[2] = st.o
        BY <4>1
      <4> QED
        BY <2>1, <4>1, <4>2
    <3>2. ~ix.present
      BY <1>0, <1>2, <3>1
    <3>3. BelowCache(ix, s) = {}
      BY <3>2, NoDocsAre DEF IxInv, IxCore, Healthy, IxOK, BelowCache
    <3>4. e \in Waiting(ix, s)
      BY <2>1, <3>3 DEF Doc, Waiting
    <3>5. kept' = IF <<st.p, st.o>> \in Waiting(ix, st.s) THEN kept \cup {Triple(st)} ELSE kept
      BY <3>2 DEF RemoveEntry
    <3> QED
      BY <2>1, <2>3, <3>1, <3>4, <3>5
  <2>4. CASE EntryOf(s, e) # Triple(st)
    <3>1. CASE EntryOf(s, e) \in {Triple(x) : x \in ixContent}
      <4>1. PICK x \in ixContent : EntryOf(s, e) = Triple(x)
        BY <3>1
      <4>2. s = x.s /\ e = <<x.p, x.o>> /\ x \in IxStatements
        BY <2>2, <4>1, EntriesAre DEF IxInv, IxContentOK
      <4>3. IndexStatement(x) /\ x # st
        BY <2>1, <2>4, <4>1, <4>2, EntriesAre
      <4> QED
        BY <2>1, <4>1, <4>3
    <3>2. kept \ {Triple(st)} \subseteq kept'
      BY DEF RemoveEntry
    <3> QED
      BY <2>1, <2>4, <3>1, <3>2
  <2> QED
    BY <2>3, <2>4
<1>3. ASSUME NEW x \in ixContent', IndexStatement(x), NodeText(x.o) # NoText
      PROVE  <<x.p, x.o>> \in Doc(ix', x.s) \/ Triple(x) \in lost'
  <2>1. x \in ixContent /\ x \in IxStatements
    BY DEF IxInv, IxContentOK
  <2>2. CASE Triple(x) = Triple(st)
    <3>1. CASE ix.present
      BY <2>2, <3>1 DEF RemoveEntry
    <3>2. CASE ~ix.present
      <4>1. Doc(ix', x.s) = Doc(ix, x.s) /\ lost' = lost
        BY <1>0, <3>2 DEF RemoveEntry
      <4> QED
        BY <1>3, <2>1, <4>1 DEF IxInv, EntriesThere
    <3> QED
      BY <3>1, <3>2
  <2>3. CASE Triple(x) # Triple(st)
    <3>1. ~(x.s = st.s /\ <<x.p, x.o>> = <<st.p, st.o>>)
      BY <2>1, <2>3, StatementsAre
    <3>2. lost \subseteq lost'
      BY DEF RemoveEntry
    <3>3. <<x.p, x.o>> \in Doc(ix, x.s) \/ Triple(x) \in lost
      BY <1>3, <2>1 DEF IxInv, EntriesThere
    <3> QED
      BY <1>0, <3>1, <3>2, <3>3
  <2> QED
    BY <2>2, <2>3
<1> QED
  BY <1>0, <1>1, <1>2, <1>3 DEF IxInv, EntriesKnown, EntriesThere

\* Statements that were never indexed may go as they please.
LEMMA OthersGone ==
  ASSUME IxInv, UNCHANGED <<ix, cacheId>>, ixContent' \in SUBSET ixContent,
         \A x \in ixContent \ ixContent' : ~IndexStatement(x),
         \A t \in indexedOnly \ indexedOnly' : ~IndexStatement(t), UNCHANGED <<lost, kept>>
  PROVE  IxInv'
<1>1. IxCore' /\ IxContentOK' /\ \A s : Doc(ix', s) = Doc(ix, s)
  BY FS_Subset DEF IxInv, IxCore, IxContentOK
<1>2. ASSUME NEW s \in Subjects, NEW e \in Doc(ix', s)
      PROVE  /\ IndexStatement(EntryOf(s, e)) /\ NodeText(e[2]) # NoText
             /\ EntryOf(s, e) \in {Triple(x) : x \in ixContent'} \cup indexedOnly' \cup kept'
  <2>1. /\ e \in Doc(ix, s) /\ IndexStatement(EntryOf(s, e)) /\ NodeText(e[2]) # NoText
        /\ EntryOf(s, e) \in {Triple(x) : x \in ixContent} \cup indexedOnly \cup kept
    BY <1>1, <1>2 DEF IxInv, EntriesKnown
  <2>2. e \in Fields
    BY <2>1, DocIsDoc DEF IxInv, IxCore, Healthy
  <2>3. CASE EntryOf(s, e) \in {Triple(x) : x \in ixContent}
    <3>1. PICK x \in ixContent : EntryOf(s, e) = Triple(x)
      BY <2>3
    <3>2. s = x.s /\ e = <<x.p, x.o>> /\ x \in IxStatements
      BY <2>2, <3>1, EntriesAre DEF IxInv, IxContentOK
    <3>3. IndexStatement(x)
      BY <2>1, <3>1, <3>2, EntriesAre
    <3> QED
      BY <2>1, <3>1, <3>3
  <2> QED
    BY <2>1, <2>3
<1>3. EntriesThere'
  BY <1>1 DEF IxInv, EntriesThere
<1> QED
  BY <1>1, <1>2, <1>3 DEF IxInv, EntriesKnown

LEMMA IndexRemoves ==
  ASSUME IxInv, NEW st \in IxStatements, ixRemoveStatement(st)
  PROVE  IxInv'
<1>1. /\ ixContent' = ixContent \ {st} /\ indexedOnly' = indexedOnly \ {Triple(st)}
      /\ IF IndexStatement(st) THEN RemoveEntry(st) ELSE NoChange /\ UNCHANGED <<lost, kept>>
  BY DEF ixRemoveStatement
<1>2. CASE IndexStatement(st)
  <2>1. /\ ixContent' \in SUBSET ixContent /\ \A x \in ixContent \ ixContent' : IndexStatement(x) => x = st
        /\ indexedOnly \ {Triple(st)} \subseteq indexedOnly' /\ RemoveEntry(st)
    BY <1>1, <1>2
  <2> QED
    BY <1>2, <2>1, EntryGone
<1>3. CASE ~IndexStatement(st)
  <2>1. UNCHANGED <<ix, cacheId>>
    BY <1>1, <1>3 DEF NoChange
  <2>2. ~IndexStatement(Triple(st))
    BY <1>3, EntriesAre
  <2>3. /\ ixContent' \in SUBSET ixContent /\ \A x \in ixContent \ ixContent' : ~IndexStatement(x)
        /\ \A t \in indexedOnly \ indexedOnly' : ~IndexStatement(t)
        /\ UNCHANGED <<lost, kept>>
    BY <1>1, <1>3, <2>2
  <2> QED
    BY <2>1, <2>3, OthersGone
<1> QED
  BY <1>2, <1>3

LEMMA IndexRemovesAll ==
  ASSUME IxInv, NEW template, ixRemoveAllStatements(template)
  PROVE  IxInv'
<1> DEFINE gone == ListStatements(ixContent, template)
           indexed == {st \in gone : IndexStatement(st)}
<1>1. /\ Cardinality(indexed) <= 1 /\ ixContent' = ixContent \ gone /\ indexedOnly' = indexedOnly
      /\ IF indexed = {} THEN NoChange /\ UNCHANGED <<lost, kept>> ELSE \E st \in indexed : RemoveEntry(st)
  BY DEF ixRemoveAllStatements
<1>2. gone \subseteq ixContent /\ ixContent \subseteq IxStatements
  BY DEF ListStatements, IxInv, IxContentOK
<1>3. CASE indexed = {}
  <2>1. UNCHANGED <<ix, cacheId, lost, kept>>
    BY <1>1, <1>3 DEF NoChange
  <2>2. ixContent' \in SUBSET ixContent /\ \A x \in ixContent \ ixContent' : ~IndexStatement(x)
    BY <1>1, <1>3
  <2> QED
    BY <1>1, <2>1, <2>2, OthersGone
<1>4. CASE indexed # {}
  <2>1. PICK st \in indexed : RemoveEntry(st)
    BY <1>1, <1>4
  <2>2. indexed = {st}
    <3>1. IsFiniteSet(indexed)
      BY <1>2, FS_Subset DEF IxInv, IxContentOK
    <3>2. Cardinality(indexed) = 1
      BY <1>1, <1>4, <3>1, FS_CardinalityType, FS_EmptySet
    <3>3. \E x : indexed = {x}
      BY <3>1, <3>2, FS_Singleton
    <3> HIDE DEF indexed
    <3> QED
      BY <3>3
  <2>3. st \in IxStatements /\ IndexStatement(st)
    BY <1>2
  <2>4. ixContent' \in SUBSET ixContent /\ \A x \in ixContent \ ixContent' : IndexStatement(x) => x = st
    BY <1>1, <2>2
  <2>5. indexedOnly \ {Triple(st)} \subseteq indexedOnly'
    BY <1>1
  <2> QED
    BY <2>1, <2>3, <2>4, <2>5, EntryGone
<1> QED
  BY <1>3, <1>4

LEMMA IndexRebuilds ==
  ASSUME IxInv, rebuildIndex
  PROVE  IxInv'
<1> DEFINE closing == cacheCount >= cacheSize /\ cacheId # 0
           closed == IF closing THEN CloseTransaction(ix, cacheId) ELSE ix
           subjects == {st.s : st \in ixContent}
<1>1. /\ ix' = Rebuilt(closed, ixContent, subjects)
      /\ cacheId' = IF closing THEN 0 ELSE cacheId
      /\ indexedOnly' = {t \in indexedOnly : t.s \in DOMAIN closed.cache}
      /\ kept' = {t \in kept : t.s \in DOMAIN closed.cache} /\ UNCHANGED ixContent
  BY DEF rebuildIndex
<1>2. /\ Follows(ix, closed) /\ cacheId' \in {0, 1}
      /\ closed.transactionID # 0 => cacheId' = closed.transactionID
  <2>1. CASE closing
    <3>1. /\ Follows(ix, CloseTransaction(ix, cacheId))
          /\ cacheId # ix.transactionID => CloseTransaction(ix, cacheId) = ix
          /\ cacheId = ix.transactionID => CloseTransaction(ix, cacheId).transactionID = 0
      BY TransactionClosed DEF IxInv, IxCore
    <3> QED
      BY <1>1, <2>1, <3>1 DEF IxInv, IxCore
  <2>2. CASE ~closing
    BY <1>1, <2>2 DEF IxInv, IxCore, Follows, SameDocs
  <2> QED
    BY <2>1, <2>2
<1> HIDE DEF closed, closing
<1>3. ixContent \in SUBSET IxStatements /\ subjects \in SUBSET Subjects /\ IsFiniteSet(subjects)
  <2>1. ixContent \in SUBSET IxStatements /\ IsFiniteSet(ixContent)
    BY DEF IxInv, IxContentOK
  <2> DEFINE f == [st \in ixContent |-> st.s]
  <2>2. f \in Surjection(ixContent, subjects)
    BY DEF Surjection
  <2> HIDE DEF f
  <2>3. IsFiniteSet(subjects)
    BY <2>1, <2>2, FS_Surjection
  <2> QED
    BY <2>1, <2>3 DEF Subjects
<1>4. subjects = {st.s : st \in ixContent}
  OBVIOUS
<1> HIDE DEF subjects
<1>5. /\ Healthy(ix') /\ ix'.transactionID = closed.transactionID
      /\ \A t : Doc(ix', t) = RebuiltDoc(closed, ixContent, subjects, t)
  BY <1>1, <1>2, <1>3, RebuiltIndex DEF Follows
<1>6. IxCore' /\ IxContentOK'
  BY <1>1, <1>2, <1>5 DEF IxInv, IxCore, IxContentOK
<1>7. ASSUME NEW s \in Subjects, NEW e \in Doc(ix', s)
      PROVE  /\ IndexStatement(EntryOf(s, e)) /\ NodeText(e[2]) # NoText
             /\ EntryOf(s, e) \in {Triple(x) : x \in ixContent'} \cup indexedOnly' \cup kept'
  <2>1. CASE e \in Waiting(closed, s)
    <3>1. s \in DOMAIN closed.cache /\ e \in Doc(ix, s)
      BY <1>2, <2>1 DEF Waiting, Follows, SameDocs, Doc
    <3>2. /\ IndexStatement(EntryOf(s, e)) /\ NodeText(e[2]) # NoText
          /\ EntryOf(s, e) \in {Triple(x) : x \in ixContent} \cup indexedOnly \cup kept
      BY <3>1 DEF IxInv, EntriesKnown
    <3>3. EntryOf(s, e).s = s
      BY DEF EntryOf, Statement
    <3> QED
      BY <1>1, <3>1, <3>2, <3>3
  <2>2. CASE e \notin Waiting(closed, s)
    <3>1. e \in FieldsOf(ToIndex(ixContent, s))
      BY <1>5, <1>7, <2>2 DEF RebuiltDoc
    <3>2. PICK x \in ixContent : e = <<x.p, x.o>> /\ x.s = s /\ IndexStatement(x) /\ NodeText(x.o) # NoText
      BY <3>1 DEF FieldsOf, ToIndex
    <3>3. x \in IxStatements /\ e[2] = x.o
      BY <1>3, <3>2
    <3>4. EntryOf(s, e) = Triple(x) /\ IndexStatement(EntryOf(s, e))
      BY <3>2, <3>3, EntriesAre
    <3> QED
      BY <1>1, <3>2, <3>3, <3>4
  <2> QED
    BY <2>1, <2>2
<1>8. ASSUME NEW x \in ixContent', IndexStatement(x), NodeText(x.o) # NoText
      PROVE  <<x.p, x.o>> \in Doc(ix', x.s)
  <2>1. x \in ToIndex(ixContent, x.s) /\ x.s \in subjects
    BY <1>1, <1>4, <1>8 DEF ToIndex
  <2>2. <<x.p, x.o>> \in FieldsOf(ToIndex(ixContent, x.s))
    BY <2>1 DEF FieldsOf
  <2> QED
    BY <1>5, <2>1, <2>2 DEF RebuiltDoc
<1> QED
  BY <1>6, <1>7, <1>8 DEF IxInv, EntriesKnown, EntriesThere

LEMMA IndexQueried ==
  ASSUME IxInv, executeLuceneQuery
  PROVE  IxInv'
<1> DEFINE closed == IF cacheId # 0 THEN CloseTransaction(ix, cacheId) ELSE ix
<1>1. closed.present /\ ix' = GetIndexSearcher(closed) /\ cacheId' = 0 /\ UNCHANGED <<ixContent, indexedOnly, lost, kept>>
  BY DEF executeLuceneQuery
<1>2. Follows(ix, closed) /\ closed.transactionID = 0
  <2>1. CASE cacheId # 0
    <3>1. /\ Follows(ix, CloseTransaction(ix, cacheId))
          /\ cacheId # ix.transactionID => CloseTransaction(ix, cacheId) = ix
          /\ cacheId = ix.transactionID => CloseTransaction(ix, cacheId).transactionID = 0
      BY TransactionClosed DEF IxInv, IxCore
    <3> QED
      BY <2>1, <3>1 DEF IxInv, IxCore
  <2>2. CASE cacheId = 0
    BY <2>2 DEF IxInv, IxCore, Follows, SameDocs
  <2> QED
    BY <2>1, <2>2
<1> HIDE DEF closed
<1>3. Keeps(closed, ix')
  BY <1>1, <1>2, SearcherOpened DEF Follows, Healthy
<1>4. IxCore' /\ SameDocs(ix, ix')
  BY <1>1, <1>2, <1>3 DEF IxCore, Keeps, Follows, Healthy, Settled, SameDocs, Doc
<1> QED
  BY <1>1, <1>4, SameIndex

LEMMA IndexSizeSet ==
  ASSUME IxInv, NEW n, setTransactionCacheSize(n)
  PROVE  IxInv'
<1>1. /\ \/ ix' = CloseTransaction(ix, cacheId) /\ cacheId' = 0
         \/ ix' = ix /\ cacheId' = cacheId
      /\ UNCHANGED <<ixContent, indexedOnly, lost, kept>>
  BY DEF setTransactionCacheSize
<1>2. IxCore' /\ Follows(ix, ix')
  BY <1>1, CoreClosed DEF IxInv, IxCore
<1> QED
  BY <1>1, <1>2, SameIndex DEF Follows

LEMMA IndexOptimized ==
  ASSUME IxInv, optimizeIndex
  PROVE  IxInv'
<1>1. ix' = GetIndexWriter(ix) /\ UNCHANGED <<cacheId, ixContent, indexedOnly, lost, kept>>
  BY DEF optimizeIndex
<1>2. Keeps(ix, ix')
  BY <1>1, WriterOpened DEF IxInv, IxCore, Healthy
<1>3. IxCore' /\ SameDocs(ix, ix')
  BY <1>1, <1>2 DEF IxInv, IxCore, Keeps, Healthy, Settled, SameDocs, Doc
<1> QED
  BY <1>1, <1>3, SameIndex

LEMMA IndexReopened ==
  ASSUME IxInv, reopenIndex
  PROVE  IxInv'
<1>1. ix' = CloseIndex(ix) /\ UNCHANGED <<cacheId, ixContent, indexedOnly, lost, kept>>
  BY DEF reopenIndex
<1>2. IxCore' /\ SameDocs(ix, ix')
  BY <1>1, IndexClosed DEF IxInv, IxCore, Follows
<1> QED
  BY <1>1, <1>2, SameIndex

LEMMA IndexStutters ==
  ASSUME IxInv, UNCHANGED <<ixContent, ix, cacheId, indexedOnly, lost, kept>>
  PROVE  IxInv'
BY DEF IxInv, IxCore, IxContentOK, EntriesKnown, EntriesThere

LEMMA IndexBegins == IxInit => IxInv
<1> SUFFICES ASSUME IxInit PROVE IxInv
  OBVIOUS
<1>1. NoDocs \in Docs /\ DOMAIN NoDocs = {} /\ NoView \in [open : BOOLEAN, docs : Docs] /\ ~NoView.open
  BY NoDocsAre DEF NoView
<1>2. ix \in IxStates
  BY <1>1 DEF IxInit, IxStates
<1>3. Healthy(ix)
  BY <1>1, <1>2 DEF Healthy, Settled, IxOK, IxInit
<1>4. \A s : Doc(ix, s) = {}
  BY <1>1 DEF IxInit, Doc, BelowCache
<1>5. IxCore /\ IxContentOK
  BY <1>3, FS_EmptySet DEF IxCore, IxContentOK, IxInit
<1> QED
  BY <1>4, <1>5 DEF IxInv, EntriesKnown, EntriesThere, IxInit

(***************************************************************************)
(* index/indexfiltermodel.cpp, cluceneindex.cpp: whatever is added,        *)
(* removed, searched, rebuilt and reopened in whatever order, and whatever *)
(* the size of the transaction cache, a writer is never open together with *)
(* a reader or a searcher, the next query finds every stored literal whose *)
(* entry did not go with that of the same triple in another graph, and no  *)
(* entry but those whose removal was skipped outlives its statement once   *)
(* the index is opened again.                                              *)
(***************************************************************************)
THEOREM IndexStaysInStep == IxInit /\ [][IxNext]_ixVars => []IndexAgrees
<1>1. IxInv /\ [IxNext]_ixVars => IxInv'
  <2> SUFFICES ASSUME IxInv, [IxNext]_ixVars PROVE IxInv'
    OBVIOUS
  <2>1. CASE \E st \in IxStatements : ixAddStatement(st)
    BY <2>1, IndexAdds
  <2>2. CASE \E st \in IxStatements : ixRemoveStatement(st)
    BY <2>2, IndexRemoves
  <2>3. CASE \E st \in IxStatements : ixRemoveAllStatements(Statement(st.s, st.p, Empty, st.c))
    BY <2>3, IndexRemovesAll
  <2>4. CASE \E n \in CacheSizes : setTransactionCacheSize(n)
    BY <2>4, IndexSizeSet
  <2>5. CASE executeLuceneQuery
    BY <2>5, IndexQueried
  <2>6. CASE nextHit \/ closeHits \/ UNCHANGED ixVars
    BY <2>6, IndexStutters DEF nextHit, closeHits, ixVars
  <2>7. CASE rebuildIndex
    BY <2>7, IndexRebuilds
  <2>8. CASE optimizeIndex
    BY <2>8, IndexOptimized
  <2>9. CASE reopenIndex
    BY <2>9, IndexReopened
  <2> QED
    BY <2>1, <2>2, <2>3, <2>4, <2>5, <2>6, <2>7, <2>8, <2>9 DEF IxNext
<1> QED
  BY <1>1, IndexBegins, IxInvAgrees, PTL
=============================================================================
