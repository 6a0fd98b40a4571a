------------------------ MODULE VirtuosoController ------------------------
(***************************************************************************)
(* The Virtuoso backend's server process: VirtuosoController, one in each  *)
(* application, and the lock files (LockFile) they take: one of Soprano in *)
(* the storage directory, one of sopranod, and Virtuoso's own lock on its  *)
(* database.                                                               *)
(*                                                                         *)
(* External: fcntl gives a write lock to one process at a time and drops   *)
(* it with the process; a Virtuoso server that is started prints its       *)
(* lines, waits for the database (+wait), and may die at any time.         *)
(***************************************************************************)
EXTENDS Integers, Sequences, FiniteSets

CONSTANTS
  Apps,          \* applications with a controller on the same storage
  MaxServers     \* bound on the servers that are started

\* "none" stands for nobody who has the lock.
ASSUME AppsAssumption == "none" \notin Apps

VARIABLES
  vcStatus,      \* VirtuosoController::m_status
  vcPhase,       \* where the application is in start() or shutdown()
  vcServer,      \* m_virtuosoProcess: the server it has started, or 0
  vcForced,      \* the setting "forcedstart" of the start in progress
  vcExit,        \* the last stopped() signal
  vcConfig,      \* the temporary configuration file exists
  vcReturned,    \* what the last call returned
  lockHolder,    \* soprano-virtuoso.lock: who has the lock, or "none"
  servers,       \* state of each server: online, starting, ..., dead
  databaseOf,    \* the server that has soprano-virtuoso.db, or 0
  trxBroken,     \* the transaction log is corrupted
  killedServed   \* a forced start has killed a server in use (for the property)

vcVars == <<vcStatus, vcPhase, vcServer, vcForced, vcExit, vcConfig, vcReturned, lockHolder,
            servers, databaseOf, trxBroken, killedServed>>

VcInit ==
  /\ vcStatus = [a \in Apps |-> "NotRunning"]
  /\ vcPhase = [a \in Apps |-> "idle"]
  /\ vcServer = [a \in Apps |-> 0]
  /\ vcForced = [a \in Apps |-> FALSE]
  /\ vcExit = [a \in Apps |-> "none"]
  /\ vcConfig = [a \in Apps |-> FALSE]
  /\ vcReturned = [a \in Apps |-> "nothing"]
  /\ lockHolder = "none"
  /\ servers = <<>> /\ databaseOf = 0
  /\ trxBroken \in BOOLEAN
  /\ killedServed = FALSE
-----------------------------------------------------------------------------
Alive(s) == s # 0 /\ servers[s] # "dead"
DatabaseUser == IF Alive(databaseOf) THEN databaseOf ELSE 0

AquireLock_Shared(a) == lockHolder' = a

\* LockFile: another process makes F_SETLK fail; a lock of the same process does not.
AquireLock(a) == lockHolder \in {"none", a} /\ lockHolder' = a
LockRefused(a) == lockHolder \notin {"none", a} /\ UNCHANGED lockHolder
ReleaseLock(a) == lockHolder' = IF lockHolder = a THEN "none" ELSE lockHolder

Return(a, value) ==
  /\ vcPhase' = [vcPhase EXCEPT ![a] = "idle"]
  /\ vcReturned' = [vcReturned EXCEPT ![a] = value]

\* Options, paths and indexes of the configuration are not looked at here.
writeConfigFile(a) == vcConfig' = [vcConfig EXCEPT ![a] = TRUE]

\* start: refused unless NotRunning.  The configuration file is written first.
start(a, forced) ==
  /\ vcPhase[a] = "idle"
  /\ \/ /\ vcStatus[a] # "NotRunning"
        /\ Return(a, FALSE)
        /\ UNCHANGED <<vcStatus, vcForced, vcConfig>>
     \/ /\ vcStatus[a] = "NotRunning"
        /\ vcStatus' = [vcStatus EXCEPT ![a] = "StartingUp"]
        /\ vcForced' = [vcForced EXCEPT ![a] = forced]
        /\ writeConfigFile(a)
        /\ vcPhase' = [vcPhase EXCEPT ![a] = "lock"]
        /\ UNCHANGED vcReturned
  /\ UNCHANGED <<vcServer, vcExit, lockHolder, servers, databaseOf, trxBroken, killedServed>>

\* Without the lock the start fails, and leaves the status StartingUp.
takeLock(a) ==
  /\ vcPhase[a] = "lock"
  /\ \/ /\ AquireLock(a)
        /\ vcPhase' = [vcPhase EXCEPT ![a] = "check"]
        /\ UNCHANGED vcReturned
     \/ LockRefused(a) /\ Return(a, FALSE)
  /\ UNCHANGED <<vcStatus, vcServer, vcForced, vcExit, vcConfig, servers, databaseOf,
                 trxBroken, killedServed>>

\* pidOfRunningVirtuosoInstance: a server that has the database is told to stop
\* when the start is forced; it is given 30 seconds.
ServedBy(s) == {a \in Apps : vcServer[a] = s /\ vcStatus[a] = "Running"}

checkDatabase(a) ==
  /\ vcPhase[a] = "check"
  /\ LET s == DatabaseUser
     IN /\ vcPhase' = [vcPhase EXCEPT ![a] = IF s # 0 /\ vcForced[a] THEN "waitOld" ELSE "spawn"]
        /\ servers' = IF s # 0 /\ vcForced[a] THEN [servers EXCEPT ![s] = "stopping"] ELSE servers
        /\ killedServed' = (killedServed \/ (s # 0 /\ vcForced[a] /\ ServedBy(s) # {}))
  /\ UNCHANGED <<vcStatus, vcServer, vcForced, vcExit, vcConfig, vcReturned, lockHolder,
                 databaseOf, trxBroken>>

waitOld(a) ==
  /\ vcPhase[a] = "waitOld"      \* the old server is gone, or the time is up
  /\ vcPhase' = [vcPhase EXCEPT ![a] = "spawn"]
  /\ UNCHANGED <<vcStatus, vcServer, vcForced, vcExit, vcConfig, vcReturned, lockHolder, servers,
                 databaseOf, trxBroken, killedServed>>

\* The process starts, or does not: then too the status stays StartingUp.
NewServer(a) ==
  /\ Len(servers) < MaxServers
  /\ servers' = Append(servers, "starting")
  /\ vcServer' = [vcServer EXCEPT ![a] = Len(servers) + 1]

spawn(a) ==
  /\ vcPhase[a] = "spawn"
  /\ \/ NewServer(a) /\ vcPhase' = [vcPhase EXCEPT ![a] = "wait"] /\ UNCHANGED vcReturned
     \/ Return(a, FALSE) /\ UNCHANGED <<vcServer, servers>>
  /\ UNCHANGED <<vcStatus, vcForced, vcExit, vcConfig, lockHolder, databaseOf, trxBroken, killedServed>>
-----------------------------------------------------------------------------
\* slotProcessFinished, from the event loop or inside one of the waits
ExitStatus(a, how) ==
  CASE how = "crashed" -> "CrashExit"
    [] how # "crashed" /\ vcStatus[a] = "Killing" -> "ForcedExit"
    [] how # "crashed" /\ vcStatus[a] = "ShuttingDown" -> "NormalExit"
    [] OTHER -> "ThirdPartyExit"

ProcessFinished(a, how) ==
  /\ vcConfig' = [vcConfig EXCEPT ![a] = FALSE]
  /\ ReleaseLock(a)
  /\ vcExit' = [vcExit EXCEPT ![a] = ExitStatus(a, how)]
  /\ vcStatus' = [vcStatus EXCEPT ![a] = "NotRunning"]
  /\ vcServer' = [vcServer EXCEPT ![a] = 0]

slotProcessFinished(a) ==
  /\ vcPhase[a] = "idle" /\ vcServer[a] # 0 /\ ~Alive(vcServer[a])
  /\ \E how \in {"crashed", "exited"} : ProcessFinished(a, how)
  /\ UNCHANGED <<vcPhase, vcForced, vcReturned, servers, databaseOf, trxBroken, killedServed>>

\* waitForVirtuosoToInitialize: the server is online, asks to delete its
\* transaction log, or is dead.  The restart does not run the slot; when it fails
\* the status stays StartingUp, and the lock is kept.
serverOnline(a) ==
  /\ vcPhase[a] = "wait" /\ servers[vcServer[a]] = "online"
  /\ vcStatus' = [vcStatus EXCEPT ![a] = "Running"]
  /\ Return(a, TRUE)
  /\ UNCHANGED <<vcServer, vcForced, vcExit, vcConfig, lockHolder, servers, databaseOf,
                 trxBroken, killedServed>>

deleteTransactionLog(a) ==
  /\ vcPhase[a] = "wait" /\ servers[vcServer[a]] = "brokenLog"
  /\ trxBroken' = FALSE
  /\ LET closed == [servers EXCEPT ![vcServer[a]] = "dead"]
     IN \/ /\ Len(servers) < MaxServers
           /\ servers' = Append(closed, "starting")
           /\ vcServer' = [vcServer EXCEPT ![a] = Len(servers) + 1]
           /\ UNCHANGED <<vcPhase, vcReturned>>
        \/ servers' = closed /\ vcServer' = [vcServer EXCEPT ![a] = 0] /\ Return(a, FALSE)
  /\ UNCHANGED <<vcStatus, vcForced, vcExit, vcConfig, lockHolder, databaseOf, killedServed>>

startFailed(a) ==
  /\ vcPhase[a] = "wait" /\ ~Alive(vcServer[a])
  /\ \E how \in {"crashed", "exited"} : ProcessFinished(a, how)
  /\ Return(a, FALSE)
  /\ UNCHANGED <<vcForced, servers, databaseOf, trxBroken, killedServed>>

\* shutdown, also of the destructor: SIGINT, 30 seconds, kill.
shutdown(a) ==
  /\ vcPhase[a] = "idle"
  /\ \/ /\ Alive(vcServer[a])
        /\ vcStatus' = [vcStatus EXCEPT ![a] = "ShuttingDown"]
        /\ servers' = [servers EXCEPT ![vcServer[a]] = "stopping"]
        /\ vcPhase' = [vcPhase EXCEPT ![a] = "waitFinished"]
        /\ UNCHANGED <<vcReturned, lockHolder>>
     \/ /\ vcServer[a] = 0
        /\ ReleaseLock(a)
        /\ Return(a, FALSE)
        /\ UNCHANGED <<vcStatus, servers>>
  /\ UNCHANGED <<vcServer, vcForced, vcExit, vcConfig, databaseOf, trxBroken, killedServed>>

shutdownDone(a) ==
  /\ vcPhase[a] = "waitFinished" /\ ~Alive(vcServer[a])
  /\ \E how \in {"crashed", "exited"} : ProcessFinished(a, how)
  /\ Return(a, TRUE)
  /\ UNCHANGED <<vcForced, servers, databaseOf, trxBroken, killedServed>>

\* A killed process counts as crashed, so no ForcedExit is ever told.
shutdownKills(a) ==
  /\ vcPhase[a] = "waitFinished" /\ Alive(vcServer[a])
  /\ servers' = [servers EXCEPT ![vcServer[a]] = "dead"]
  /\ ProcessFinished(a, "crashed")
  /\ Return(a, FALSE)
  /\ UNCHANGED <<vcForced, databaseOf, trxBroken, killedServed>>

\* The controller is destroyed and made anew, or the application dies: its
\* server stays behind, the lock and what it knew are gone.
Forget(a) ==
  /\ vcStatus' = [vcStatus EXCEPT ![a] = "NotRunning"]
  /\ vcPhase' = [vcPhase EXCEPT ![a] = "idle"]
  /\ vcServer' = [vcServer EXCEPT ![a] = 0]
  /\ vcReturned' = [vcReturned EXCEPT ![a] = "nothing"]
  /\ ReleaseLock(a)
  /\ UNCHANGED <<vcForced, vcExit, vcConfig, servers, databaseOf, trxBroken, killedServed>>

destroyController(a) == vcPhase[a] = "idle" /\ vcServer[a] = 0 /\ Forget(a)
crash(a) == vcServer[a] # 0 /\ Forget(a)
-----------------------------------------------------------------------------
\* external: the server
serverStep(s) ==
  /\ \/ /\ servers[s] = "starting" /\ ~trxBroken /\ DatabaseUser = 0
        /\ servers' = [servers EXCEPT ![s] = "online"] /\ databaseOf' = s
     \/ /\ servers[s] = "starting" /\ trxBroken /\ DatabaseUser = 0
        /\ servers' = [servers EXCEPT ![s] = "brokenLog"] /\ databaseOf' = s
     \/ servers[s] # "dead" /\ servers' = [servers EXCEPT ![s] = "dead"] /\ UNCHANGED databaseOf
  /\ UNCHANGED <<vcStatus, vcPhase, vcServer, vcForced, vcExit, vcConfig, vcReturned, lockHolder,
                 trxBroken, killedServed>>

VcNext ==
  \/ \E a \in Apps :
       \/ \E forced \in BOOLEAN : start(a, forced)
       \/ takeLock(a) \/ checkDatabase(a) \/ waitOld(a) \/ spawn(a)
       \/ serverOnline(a) \/ deleteTransactionLog(a) \/ startFailed(a)
       \/ shutdown(a) \/ shutdownDone(a) \/ shutdownKills(a)
       \/ slotProcessFinished(a) \/ destroyController(a) \/ crash(a)
  \/ \E s \in DOMAIN servers : serverStep(s)
-----------------------------------------------------------------------------
(***************************************************************************)
(* virtuosocontroller.cpp: "acquire a lock for ourselves" before another   *)
(* server is "in our way".  A controller that is Running holds the lock of *)
(* its storage, so no two serve the same data and a forced start stops     *)
(* only a server whose application is gone; and when start() has returned  *)
(* true, the controller's server is online or is known to have ended only  *)
(* through slotProcessFinished, which tells it.                            *)
(***************************************************************************)
ServedExclusively ==
  /\ ~killedServed
  /\ \A a \in Apps :
       /\ vcStatus[a] \in {"Running", "ShuttingDown"} => lockHolder = a /\ vcServer[a] # 0
       /\ vcStatus[a] = "Running" /\ Alive(vcServer[a]) => databaseOf = vcServer[a]
       /\ vcStatus[a] = "NotRunning" => vcServer[a] = 0 /\ ~(lockHolder = a)
=============================================================================
