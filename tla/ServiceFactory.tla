---------------------------- MODULE ServiceFactory ----------------------------
(***************************************************************************)
(* The life of a service: NacosServiceFactory::Create*Service builds the   *)
(* objects of a service and starts its threads, ~ObjectConfigData stops    *)
(* the threads and deletes the objects.  Services are created by as many   *)
(* threads of the application; they share Init, the log and the UDP port.  *)
(* A creation may fail at each point where the code throws, and leaves     *)
(* then what it has built and started: nobody has a pointer to it.         *)
(***************************************************************************)
EXTENDS Integers, Sequences, FiniteSets

CONSTANTS
    Services,   \* the calls of Create*Service, one service each
    Factories,  \* NacosServiceFactory objects
    NoService   \* no service

ASSUME NoServiceAssumption == NoService \notin Services

VARIABLES
    settings,    \* settings[s]: what s is, and how its factory is configured
    stage,       \* stage[s]: how far the creation or destruction of s has got
    position,    \* position[s]: the next step of the destruction of s
    objects,     \* objects[s]: the objects of s that exist; the Thread objects among
                 \* them only if they outlive their owner
    threads,     \* threads[s]: the threads of s that run
    inited,      \* Init::inited
    inits,       \* how often the body of doInit() has been done
    initLock,    \* who holds initflagMutex
    logDone,     \* NacosServiceFactory::logSystemInitialized
    logLocks,    \* logLocks[f]: who holds the logSysInitLock of factory f
    logPaths,    \* how often a factory has set the path of the log
    udpPort,     \* the service whose socket is bound to the UDP port
    aborted      \* an exception has left a thread function: abort()

service == <<settings, stage, position, objects, threads>>
logging == <<logDone, logLocks, logPaths>>
initializing == <<inited, inits, initLock>>
vars == <<service, logging, initializing, udpPort, aborted>>

Kinds == {"naming", "config", "maintain"}
Settings == [kind : Kinds, auth : BOOLEAN, endpoint : BOOLEAN, factory : Factories]

-----------------------------------------------------------------------------
(* What a service is made of. *)

HttpObjects(s) ==
    {"httpCli", "httpDelegate"} \cup IF settings[s].auth THEN {"securityManager"} ELSE {}

\* The Thread of a server list manager, the only object whose owner forgets it.
PullThread(s) == IF settings[s].endpoint THEN {"pullThread"} ELSE {}

Assembled(kind) ==
    CASE kind = "naming" -> {"serverProxy", "beatReactor", "eventDispatcher",
                             "subscriptionPoller", "udpNamingServiceListener", "hostReactor"}
      [] kind = "config" -> {"configProxy", "localSnapshotManager", "clientWorker"}
      [] kind = "maintain" -> {"serverProxy"}

\* The thread that the destructor of an object stops, if it runs.
ThreadOf ==
    [beatReactor |-> "beats", subscriptionPoller |-> "polling",
     udpNamingServiceListener |-> "listening", securityManager |-> "refresh",
     serverListManager |-> "pulling", clientWorker |-> "watcher"]
Threads == {ThreadOf[o] : o \in DOMAIN ThreadOf}

\* The objects a thread calls in its rounds.
Uses(t, s) ==
    {"appConfigManager"}
    \cup CASE t = "beats" -> {"beatReactor", "serverProxy", "serverListManager"} \cup HttpObjects(s)
           [] t = "polling" -> {"subscriptionPoller", "serverProxy", "serverListManager", "hostReactor",
                                "eventDispatcher"} \cup HttpObjects(s)
           [] t = "listening" -> {"udpNamingServiceListener", "hostReactor", "eventDispatcher"}
           [] t = "refresh" -> {"securityManager", "serverListManager", "httpCli"}
           [] t = "pulling" -> {"serverListManager"} \cup HttpObjects(s)
           [] t = "watcher" -> {"clientWorker", "configProxy", "serverListManager"} \cup HttpObjects(s)

\* The destructor's steps: the thread to stop or the object to delete.
Destruction(kind) ==
    CASE kind = "naming" ->
           <<"beats", "polling", "listening", "refresh", "pulling",
             "httpDelegate", "beatReactor", "subscriptionPoller", "udpNamingServiceListener",
             "eventDispatcher", "hostReactor", "serverProxy", "securityManager",
             "serverListManager", "httpCli", "appConfigManager", "sequenceProvider">>
      [] kind = "config" ->
           <<"watcher", "refresh", "pulling",
             "clientWorker", "httpDelegate", "securityManager", "serverListManager",
             "httpCli", "appConfigManager", "configProxy">>
      [] kind = "maintain" ->
           <<"pulling", "refresh",
             "serverProxy", "serverListManager", "appConfigManager", "securityManager",
             "httpDelegate", "httpCli">>

-----------------------------------------------------------------------------
Creating == {"doInit", "initflagMutex", "recheckInited", "init", "config", "log", "logSysInitLock", "recheck",
             "setFlag", "apply", "servers", "assemble", "start", "login"}
Stages == {"new", "ready", "failed", "destroying", "gone"} \cup Creating
AllObjects == {"appConfigManager", "httpCli", "httpDelegate", "securityManager", "serverListManager",
               "pullThread", "sequenceProvider"} \cup UNION {Assembled(k) : k \in Kinds}

TypeOK ==
    /\ settings \in [Services -> Settings]
    /\ stage \in [Services -> Stages]
    /\ position \in [Services -> 1..17]
    /\ \A s \in Services : position[s] <= Len(Destruction(settings[s].kind))
    /\ objects \in [Services -> SUBSET AllObjects]
    /\ threads \in [Services -> SUBSET Threads]
    /\ inited \in BOOLEAN /\ logDone \in BOOLEAN /\ aborted \in BOOLEAN
    /\ inits \in Nat /\ logPaths \in Nat
    /\ {initLock, udpPort} \subseteq Services \cup {NoService}
    /\ logLocks \in [Factories -> Services \cup {NoService}]
    /\ initLock # NoService => stage[initLock] \in {"recheckInited", "init"}
    /\ \A f \in Factories :
         logLocks[f] # NoService => /\ settings[logLocks[f]].factory = f
                                    /\ stage[logLocks[f]] \in {"recheck", "setFlag", "apply"}

Init ==
    /\ settings \in [Services -> Settings]
    /\ stage = [s \in Services |-> "new"]
    /\ position = [s \in Services |-> 1]
    /\ objects = [s \in Services |-> {}]
    /\ threads = [s \in Services |-> {}]
    /\ inited = FALSE /\ inits = 0 /\ initLock = NoService
    /\ logDone = FALSE /\ logPaths = 0
    /\ logLocks = [f \in Factories |-> NoService]
    /\ udpPort = NoService
    /\ aborted = FALSE

Step(s, from, to) == stage[s] = from /\ stage' = [stage EXCEPT ![s] = to]
Add(s, os) == objects' = [objects EXCEPT ![s] = @ \cup os]
Start(s, ts) == threads' = [threads EXCEPT ![s] = @ \cup ts]

-----------------------------------------------------------------------------
(* Init::doInit(), which is double-checked. *)

TestInited(s) ==
    /\ Step(s, "doInit", IF inited THEN "config" ELSE "initflagMutex")
    /\ UNCHANGED <<settings, position, objects, threads, logging, initializing, udpPort, aborted>>

LockInit(s) ==
    /\ Step(s, "initflagMutex", "recheckInited")
    /\ initLock = NoService
    /\ initLock' = s
    /\ UNCHANGED <<settings, position, objects, threads, logging, inited, inits, udpPort, aborted>>

\* Mutant: what another thread has done meanwhile is done again.
RecheckInited_Skipped(s) ==
    /\ Step(s, "recheckInited", "init")
    /\ UNCHANGED <<settings, position, objects, threads, logging, initializing, udpPort, aborted>>

RecheckInited(s) ==
    /\ Step(s, "recheckInited", IF inited THEN "config" ELSE "init")
    /\ initLock' = IF inited THEN NoService ELSE initLock
    /\ UNCHANGED <<settings, position, objects, threads, logging, inited, inits, udpPort, aborted>>

DoInit(s) ==
    /\ Step(s, "init", "config")
    /\ inited' = TRUE
    /\ inits' = inits + 1
    /\ initLock' = NoService
    /\ UNCHANGED <<settings, position, objects, threads, logging, udpPort, aborted>>

\* Mutant: the exception leaves the mutex locked.
InitFails_KeepsLock(s) ==
    /\ Step(s, "init", "failed")
    /\ UNCHANGED <<settings, position, objects, threads, logging, initializing, udpPort, aborted>>

\* The log of the bootstrap stage cannot be opened.
InitFails(s) ==
    /\ Step(s, "init", "failed")
    /\ initLock' = NoService
    /\ UNCHANGED <<settings, position, objects, threads, logging, inited, inits, udpPort, aborted>>

-----------------------------------------------------------------------------
(* buildConfigManager() and initializeRuntimeLogSettings(). *)

BuildConfigManager(s) ==
    /\ Step(s, "config", "log")
    /\ Add(s, {"appConfigManager"})
    /\ UNCHANGED <<settings, position, threads, logging, initializing, udpPort, aborted>>

\* The configuration file is not named (checkConfig) or cannot be read; the
\* AppConfigManager, which is not in the ObjectConfigData yet, is lost too.
ConfigFails(s) ==
    /\ Step(s, "config", "failed")
    /\ UNCHANGED <<settings, position, objects, threads, logging, initializing, udpPort, aborted>>

TestLog(s) ==
    /\ Step(s, "log", IF logDone THEN "servers" ELSE "logSysInitLock")
    /\ UNCHANGED <<settings, position, objects, threads, logging, initializing, udpPort, aborted>>

\* The flag is static, the lock is a member of each factory.
LockLog(s) ==
    LET f == settings[s].factory IN
    /\ Step(s, "logSysInitLock", "recheck")
    /\ logLocks[f] = NoService
    /\ logLocks' = [logLocks EXCEPT ![f] = s]
    /\ UNCHANGED <<settings, position, objects, threads, logDone, logPaths, initializing, udpPort, aborted>>

\* Mutant: the flag is not looked at again.
RecheckLog_Skipped(s) ==
    /\ Step(s, "recheck", "setFlag")
    /\ UNCHANGED <<settings, position, objects, threads, logging, initializing, udpPort, aborted>>

\* Mutant: the early return leaves the lock locked.
RecheckLog_KeepsLock(s) ==
    /\ Step(s, "recheck", IF logDone THEN "servers" ELSE "setFlag")
    /\ UNCHANGED <<settings, position, objects, threads, logging, initializing, udpPort, aborted>>

RecheckLog(s) ==
    /\ Step(s, "recheck", IF logDone THEN "servers" ELSE "setFlag")
    /\ logLocks' = IF logDone
                   THEN [logLocks EXCEPT ![settings[s].factory] = NoService] ELSE logLocks
    /\ UNCHANGED <<settings, position, objects, threads, logDone, logPaths, initializing, udpPort, aborted>>

\* The flag is set before the settings are applied.
SetLogFlag(s) ==
    /\ Step(s, "setFlag", "apply")
    /\ logDone' = TRUE
    /\ UNCHANGED <<settings, position, objects, threads, logLocks, logPaths, initializing, udpPort, aborted>>

\* applyLogSettings() sets the path, and may throw there, when the file cannot be
\* opened, or after it, when the level or the size is not valid.
ApplyLogSettings(s) ==
    /\ \/ Step(s, "apply", "servers") /\ logPaths' = logPaths + 1
       \/ Step(s, "apply", "failed") /\ logPaths' \in {logPaths, logPaths + 1}
    /\ logLocks' = [logLocks EXCEPT ![settings[s].factory] = NoService]
    /\ UNCHANGED <<settings, position, objects, threads, logDone, initializing, udpPort, aborted>>

-----------------------------------------------------------------------------
(* The rest of Create*Service. *)

\* With an endpoint the thread that pulls the list is started by the
\* constructor of the server list manager, which throws when there is no
\* server: then this object is not left behind, for its thread is not started.
BuildServers(s) ==
    /\ stage[s] = "servers"
    /\ \/ /\ Step(s, "servers", "assemble")
          /\ Add(s, HttpObjects(s) \cup {"serverListManager"} \cup PullThread(s))
          /\ Start(s, IF settings[s].endpoint THEN {"pulling"} ELSE {})
       \/ /\ Step(s, "servers", "failed")
          /\ Add(s, HttpObjects(s))
          /\ UNCHANGED threads
    /\ UNCHANGED <<settings, position, logging, initializing, udpPort, aborted>>

\* The file of the sequence provider, the last of the objects, may fail.
Assemble(s) ==
    LET kind == settings[s].kind IN
    /\ \/ /\ Step(s, "assemble", "start")
          /\ Add(s, Assembled(kind) \cup IF kind = "naming" THEN {"sequenceProvider"} ELSE {})
       \/ /\ kind = "naming"
          /\ Step(s, "assemble", "failed")
          /\ Add(s, Assembled(kind))
    /\ UNCHANGED <<settings, position, threads, logging, initializing, udpPort, aborted>>

\* The constructor of the service: NacosNamingService starts three threads ...
StartThreads(s) ==
    /\ Step(s, "start", IF settings[s].auth THEN "login" ELSE "ready")
    /\ Start(s, IF settings[s].kind = "naming" THEN {"beats", "polling", "listening"} ELSE {})
    /\ UNCHANGED <<settings, position, objects, logging, initializing, udpPort, aborted>>

\* ... before the login, which may throw.
Login(s) ==
    /\ \/ Step(s, "login", "ready") /\ Start(s, {"refresh"})
       \/ Step(s, "login", "failed") /\ UNCHANGED threads
    /\ UNCHANGED <<settings, position, objects, logging, initializing, udpPort, aborted>>

\* The first addListener() starts the thread of the ClientWorker.
StartListening(s) ==
    /\ stage[s] = "ready" /\ settings[s].kind = "config"
    /\ "watcher" \notin threads[s]
    /\ Start(s, {"watcher"})
    /\ UNCHANGED <<settings, stage, position, objects, logging, initializing, udpPort, aborted>>

\* initializeUdpListener(): every service has the same port unless it is
\* configured, and an exception that leaves the thread function aborts.
Bind(s) ==
    /\ "listening" \in threads[s] /\ udpPort # s
    /\ IF udpPort = NoService
       THEN udpPort' = s /\ UNCHANGED aborted
       ELSE aborted' = TRUE /\ UNCHANGED udpPort
    /\ UNCHANGED <<service, logging, initializing>>

Begin(s) ==
    /\ Step(s, "new", "doInit")
    /\ UNCHANGED <<settings, position, objects, threads, logging, initializing, udpPort, aborted>>

-----------------------------------------------------------------------------
(* ~ObjectConfigData(). *)

BeginDestroy(s) ==
    /\ Step(s, "ready", "destroying")
    /\ UNCHANGED <<settings, position, objects, threads, logging, initializing, udpPort, aborted>>

\* The next of the steps is done: a thread has ended, an object is deleted.
\* The UDP thread gives its port back when it ends, and does not end before it
\* has bound it.
DestroyNext(s, steps, ended) ==
    /\ "listening" \in ended => udpPort = s
    /\ threads' = [threads EXCEPT ![s] = @ \ ended]
    /\ objects' = [objects EXCEPT ![s] = @ \ {steps[position[s]]}]
    /\ IF position[s] = Len(steps)
       THEN Step(s, "destroying", "gone") /\ UNCHANGED position
       ELSE position' = [position EXCEPT ![s] = @ + 1] /\ UNCHANGED stage
    /\ udpPort' = IF "listening" \in ended THEN NoService ELSE udpPort
    /\ UNCHANGED <<settings, logging, initializing, aborted>>

\* The thread that a step stops and joins: by name, or with its object.
Ended(s, what) ==
    threads[s] \cap IF what \in DOMAIN ThreadOf THEN {ThreadOf[what]} ELSE {what}

\* Mutant: threads are stopped by the destructors of their objects only.
DestroyStep_NoStop(s) ==
    /\ stage[s] = "destroying"
    /\ LET steps == Destruction(settings[s].kind)
           what == steps[position[s]]
       IN DestroyNext(s, steps, IF what \in Threads THEN {} ELSE Ended(s, what))

\* Mutant: the explicit stops are the only ones, and the first is forgotten.
DestroyStep_FirstForgotten(s) ==
    /\ stage[s] = "destroying"
    /\ LET steps == Destruction(settings[s].kind)
           what == steps[position[s]]
       IN DestroyNext(s, steps, IF position[s] = 1 \/ what \notin Threads THEN {} ELSE Ended(s, what))

DestroyStep(s) ==
    /\ stage[s] = "destroying"
    /\ LET steps == Destruction(settings[s].kind)
       IN DestroyNext(s, steps, Ended(s, steps[position[s]]))

-----------------------------------------------------------------------------
Create(s) ==
    \/ TestInited(s) \/ LockInit(s) \/ RecheckInited(s) \/ DoInit(s) \/ InitFails(s)
    \/ BuildConfigManager(s) \/ ConfigFails(s)
    \/ TestLog(s) \/ LockLog(s) \/ RecheckLog(s) \/ SetLogFlag(s) \/ ApplyLogSettings(s)
    \/ BuildServers(s) \/ Assemble(s) \/ StartThreads(s) \/ Login(s)

Next ==
    /\ ~aborted
    /\ \E s \in Services :
         \/ Begin(s) \/ Create(s) \/ StartListening(s) \/ Bind(s)
         \/ BeginDestroy(s) \/ DestroyStep(s)

\* A creation that has begun runs on; nothing says that a service is created or
\* destroyed, nor that a destruction ends: the signal that ends the UDP thread
\* may be lost.
Fairness == \A s \in Services : WF_vars(~aborted /\ Create(s))

Spec == Init /\ [][Next]_vars
FairSpec == Spec /\ Fairness

-----------------------------------------------------------------------------
(* Properties. *)

\* The global initialisation, curl's among it, is done once, whichever threads
\* create the first services (Init::doInit).
InitializedOnce == inits <= 1 /\ (inited => inits = 1)

\* "On stage #2, the path can be configured AT MOST ONCE" (Logger.h).
ConfiguredOnce == logPaths <= 1

\* No thread finds an object deleted that it calls: neither while a service is
\* destroyed, whose stops come before its deletions, nor after a creation has
\* failed with threads already started, whose objects are never deleted.
NoUseAfterDelete ==
    \A s \in Services : \A t \in threads[s] : Uses(t, s) \subseteq objects[s]

\* A destroyed service leaves no thread, no socket on the UDP port and no
\* object, but for the snapshot manager of a configuration service, which
\* destroyConfigService() does not delete, and the Thread of a server list
\* manager with an endpoint, which ServerListManager::stop() does not delete.
DestroyedIsGone ==
    \A s \in Services :
        stage[s] = "gone" => /\ threads[s] = {} /\ udpPort # s
                             /\ objects[s] \subseteq {"localSnapshotManager", "pullThread"}

\* A creation that has begun returns or throws, whatever other creations fail
\* at: no exception leaves a lock behind.
CallsReturn ==
    \A s \in Services : stage[s] \in Creating ~> stage[s] \notin Creating \/ aborted
================================================================================
