-------------------------- MODULE ServiceFactoryProofs --------------------------
(***************************************************************************)
(* For any number of services that are created and destroyed at once: the  *)
(* types, the double-checked initialisations, and that no thread outlives   *)
(* an object it calls, neither in a failed creation nor in a destruction.   *)
(***************************************************************************)
EXTENDS ServiceFactory, TLAPS

-----------------------------------------------------------------------------
(* The order of the destructors. *)

Shared == {"appConfigManager", "httpCli", "httpDelegate", "securityManager", "serverListManager",
           "pullThread"}

\* The objects that a destruction leaves behind.
Left == {"localSnapshotManager", "pullThread"}

\* The objects and the threads a service of a kind may have.
MayHave(kind) == Shared \cup Assembled(kind) \cup IF kind = "naming" THEN {"sequenceProvider"} ELSE {}
MayRun(kind) ==
    {"refresh", "pulling"}
    \cup (IF kind = "naming" THEN {"beats", "polling", "listening"} ELSE {})
    \cup (IF kind = "config" THEN {"watcher"} ELSE {})

LEMMA KindFacts ==
  /\ Assembled("naming") = {"serverProxy", "beatReactor", "eventDispatcher",
                            "subscriptionPoller", "udpNamingServiceListener", "hostReactor"}
  /\ Assembled("config") = {"configProxy", "localSnapshotManager", "clientWorker"}
  /\ Assembled("maintain") = {"serverProxy"}
BY DEF Assembled

LEMMA ThreadFacts ==
  /\ Threads = {"beats", "polling", "listening", "refresh", "pulling", "watcher"}
  /\ DOMAIN ThreadOf = {"beatReactor", "subscriptionPoller", "udpNamingServiceListener",
                        "securityManager", "serverListManager", "clientWorker"}
<1>1. DOMAIN ThreadOf = {"beatReactor", "subscriptionPoller", "udpNamingServiceListener",
                         "securityManager", "serverListManager", "clientWorker"}
  BY DEF ThreadOf
<1>2. /\ ThreadOf["beatReactor"] = "beats" /\ ThreadOf["subscriptionPoller"] = "polling"
      /\ ThreadOf["udpNamingServiceListener"] = "listening"
      /\ ThreadOf["securityManager"] = "refresh"
      /\ ThreadOf["serverListManager"] = "pulling" /\ ThreadOf["clientWorker"] = "watcher"
  BY DEF ThreadOf
<1> QED
  BY <1>1, <1>2 DEF Threads

LEMMA DestructionFacts ==
  /\ Destruction("naming") =
       <<"beats", "polling", "listening", "refresh", "pulling",
         "httpDelegate", "beatReactor", "subscriptionPoller", "udpNamingServiceListener",
         "eventDispatcher", "hostReactor", "serverProxy", "securityManager",
         "serverListManager", "httpCli", "appConfigManager", "sequenceProvider">>
  /\ Destruction("config") =
       <<"watcher", "refresh", "pulling", "clientWorker", "httpDelegate", "securityManager",
         "serverListManager", "httpCli", "appConfigManager", "configProxy">>
  /\ Destruction("maintain") =
       <<"pulling", "refresh", "serverProxy", "serverListManager", "appConfigManager",
         "securityManager", "httpDelegate", "httpCli">>
BY DEF Destruction

LEMMA DestructionLength ==
  ASSUME NEW kind \in Kinds
  PROVE  Len(Destruction(kind)) \in 1..17
BY DestructionFacts DEF Kinds

LEMMA ObjectFacts ==
  /\ AllObjects = Shared \cup {"sequenceProvider", "serverProxy", "beatReactor", "eventDispatcher",
        "subscriptionPoller", "udpNamingServiceListener", "hostReactor",
        "configProxy", "localSnapshotManager", "clientWorker"}
  /\ \A kind \in Kinds : MayHave(kind) \subseteq AllObjects /\ MayRun(kind) \subseteq Threads
<1>1. AllObjects = Shared \cup {"sequenceProvider"}
                     \cup Assembled("naming") \cup Assembled("config") \cup Assembled("maintain")
  BY DEF AllObjects, Kinds, Shared
<1>2. AllObjects = Shared \cup {"sequenceProvider", "serverProxy", "beatReactor", "eventDispatcher",
        "subscriptionPoller", "udpNamingServiceListener", "hostReactor",
        "configProxy", "localSnapshotManager", "clientWorker"}
  BY <1>1, KindFacts
<1>3. ASSUME NEW kind \in Kinds PROVE MayHave(kind) \subseteq AllObjects /\ MayRun(kind) \subseteq Threads
  BY <1>1, ThreadFacts DEF Kinds, MayHave, MayRun
<1> QED
  BY <1>2, <1>3

\* A step of the destructor stops a thread or deletes an object, and every
\* thread is stopped before the first object is deleted.
LEMMA StopsFirst ==
  ASSUME NEW kind \in Kinds, NEW i \in 1..Len(Destruction(kind))
  PROVE  \/ Destruction(kind)[i] \in Threads
         \/ /\ Destruction(kind)[i] \in AllObjects
            /\ \A t \in MayRun(kind) : \E j \in 1..i-1 : Destruction(kind)[j] = t
<1>1. CASE kind = "naming"
  <2>1. CASE i \in 1..5
    BY <1>1, <2>1, DestructionFacts, ThreadFacts
  <2>2. CASE i \in 6..17
    <3>1. Destruction(kind)[i] \in AllObjects
      BY <1>1, <2>2, DestructionFacts, ObjectFacts DEF Shared
    <3>2. \A t \in MayRun(kind) : \E j \in 1..5 : Destruction(kind)[j] = t
      BY <1>1, DestructionFacts DEF MayRun
    <3> QED
      BY <2>2, <3>1, <3>2
  <2>3. Len(Destruction(kind)) = 17
    BY <1>1, DestructionFacts
  <2> QED
    BY <2>1, <2>2, <2>3
<1>2. CASE kind = "config"
  BY <1>2, DestructionFacts, ThreadFacts, ObjectFacts DEF MayRun, Shared
<1>3. CASE kind = "maintain"
  BY <1>3, DestructionFacts, ThreadFacts, ObjectFacts DEF MayRun, Shared
<1> QED
  BY <1>1, <1>2, <1>3 DEF Kinds

\* The last step deletes an object; all objects but those left have their step.
LEMMA AllIsDeleted ==
  ASSUME NEW kind \in Kinds
  PROVE  /\ Destruction(kind)[Len(Destruction(kind))] \notin Threads
         /\ \A o \in MayHave(kind) \ Left :
              \E i \in 1..Len(Destruction(kind)) : Destruction(kind)[i] = o
<1>1. CASE kind = "naming"
  <2> DEFINE d == Destruction("naming")
  <2>1. /\ Len(d) = 17
        /\ d[6] = "httpDelegate" /\ d[7] = "beatReactor" /\ d[8] = "subscriptionPoller"
        /\ d[9] = "udpNamingServiceListener" /\ d[10] = "eventDispatcher" /\ d[11] = "hostReactor"
        /\ d[12] = "serverProxy" /\ d[13] = "securityManager" /\ d[14] = "serverListManager"
        /\ d[15] = "httpCli" /\ d[16] = "appConfigManager" /\ d[17] = "sequenceProvider"
    BY DestructionFacts
  <2>2. MayHave("naming") \ Left =
          {"httpDelegate", "beatReactor", "subscriptionPoller", "udpNamingServiceListener",
           "eventDispatcher", "hostReactor", "serverProxy", "securityManager",
           "serverListManager", "httpCli", "appConfigManager", "sequenceProvider"}
    BY KindFacts DEF MayHave, Shared, Left
  <2> HIDE DEF d
  <2>3. d[Len(d)] \notin Threads
    BY <2>1, ThreadFacts
  <2>4. ASSUME NEW o \in MayHave(kind) \ Left
        PROVE  \E i \in 1..Len(d) : d[i] = o
    BY <1>1, <2>1, <2>2
  <2> QED
    BY <1>1, <2>3, <2>4 DEF d
<1>2. CASE kind = "config"
  <2> DEFINE d == Destruction("config")
  <2>1. /\ Len(d) = 10
        /\ d[4] = "clientWorker" /\ d[5] = "httpDelegate" /\ d[6] = "securityManager"
        /\ d[7] = "serverListManager" /\ d[8] = "httpCli" /\ d[9] = "appConfigManager"
        /\ d[10] = "configProxy"
    BY DestructionFacts
  <2>2. MayHave("config") \ Left =
          {"clientWorker", "httpDelegate", "securityManager", "serverListManager", "httpCli",
           "appConfigManager", "configProxy"}
    BY KindFacts DEF MayHave, Shared, Left
  <2> HIDE DEF d
  <2>3. d[Len(d)] \notin Threads
    BY <2>1, ThreadFacts
  <2>4. ASSUME NEW o \in MayHave(kind) \ Left
        PROVE  \E i \in 1..Len(d) : d[i] = o
    BY <1>2, <2>1, <2>2
  <2> QED
    BY <1>2, <2>3, <2>4 DEF d
<1>3. CASE kind = "maintain"
  <2> DEFINE d == Destruction("maintain")
  <2>1. /\ Len(d) = 8
        /\ d[3] = "serverProxy" /\ d[4] = "serverListManager" /\ d[5] = "appConfigManager"
        /\ d[6] = "securityManager" /\ d[7] = "httpDelegate" /\ d[8] = "httpCli"
    BY DestructionFacts
  <2>2. MayHave("maintain") \ Left =
          {"serverProxy", "serverListManager", "appConfigManager", "securityManager",
           "httpDelegate", "httpCli"}
    BY KindFacts DEF MayHave, Shared, Left
  <2> HIDE DEF d
  <2>3. d[Len(d)] \notin Threads
    BY <2>1, ThreadFacts
  <2>4. ASSUME NEW o \in MayHave(kind) \ Left
        PROVE  \E i \in 1..Len(d) : d[i] = o
    BY <1>3, <2>1, <2>2
  <2> QED
    BY <1>3, <2>3, <2>4 DEF d
<1> QED
  BY <1>1, <1>2, <1>3 DEF Kinds
-----------------------------------------------------------------------------
(* Types. *)

\* TypeOK in parts.
LifeTypes ==
    /\ settings \in [Services -> Settings]
    /\ stage \in [Services -> Stages]
    /\ position \in [Services -> 1..17]
    /\ objects \in [Services -> SUBSET AllObjects]
    /\ threads \in [Services -> SUBSET Threads]
PositionType == \A s \in Services : position[s] <= Len(Destruction(settings[s].kind))
FlagTypes ==
    /\ inited \in BOOLEAN /\ logDone \in BOOLEAN /\ aborted \in BOOLEAN
    /\ inits \in Nat /\ logPaths \in Nat
    /\ initLock \in Services \cup {NoService} /\ udpPort \in Services \cup {NoService}
    /\ logLocks \in [Factories -> Services \cup {NoService}]
InitLockHeld == initLock # NoService => stage[initLock] \in {"recheckInited", "init"}
LogLockHeld ==
    \A f \in Factories :
        logLocks[f] # NoService => /\ settings[logLocks[f]].factory = f
                                   /\ stage[logLocks[f]] \in {"recheck", "setFlag", "apply"}

LEMMA TypeParts == TypeOK <=> LifeTypes /\ PositionType /\ FlagTypes /\ InitLockHeld /\ LogLockHeld
BY DEF TypeOK, LifeTypes, PositionType, FlagTypes, InitLockHeld, LogLockHeld

LEMMA InitType == Init => TypeOK
<1> SUFFICES ASSUME Init PROVE TypeOK
  OBVIOUS
<1>1. LifeTypes
  BY DEF Init, LifeTypes, Stages
<1>2. ASSUME NEW s \in Services PROVE position[s] <= Len(Destruction(settings[s].kind))
  <2>1. settings[s].kind \in Kinds /\ position[s] = 1
    BY DEF Init, Settings
  <2>2. Len(Destruction(settings[s].kind)) \in 1..17
    BY <2>1, DestructionLength
  <2> DEFINE n == Len(Destruction(settings[s].kind))
  <2> HIDE DEF n
  <2>3. n \in 1..17
    BY <2>2 DEF n
  <2>4. position[s] <= n
    BY <2>1, <2>3
  <2> QED
    BY <2>4 DEF n
<1>3. FlagTypes /\ InitLockHeld /\ LogLockHeld
  BY DEF Init, FlagTypes, InitLockHeld, LogLockHeld
<1> QED
  BY <1>1, <1>2, <1>3, TypeParts DEF PositionType

\* What a creation adds to a service is an object or a thread.
LEMMA CreatedType ==
  ASSUME TypeOK, NEW s \in Services
  PROVE  /\ settings[s] \in Settings /\ settings[s].kind \in Kinds
         /\ HttpObjects(s) \subseteq {"httpCli", "httpDelegate", "securityManager"}
         /\ HttpObjects(s) \cup {"serverListManager"} \cup PullThread(s) \subseteq AllObjects
         /\ Assembled(settings[s].kind) \cup {"sequenceProvider"} \subseteq AllObjects
         /\ Len(Destruction(settings[s].kind)) \in 1..17
<1>1. settings[s] \in Settings /\ settings[s].kind \in Kinds
  BY DEF TypeOK, Settings
<1>2. HttpObjects(s) \subseteq {"httpCli", "httpDelegate", "securityManager"}
  BY DEF HttpObjects
<1>3. Assembled(settings[s].kind) \subseteq AllObjects
  BY <1>1 DEF AllObjects
<1> QED
  BY <1>1, <1>2, <1>3, ObjectFacts, DestructionLength DEF Shared, PullThread

\* A step of service s to another stage, that leaves its destruction alone.
LEMMA LifeStep ==
  ASSUME TypeOK, NEW s \in Services, NEW to \in Stages,
         stage' = [stage EXCEPT ![s] = to], UNCHANGED <<settings, position>>,
         objects' \in [Services -> SUBSET AllObjects], threads' \in [Services -> SUBSET Threads],
         FlagTypes', InitLockHeld', LogLockHeld'
  PROVE  TypeOK'
<1>1. LifeTypes'
  BY TypeParts DEF LifeTypes
<1>2. PositionType'
  BY TypeParts DEF PositionType
<1> QED
  BY <1>1, <1>2 DEF TypeOK, LifeTypes, PositionType, FlagTypes, InitLockHeld, LogLockHeld

\* A step of s that leaves the locks alone, from a stage where it has none.
LEMMA Lockless ==
  ASSUME TypeOK, NEW s \in Services, NEW to \in Stages,
         stage' = [stage EXCEPT ![s] = to],
         stage[s] \notin {"recheckInited", "init", "recheck", "setFlag", "apply"},
         UNCHANGED <<settings, initLock, logLocks>>
  PROVE  InitLockHeld' /\ LogLockHeld'
<1> USE TypeParts, NoServiceAssumption DEF LifeTypes, FlagTypes
<1>1. InitLockHeld'
  BY DEF InitLockHeld
<1>2. LogLockHeld'
  BY DEF LogLockHeld
<1> QED
  BY <1>1, <1>2

LEMMA NextType ==
  ASSUME TypeOK, [Next]_vars
  PROVE  TypeOK'
<1>1. LifeTypes /\ PositionType /\ FlagTypes /\ InitLockHeld /\ LogLockHeld
  BY TypeParts
<1>2. /\ \A s \in Services : threads[s] \subseteq Threads /\ objects[s] \subseteq AllObjects
      /\ threads \in [Services -> SUBSET Threads] /\ objects \in [Services -> SUBSET AllObjects]
  BY <1>1 DEF LifeTypes
<1>3. ASSUME NEW s \in Services, Begin(s) PROVE TypeOK'
  <2>1. InitLockHeld' /\ LogLockHeld'
    BY <1>3, Lockless DEF Begin, Step, logging, initializing, Stages, Creating
  <2> QED
    BY <1>1, <1>2, <1>3, <2>1, LifeStep
    DEF Begin, Step, logging, initializing, Stages, Creating, FlagTypes
<1>4. ASSUME NEW s \in Services, TestInited(s) PROVE TypeOK'
  <2>1. InitLockHeld' /\ LogLockHeld'
    BY <1>4, Lockless DEF TestInited, Step, logging, initializing, Stages, Creating
  <2> QED
    BY <1>1, <1>2, <1>4, <2>1, LifeStep
    DEF TestInited, Step, logging, initializing, Stages, Creating, FlagTypes
<1>5. ASSUME NEW s \in Services, ConfigFails(s) PROVE TypeOK'
  <2>1. InitLockHeld' /\ LogLockHeld'
    BY <1>5, Lockless DEF ConfigFails, Step, logging, initializing, Stages, Creating
  <2> QED
    BY <1>1, <1>2, <1>5, <2>1, LifeStep
    DEF ConfigFails, Step, logging, initializing, Stages, Creating, FlagTypes
<1>6. ASSUME NEW s \in Services, TestLog(s) PROVE TypeOK'
  <2>1. InitLockHeld' /\ LogLockHeld'
    BY <1>6, Lockless DEF TestLog, Step, logging, initializing, Stages, Creating
  <2> QED
    BY <1>1, <1>2, <1>6, <2>1, LifeStep
    DEF TestLog, Step, logging, initializing, Stages, Creating, FlagTypes
<1>7. ASSUME NEW s \in Services, BuildConfigManager(s) PROVE TypeOK'
  <2>1. InitLockHeld' /\ LogLockHeld'
    BY <1>7, Lockless DEF BuildConfigManager, Step, logging, initializing, Stages, Creating
  <2> QED
    BY <1>1, <1>2, <1>7, <2>1, LifeStep, ObjectFacts
    DEF BuildConfigManager, Step, Add, Start, Shared, logging, initializing, Stages, Creating, FlagTypes
<1>8. ASSUME NEW s \in Services, LockInit(s) PROVE TypeOK'
  <2>1. InitLockHeld' /\ LogLockHeld' /\ FlagTypes'
    BY <1>1, <1>8 DEF LockInit, Step, logging, Stages, Creating,
                   LifeTypes, FlagTypes, InitLockHeld, LogLockHeld
  <2> QED
    BY <1>1, <1>2, <1>8, <2>1, LifeStep DEF LockInit, Step, Stages, Creating
<1>9. ASSUME NEW s \in Services, RecheckInited(s) PROVE TypeOK'
  <2>1. InitLockHeld' /\ LogLockHeld' /\ FlagTypes'
    BY <1>1, <1>9 DEF RecheckInited, Step, logging, Stages, Creating,
                   LifeTypes, FlagTypes, InitLockHeld, LogLockHeld
  <2> QED
    BY <1>1, <1>2, <1>9, <2>1, LifeStep DEF RecheckInited, Step, Stages, Creating
<1>10. ASSUME NEW s \in Services, DoInit(s) PROVE TypeOK'
  <2>1. InitLockHeld' /\ LogLockHeld' /\ FlagTypes'
    BY <1>1, <1>10 DEF DoInit, Step, logging, Stages, Creating,
                   LifeTypes, FlagTypes, InitLockHeld, LogLockHeld
  <2> QED
    BY <1>1, <1>2, <1>10, <2>1, LifeStep DEF DoInit, Step, Stages, Creating
<1>11. ASSUME NEW s \in Services, InitFails(s) PROVE TypeOK'
  <2>1. InitLockHeld' /\ LogLockHeld' /\ FlagTypes'
    BY <1>1, <1>11 DEF InitFails, Step, logging, Stages, Creating,
                   LifeTypes, FlagTypes, InitLockHeld, LogLockHeld
  <2> QED
    BY <1>1, <1>2, <1>11, <2>1, LifeStep DEF InitFails, Step, Stages, Creating
<1>12. ASSUME NEW s \in Services, LockLog(s) PROVE TypeOK'
  <2>1. settings[s].factory \in Factories
    BY CreatedType DEF Settings
  <2>2. FlagTypes'
    BY <1>1, <1>12, <2>1 DEF LockLog, initializing, FlagTypes
  <2>3. InitLockHeld' /\ LogLockHeld'
    BY <1>1, <1>12, <2>1, NoServiceAssumption
    DEF LockLog, Step, initializing, LifeTypes, FlagTypes, InitLockHeld, LogLockHeld
  <2> QED
    BY <1>1, <1>2, <1>12, <2>2, <2>3, LifeStep DEF LockLog, Step, Stages, Creating
<1>13. ASSUME NEW s \in Services, RecheckLog(s) PROVE TypeOK'
  <2>1. settings[s].factory \in Factories
    BY CreatedType DEF Settings
  <2>2. FlagTypes'
    BY <1>1, <1>13, <2>1 DEF RecheckLog, initializing, FlagTypes
  <2>3. InitLockHeld' /\ LogLockHeld'
    BY <1>1, <1>13, <2>1, NoServiceAssumption
    DEF RecheckLog, Step, initializing, LifeTypes, FlagTypes, InitLockHeld, LogLockHeld
  <2> QED
    BY <1>1, <1>2, <1>13, <2>2, <2>3, LifeStep DEF RecheckLog, Step, Stages, Creating
<1>14. ASSUME NEW s \in Services, SetLogFlag(s) PROVE TypeOK'
  <2>1. settings[s].factory \in Factories
    BY CreatedType DEF Settings
  <2>2. FlagTypes'
    BY <1>1, <1>14, <2>1 DEF SetLogFlag, initializing, FlagTypes
  <2>3. InitLockHeld' /\ LogLockHeld'
    BY <1>1, <1>14, <2>1, NoServiceAssumption
    DEF SetLogFlag, Step, initializing, LifeTypes, FlagTypes, InitLockHeld, LogLockHeld
  <2> QED
    BY <1>1, <1>2, <1>14, <2>2, <2>3, LifeStep DEF SetLogFlag, Step, Stages, Creating
<1>15. ASSUME NEW s \in Services, ApplyLogSettings(s) PROVE TypeOK'
  <2>1. settings[s].factory \in Factories
    BY CreatedType DEF Settings
  <2>2. FlagTypes'
    BY <1>1, <1>15, <2>1 DEF ApplyLogSettings, initializing, FlagTypes
  <2>3. InitLockHeld' /\ LogLockHeld'
    BY <1>1, <1>15, <2>1, NoServiceAssumption
    DEF ApplyLogSettings, Step, initializing, LifeTypes, FlagTypes, InitLockHeld, LogLockHeld
  <2> QED
    BY <1>1, <1>2, <1>15, <2>2, <2>3, LifeStep DEF ApplyLogSettings, Step, Stages, Creating
<1>16. ASSUME NEW s \in Services, BuildServers(s) PROVE TypeOK'
  <2>1. InitLockHeld' /\ LogLockHeld'
    BY <1>16, Lockless DEF BuildServers, Step, logging, initializing, Stages, Creating
  <2> QED
    BY <1>1, <1>2, <1>16, <2>1, LifeStep, CreatedType, ThreadFacts
    DEF BuildServers, Step, Add, Start, logging, initializing, Stages, Creating, FlagTypes
<1>17. ASSUME NEW s \in Services, Assemble(s) PROVE TypeOK'
  <2>1. InitLockHeld' /\ LogLockHeld'
    BY <1>17, Lockless DEF Assemble, Step, logging, initializing, Stages, Creating
  <2> QED
    BY <1>1, <1>2, <1>17, <2>1, LifeStep, CreatedType, ThreadFacts
    DEF Assemble, Step, Add, Start, logging, initializing, Stages, Creating, FlagTypes
<1>18. ASSUME NEW s \in Services, StartThreads(s) PROVE TypeOK'
  <2>1. InitLockHeld' /\ LogLockHeld'
    BY <1>18, Lockless DEF StartThreads, Step, logging, initializing, Stages, Creating
  <2> QED
    BY <1>1, <1>2, <1>18, <2>1, LifeStep, CreatedType, ThreadFacts
    DEF StartThreads, Step, Add, Start, logging, initializing, Stages, Creating, FlagTypes
<1>19. ASSUME NEW s \in Services, Login(s) PROVE TypeOK'
  <2>1. InitLockHeld' /\ LogLockHeld'
    BY <1>19, Lockless DEF Login, Step, logging, initializing, Stages, Creating
  <2> QED
    BY <1>1, <1>2, <1>19, <2>1, LifeStep, CreatedType, ThreadFacts
    DEF Login, Step, Add, Start, logging, initializing, Stages, Creating, FlagTypes
<1>20. ASSUME NEW s \in Services, StartListening(s) PROVE TypeOK'
  BY <1>20, ThreadFacts DEF StartListening, Start, logging, initializing, TypeOK
<1>21. ASSUME NEW s \in Services, Bind(s) PROVE TypeOK'
  <2>1. UNCHANGED <<settings, stage, position, objects, threads, initLock, logLocks>>
    BY <1>21 DEF Bind, service, logging, initializing
  <2>2. FlagTypes'
    BY <1>1, <1>21 DEF Bind, logging, initializing, FlagTypes
  <2> QED
    BY <1>1, <2>1, <2>2 DEF TypeOK, LifeTypes, PositionType, FlagTypes, InitLockHeld, LogLockHeld
<1>22. ASSUME NEW s \in Services, BeginDestroy(s) PROVE TypeOK'
  <2>1. InitLockHeld' /\ LogLockHeld'
    BY <1>22, Lockless DEF BeginDestroy, Step, logging, initializing, Stages, Creating
  <2> QED
    BY <1>1, <1>2, <1>22, <2>1, LifeStep
    DEF BeginDestroy, Step, logging, initializing, Stages, Creating, FlagTypes
<1>23. ASSUME NEW s \in Services, DestroyStep(s) PROVE TypeOK'
  <2> DEFINE steps == Destruction(settings[s].kind)
             ended == Ended(s, steps[position[s]])
  <2>1. Len(steps) \in 1..17
    BY CreatedType
  <2>2. stage[s] = "destroying" /\ DestroyNext(s, steps, ended)
    BY <1>23 DEF DestroyStep
  <2> HIDE DEF ended, steps
  <2>3. \/ stage' = [stage EXCEPT ![s] = "gone"] /\ position' = position
        \/ stage' = stage /\ position' = [position EXCEPT ![s] = @ + 1] /\ position[s] # Len(steps)
    BY <2>2 DEF DestroyNext, Step
  <2>4. InitLockHeld' /\ LogLockHeld'
    BY <1>1, <2>2, <2>3, NoServiceAssumption
    DEF DestroyNext, initializing, logging, LifeTypes, FlagTypes, InitLockHeld, LogLockHeld
  <2>5. FlagTypes'
    BY <1>1, <2>2 DEF DestroyNext, initializing, logging, FlagTypes
  <2>6. PositionType' /\ position' \in [Services -> 1..17]
    <3>1. position[s] <= Len(steps)
      BY <1>1 DEF PositionType, steps
    <3>2. settings' = settings
      BY <2>2 DEF DestroyNext
    <3>3. position' \in [Services -> 1..17]
      <4>1. position \in [Services -> 1..17]
        BY <1>1 DEF LifeTypes
      <4>2. position[s] # Len(steps) => position[s] + 1 \in 1..17
        <5> DEFINE l == Len(steps)
                   p == position[s]
        <5>1. l \in 1..17 /\ p \in 1..17 /\ p <= l
          BY <2>1, <3>1, <4>1
        <5> HIDE DEF l, p
        <5>2. p # l => p + 1 \in 1..17
          BY <5>1
        <5> QED
          BY <5>2 DEF l, p
      <4> QED
        BY <2>3, <4>1, <4>2
    <3>4. \A u \in Services : u # s => position'[u] = position[u]
      BY <1>1, <2>3 DEF LifeTypes
    <3>5. position'[s] <= Len(steps)
      BY <1>1, <2>1, <2>3, <3>1 DEF LifeTypes
    <3> QED
      BY <1>1, <3>2, <3>3, <3>4, <3>5 DEF PositionType, steps
  <2>7. LifeTypes'
    BY <1>1, <2>2, <2>3, <2>6 DEF DestroyNext, LifeTypes, Stages
  <2> QED
    BY <2>4, <2>5, <2>6, <2>7 DEF TypeOK, LifeTypes, PositionType, FlagTypes, InitLockHeld, LogLockHeld
<1>24. CASE UNCHANGED vars
  BY <1>24 DEF vars, service, logging, initializing, TypeOK
<1> QED
  BY <1>3, <1>4, <1>5, <1>6, <1>7, <1>8, <1>9, <1>10, <1>11, <1>12, <1>13, <1>14, <1>15, <1>16, <1>17, <1>18, <1>19, <1>20, <1>21, <1>22, <1>23, <1>24 DEF Next, Create

\* The state keeps its types, and a lock is held by who is inside.
THEOREM TypeCorrect == Spec => []TypeOK
BY InitType, NextType, PTL DEF Spec
-----------------------------------------------------------------------------
(* The global initialisation. *)

InitInv ==
    /\ inits \in {0, 1} /\ (inited <=> inits = 1)
    /\ \A s \in Services :
         /\ stage[s] \in {"recheckInited", "init"} => initLock = s
         /\ stage[s] = "init" => ~inited

\* The steps outside of doInit()'s lock leave it, and what it protects, alone.
LEMMA OutsideInit ==
  ASSUME NEW s \in Services,
         \/ Begin(s) \/ TestInited(s) \/ BuildConfigManager(s) \/ ConfigFails(s) \/ TestLog(s)
         \/ LockLog(s) \/ RecheckLog(s) \/ SetLogFlag(s) \/ ApplyLogSettings(s)
         \/ BuildServers(s) \/ Assemble(s) \/ StartThreads(s) \/ Login(s)
         \/ StartListening(s) \/ Bind(s) \/ BeginDestroy(s) \/ DestroyStep(s)
  PROVE  /\ UNCHANGED initializing
         /\ \/ UNCHANGED stage
            \/ \E to \in Stages \ {"recheckInited", "init"} : stage' = [stage EXCEPT ![s] = to]
<1> USE DEF Step, Stages, Creating
<1>1. CASE Begin(s) \/ TestInited(s) \/ BuildConfigManager(s) \/ ConfigFails(s) \/ TestLog(s)
  BY <1>1 DEF Begin, TestInited, BuildConfigManager, ConfigFails, TestLog
<1>2. CASE LockLog(s) \/ RecheckLog(s) \/ SetLogFlag(s) \/ ApplyLogSettings(s)
  BY <1>2 DEF LockLog, RecheckLog, SetLogFlag, ApplyLogSettings
<1>3. CASE BuildServers(s) \/ Assemble(s) \/ StartThreads(s) \/ Login(s)
  BY <1>3 DEF BuildServers, Assemble, StartThreads, Login
<1>4. CASE StartListening(s) \/ Bind(s) \/ BeginDestroy(s)
  BY <1>4 DEF StartListening, Bind, BeginDestroy, service
<1>5. CASE DestroyStep(s)
  BY <1>5 DEF DestroyStep, DestroyNext
<1> QED
  BY <1>1, <1>2, <1>3, <1>4, <1>5

LEMMA NextInit ==
  ASSUME TypeOK, InitInv, [Next]_vars
  PROVE  InitInv'
<1>0. stage \in [Services -> Stages] /\ inited \in BOOLEAN
  BY DEF TypeOK
<1> USE <1>0, NoServiceAssumption DEF InitInv
<1>1. ASSUME NEW s \in Services, LockInit(s) PROVE InitInv'
  BY <1>1 DEF LockInit, Step
<1>2. ASSUME NEW s \in Services, RecheckInited(s) PROVE InitInv'
  BY <1>2 DEF RecheckInited, Step
<1>3. ASSUME NEW s \in Services, DoInit(s) PROVE InitInv'
  BY <1>3 DEF DoInit, Step
<1>4. ASSUME NEW s \in Services, InitFails(s) PROVE InitInv'
  BY <1>4 DEF InitFails, Step
<1>5. ASSUME UNCHANGED initializing, NEW s \in Services,
             \/ UNCHANGED stage
             \/ \E to \in Stages \ {"recheckInited", "init"} : stage' = [stage EXCEPT ![s] = to]
      PROVE  InitInv'
  BY <1>5 DEF initializing
<1>6. CASE UNCHANGED vars
  BY <1>6 DEF vars, service, initializing
<1> HIDE DEF InitInv
<1> QED
  BY <1>1, <1>2, <1>3, <1>4, <1>5, <1>6, OutsideInit DEF Next, Create

\* Init::doInit() does its work at most once, for any number of threads.
THEOREM InitializedOnceHolds == Spec => []InitializedOnce
<1>1. Init => InitInv
  BY DEF Init, InitInv
<1>2. InitInv => InitializedOnce
  BY DEF InitInv, InitializedOnce
<1> QED
  BY <1>1, <1>2, NextInit, TypeCorrect, PTL DEF Spec

-----------------------------------------------------------------------------
(* The settings of the log, for services that share a factory. *)

OneFactory == \A f, g \in Factories : f = g

LogInv ==
    /\ logPaths \in {0, 1} /\ (~logDone => logPaths = 0)
    /\ \A s \in Services :
         /\ stage[s] \in {"recheck", "setFlag", "apply"} => logLocks[settings[s].factory] = s
         /\ stage[s] = "setFlag" => ~logDone
         /\ stage[s] = "apply" => logDone /\ logPaths = 0

LEMMA OutsideLog ==
  ASSUME NEW s \in Services,
         \/ Begin(s) \/ TestInited(s) \/ BuildConfigManager(s) \/ ConfigFails(s) \/ TestLog(s)
         \/ LockInit(s) \/ RecheckInited(s) \/ DoInit(s) \/ InitFails(s)
         \/ BuildServers(s) \/ Assemble(s) \/ StartThreads(s) \/ Login(s)
         \/ StartListening(s) \/ Bind(s) \/ BeginDestroy(s) \/ DestroyStep(s)
  PROVE  /\ UNCHANGED <<logging, settings>>
         /\ \/ UNCHANGED stage
            \/ \E to \in Stages \ {"recheck", "setFlag", "apply"} : stage' = [stage EXCEPT ![s] = to]
<1> USE DEF Step, Stages, Creating
<1>1. CASE Begin(s) \/ TestInited(s) \/ BuildConfigManager(s) \/ ConfigFails(s) \/ TestLog(s)
  BY <1>1 DEF Begin, TestInited, BuildConfigManager, ConfigFails, TestLog
<1>2. CASE LockInit(s) \/ RecheckInited(s) \/ DoInit(s) \/ InitFails(s)
  BY <1>2 DEF LockInit, RecheckInited, DoInit, InitFails
<1>3. CASE BuildServers(s) \/ Assemble(s) \/ StartThreads(s) \/ Login(s)
  BY <1>3 DEF BuildServers, Assemble, StartThreads, Login
<1>4. CASE StartListening(s) \/ Bind(s) \/ BeginDestroy(s)
  BY <1>4 DEF StartListening, Bind, BeginDestroy, service
<1>5. CASE DestroyStep(s)
  BY <1>5 DEF DestroyStep, DestroyNext
<1> QED
  BY <1>1, <1>2, <1>3, <1>4, <1>5

LEMMA NextLog ==
  ASSUME OneFactory, TypeOK, LogInv, [Next]_vars
  PROVE  LogInv'
<1>0. /\ stage \in [Services -> Stages] /\ logDone \in BOOLEAN
      /\ logLocks \in [Factories -> Services \cup {NoService}]
      /\ \A s, u \in Services : settings[s].factory \in Factories /\ settings[s].factory = settings[u].factory
  BY DEF TypeOK, Settings, OneFactory
<1> USE <1>0, NoServiceAssumption DEF LogInv
<1>1. ASSUME NEW s \in Services, LockLog(s) PROVE LogInv'
  BY <1>1 DEF LockLog, Step
<1>2. ASSUME NEW s \in Services, RecheckLog(s) PROVE LogInv'
  BY <1>2 DEF RecheckLog, Step
<1>3. ASSUME NEW s \in Services, SetLogFlag(s) PROVE LogInv'
  BY <1>3 DEF SetLogFlag, Step
<1>4. ASSUME NEW s \in Services, ApplyLogSettings(s) PROVE LogInv'
  BY <1>4 DEF ApplyLogSettings, Step
<1>5. ASSUME UNCHANGED <<logging, settings>>, NEW s \in Services,
             \/ UNCHANGED stage
             \/ \E to \in Stages \ {"recheck", "setFlag", "apply"} : stage' = [stage EXCEPT ![s] = to]
      PROVE  LogInv'
  BY <1>5 DEF logging
<1>6. CASE UNCHANGED vars
  BY <1>6 DEF vars, service, logging
<1> HIDE DEF LogInv
<1> QED
  BY <1>1, <1>2, <1>3, <1>4, <1>5, <1>6, OutsideLog DEF Next, Create

\* With one factory, whose lock protects the static flag, the path of the log is
\* set at most once.
THEOREM ConfiguredOnceHolds == ASSUME OneFactory PROVE Spec => []ConfiguredOnce
<1>1. Init => LogInv
  BY DEF Init, LogInv
<1>2. LogInv => ConfiguredOnce
  BY DEF LogInv, ConfiguredOnce
<1>3. TypeOK /\ LogInv /\ [Next]_vars => LogInv'
  BY NextLog
<1> QED
  BY <1>1, <1>2, <1>3, TypeCorrect, PTL DEF Spec
-----------------------------------------------------------------------------
(* The life of a service. *)

Early == {"new", "doInit", "initflagMutex", "recheckInited", "init", "config", "log",
          "logSysInitLock", "recheck", "setFlag", "apply", "servers"}
Configured == {"log", "logSysInitLock", "recheck", "setFlag", "apply", "servers"}

\* What a service has built at each stage, and that a destructor has got rid of
\* all that its steps so far name.
LifeOK(s) ==
    /\ threads[s] \subseteq MayRun(settings[s].kind)
    /\ objects[s] \subseteq MayHave(settings[s].kind)
    /\ \A t \in threads[s] : Uses(t, s) \subseteq objects[s]
    /\ stage[s] \in Early => threads[s] = {}
    /\ stage[s] \in Configured \cup {"assemble", "start", "login", "ready"} =>
         "appConfigManager" \in objects[s]
    /\ stage[s] \in {"assemble", "start", "login", "ready"} =>
         {"serverListManager"} \cup HttpObjects(s) \subseteq objects[s]
    /\ stage[s] \in {"start", "login", "ready"} => Assembled(settings[s].kind) \subseteq objects[s]
    /\ stage[s] = "login" => settings[s].auth
    /\ stage[s] \notin {"destroying", "gone"} => position[s] = 1
    /\ stage[s] = "destroying" =>
         \A i \in 1..position[s] - 1 :
             Destruction(settings[s].kind)[i] \notin threads[s] \cup objects[s]
    /\ stage[s] = "gone" => threads[s] = {} /\ objects[s] \subseteq Left

LifeInv ==
    /\ \A s \in Services : LifeOK(s)
    /\ udpPort \in Services => "listening" \in threads[udpPort]

LEMMA UsesFacts ==
  ASSUME NEW s
  PROVE  /\ Uses("beats", s) = {"appConfigManager", "beatReactor", "serverProxy", "serverListManager"}
                               \cup HttpObjects(s)
         /\ Uses("polling", s) = {"appConfigManager", "subscriptionPoller", "serverProxy",
                                  "serverListManager", "hostReactor", "eventDispatcher"}
                                 \cup HttpObjects(s)
         /\ Uses("listening", s) = {"appConfigManager", "udpNamingServiceListener", "hostReactor",
                                    "eventDispatcher"}
         /\ Uses("refresh", s) = {"appConfigManager", "securityManager", "serverListManager", "httpCli"}
         /\ Uses("pulling", s) = {"appConfigManager", "serverListManager"} \cup HttpObjects(s)
         /\ Uses("watcher", s) = {"appConfigManager", "clientWorker", "configProxy", "serverListManager"}
                                 \cup HttpObjects(s)
<1>1. Uses("beats", s) = {"appConfigManager", "beatReactor", "serverProxy", "serverListManager"}
                         \cup HttpObjects(s)
  BY DEF Uses
<1>2. Uses("polling", s) = {"appConfigManager", "subscriptionPoller", "serverProxy",
                            "serverListManager", "hostReactor", "eventDispatcher"}
                           \cup HttpObjects(s)
  BY DEF Uses
<1>3. Uses("listening", s) = {"appConfigManager", "udpNamingServiceListener", "hostReactor",
                              "eventDispatcher"}
  BY DEF Uses
<1>4. Uses("refresh", s) = {"appConfigManager", "securityManager", "serverListManager", "httpCli"}
  BY DEF Uses
<1>5. Uses("pulling", s) = {"appConfigManager", "serverListManager"} \cup HttpObjects(s)
  BY DEF Uses
<1>6. Uses("watcher", s) = {"appConfigManager", "clientWorker", "configProxy", "serverListManager"}
                           \cup HttpObjects(s)
  BY DEF Uses
<1> QED
  BY <1>1, <1>2, <1>3, <1>4, <1>5, <1>6

\* What a thread uses is settled with the service.
LEMMA UsesStay ==
  ASSUME UNCHANGED settings, NEW s
  PROVE  HttpObjects(s)' = HttpObjects(s) /\ \A t : Uses(t, s)' = Uses(t, s)
<1>1. HttpObjects(s)' = HttpObjects(s)
  BY DEF HttpObjects
<1>2. ASSUME NEW t PROVE Uses(t, s)' = Uses(t, s)
  BY <1>1 DEF Uses
<1> QED
  BY <1>1, <1>2

LEMMA HttpFacts ==
  ASSUME TypeOK, NEW s \in Services
  PROVE  /\ {"httpCli", "httpDelegate"} \subseteq HttpObjects(s)
         /\ settings[s].auth => "securityManager" \in HttpObjects(s)
         /\ HttpObjects(s) \cup {"serverListManager", "appConfigManager"} \subseteq MayHave(settings[s].kind)
         /\ settings[s].kind \in Kinds
BY DEF HttpObjects, MayHave, Shared, TypeOK, Settings

\* A step of one service leaves the others as they are.
LEMMA OnlyOne ==
  ASSUME LifeInv, NEW s \in Services, LifeOK(s)', UNCHANGED settings,
         \A u \in Services \ {s} :
             /\ stage'[u] = stage[u] /\ position'[u] = position[u]
             /\ objects'[u] = objects[u] /\ threads'[u] = threads[u],
         udpPort' \in Services => "listening" \in threads'[udpPort']
  PROVE  LifeInv'
<1>1. ASSUME NEW u \in Services \ {s} PROVE LifeOK(u)'
  <2>1. LifeOK(u) /\ HttpObjects(u)' = HttpObjects(u) /\ \A t : Uses(t, u)' = Uses(t, u)
    BY UsesStay DEF LifeInv
  <2> QED
    BY <1>1, <2>1 DEF LifeOK
<1> QED
  BY <1>1 DEF LifeInv

\* The steps before anything runs.
LEMMA EarlyStep ==
  ASSUME TypeOK, LifeInv, NEW s \in Services, NEW to \in Early \cup {"failed"},
         stage[s] \in Early, to \in Configured => stage[s] \in Configured,
         stage' = [stage EXCEPT ![s] = to],
         UNCHANGED <<settings, position, objects, threads, udpPort>>
  PROVE  LifeInv'
<1>1. LifeOK(s) /\ HttpObjects(s)' = HttpObjects(s) /\ \A t : Uses(t, s)' = Uses(t, s)
  BY UsesStay DEF LifeInv
<1>2. stage \in [Services -> Stages]
  BY DEF TypeOK
<1>3. LifeOK(s)'
  BY <1>1, <1>2 DEF LifeOK, Early, Configured
<1> QED
  BY <1>2, <1>3, OnlyOne DEF LifeInv

\* The creation of s adds to its objects, then to its threads.
LEMMA CreationLife ==
  ASSUME TypeOK, LifeInv, NEW s \in Services,
         BuildConfigManager(s) \/ BuildServers(s) \/ Assemble(s) \/ StartThreads(s) \/ Login(s)
  PROVE  LifeInv'
<1>1. /\ LifeOK(s) /\ settings[s].kind \in Kinds
      /\ stage \in [Services -> Stages] /\ position \in [Services -> 1..17]
      /\ objects \in [Services -> SUBSET AllObjects] /\ threads \in [Services -> SUBSET Threads]
  BY HttpFacts DEF LifeInv, TypeOK
<1>2. /\ settings' = settings /\ udpPort' = udpPort /\ position' = position
      /\ \E to \in Stages : stage' = [stage EXCEPT ![s] = to]
      /\ \E os \in SUBSET AllObjects : objects' = [objects EXCEPT ![s] = @ \cup os]
      /\ \E ts \in SUBSET Threads : threads' = [threads EXCEPT ![s] = @ \cup ts]
  <2>1. CASE BuildConfigManager(s)
    <3>1. \E os \in SUBSET AllObjects : objects' = [objects EXCEPT ![s] = @ \cup os]
      BY <2>1, ObjectFacts DEF BuildConfigManager, Add, Shared
    <3>2. threads' = [threads EXCEPT ![s] = @ \cup {}]
      BY <1>1, <2>1 DEF BuildConfigManager
    <3> QED
      BY <2>1, <3>1, <3>2 DEF BuildConfigManager, Step, Stages, Creating
  <2>2. CASE BuildServers(s)
    <3>1. \E os \in SUBSET AllObjects : objects' = [objects EXCEPT ![s] = @ \cup os]
      BY <2>2, CreatedType DEF BuildServers, Add
    <3>2. \E ts \in SUBSET Threads : threads' = [threads EXCEPT ![s] = @ \cup ts]
      <4>1. CASE UNCHANGED threads
        <5>1. threads' = [threads EXCEPT ![s] = @ \cup {}]
          BY <1>1, <4>1
        <5> QED
          BY <5>1
      <4>2. CASE Start(s, IF settings[s].endpoint THEN {"pulling"} ELSE {})
        BY <4>2, ThreadFacts DEF Start
      <4> QED
        BY <2>2, <4>1, <4>2 DEF BuildServers
    <3> QED
      BY <2>2, <3>1, <3>2 DEF BuildServers, Step, Stages, Creating
  <2>3. CASE Assemble(s)
    <3>1. \E os \in SUBSET AllObjects : objects' = [objects EXCEPT ![s] = @ \cup os]
      BY <2>3, CreatedType DEF Assemble, Add
    <3>2. threads' = [threads EXCEPT ![s] = @ \cup {}]
      BY <1>1, <2>3 DEF Assemble
    <3> QED
      BY <2>3, <3>1, <3>2 DEF Assemble, Step, Stages, Creating
  <2>4. CASE StartThreads(s)
    <3>1. objects' = [objects EXCEPT ![s] = @ \cup {}]
      BY <1>1, <2>4 DEF StartThreads
    <3>2. \E ts \in SUBSET Threads : threads' = [threads EXCEPT ![s] = @ \cup ts]
      BY <2>4, ThreadFacts DEF StartThreads, Start
    <3> QED
      BY <2>4, <3>1, <3>2 DEF StartThreads, Step, Stages, Creating
  <2>5. CASE Login(s)
    <3>1. objects' = [objects EXCEPT ![s] = @ \cup {}]
      BY <1>1, <2>5 DEF Login
    <3>2. \E ts \in SUBSET Threads : threads' = [threads EXCEPT ![s] = @ \cup ts]
      <4>1. CASE UNCHANGED threads
        <5>1. threads' = [threads EXCEPT ![s] = @ \cup {}]
          BY <1>1, <4>1
        <5> QED
          BY <5>1
      <4>2. CASE Start(s, {"refresh"})
        BY <4>2, ThreadFacts DEF Start
      <4> QED
        BY <2>5, <4>1, <4>2 DEF Login
    <3> QED
      BY <2>5, <3>1, <3>2 DEF Login, Step, Stages, Creating
  <2> QED
    BY <2>1, <2>2, <2>3, <2>4, <2>5
<1>3. HttpObjects(s)' = HttpObjects(s) /\ \A t : Uses(t, s)' = Uses(t, s)
  BY <1>2, UsesStay
<1>4. \A u \in Services \ {s} :
        /\ stage'[u] = stage[u] /\ position'[u] = position[u]
        /\ objects'[u] = objects[u] /\ threads'[u] = threads[u]
  BY <1>1, <1>2
<1>5. udpPort' \in Services => "listening" \in threads'[udpPort']
  BY <1>1, <1>2 DEF LifeInv
<1>6. LifeOK(s)'
  <2> USE <1>1, <1>2, <1>3
  <2>1. CASE BuildConfigManager(s)
    BY <2>1, HttpFacts DEF BuildConfigManager, Step, Add, LifeOK, Early, Configured
  <2>2. CASE BuildServers(s)
    <3>1. stage[s] = "servers" /\ threads[s] = {} /\ "appConfigManager" \in objects[s] /\ position[s] = 1
      BY <2>2 DEF BuildServers, LifeOK, Early, Configured
    <3>2. CASE /\ stage'[s] = "assemble" /\ threads'[s] \subseteq {"pulling"}
               /\ objects'[s] = objects[s] \cup HttpObjects(s) \cup {"serverListManager"} \cup PullThread(s)
      <4>1. \A t \in threads'[s] : Uses(t, s) \subseteq objects'[s]
        BY <3>1, <3>2, UsesFacts
      <4>2. threads'[s] \subseteq MayRun(settings[s].kind)
        BY <3>2 DEF MayRun
      <4>3. objects'[s] \subseteq MayHave(settings[s].kind)
        BY <3>2, HttpFacts DEF LifeOK, PullThread, MayHave, Shared
      <4> QED
        BY <3>1, <3>2, <4>1, <4>2, <4>3 DEF LifeOK, Early, Configured
    <3>3. CASE stage'[s] = "failed" /\ objects'[s] = objects[s] \cup HttpObjects(s) /\ threads'[s] = threads[s]
      BY <3>1, <3>3, HttpFacts DEF LifeOK, Early, Configured
    <3> QED
      BY <2>2, <3>1, <3>2, <3>3 DEF BuildServers, Step, Add, Start
  <2>3. CASE Assemble(s)
    <3>1. /\ stage[s] = "assemble" /\ position[s] = 1 /\ "appConfigManager" \in objects[s]
          /\ {"serverListManager"} \cup HttpObjects(s) \subseteq objects[s]
      BY <2>3 DEF Assemble, Step, LifeOK
    <3>2. /\ stage'[s] \in {"start", "failed"} /\ threads'[s] = threads[s]
          /\ objects[s] \cup Assembled(settings[s].kind) \subseteq objects'[s]
          /\ objects'[s] \subseteq MayHave(settings[s].kind)
      <4>1. objects[s] \subseteq MayHave(settings[s].kind)
        BY DEF LifeOK
      <4> QED
        BY <2>3, <4>1 DEF Assemble, Step, Add, MayHave
    <3> QED
      BY <3>1, <3>2 DEF LifeOK, Early, Configured
  <2>4. CASE StartThreads(s)
    <3>1. /\ stage[s] = "start" /\ position[s] = 1 /\ "appConfigManager" \in objects[s]
          /\ {"serverListManager"} \cup HttpObjects(s) \subseteq objects[s]
          /\ Assembled(settings[s].kind) \subseteq objects[s]
      BY <2>4 DEF StartThreads, Step, LifeOK
    <3>2. /\ stage'[s] \in {"login", "ready"} /\ (stage'[s] = "login" => settings[s].auth)
          /\ objects'[s] = objects[s]
          /\ threads'[s] = threads[s] \cup IF settings[s].kind = "naming"
                                           THEN {"beats", "polling", "listening"} ELSE {}
      BY <2>4 DEF StartThreads, Step, Start
    <3>3. \A t \in threads'[s] : Uses(t, s) \subseteq objects[s]
      BY <3>1, <3>2, UsesFacts, KindFacts DEF LifeOK
    <3>4. threads'[s] \subseteq MayRun(settings[s].kind)
      BY <3>2 DEF LifeOK, MayRun
    <3> QED
      BY <3>1, <3>2, <3>3, <3>4 DEF LifeOK, Early, Configured
  <2>5. CASE Login(s)
    <3>1. /\ stage[s] = "login" /\ settings[s].auth /\ position[s] = 1 /\ "appConfigManager" \in objects[s]
          /\ {"serverListManager"} \cup HttpObjects(s) \subseteq objects[s]
          /\ Assembled(settings[s].kind) \subseteq objects[s]
      BY <2>5 DEF Login, Step, LifeOK
    <3>2. /\ stage'[s] \in {"ready", "failed"} /\ objects'[s] = objects[s]
          /\ threads'[s] \subseteq threads[s] \cup {"refresh"}
      BY <2>5 DEF Login, Step, Start
    <3>3. \A t \in threads'[s] : Uses(t, s) \subseteq objects[s]
      BY <3>1, <3>2, UsesFacts, HttpFacts DEF LifeOK
    <3>4. threads'[s] \subseteq MayRun(settings[s].kind)
      BY <3>2 DEF LifeOK, MayRun
    <3> QED
      BY <3>1, <3>2, <3>3, <3>4 DEF LifeOK, Early, Configured
  <2> QED
    BY <2>1, <2>2, <2>3, <2>4, <2>5
<1> QED
  BY <1>2, <1>4, <1>5, <1>6, OnlyOne

\* A service that is there listens, binds its port, and is going to be destroyed.
LEMMA ReadyLife ==
  ASSUME TypeOK, LifeInv, NEW s \in Services,
         StartListening(s) \/ Bind(s) \/ BeginDestroy(s)
  PROVE  LifeInv'
<1>1. /\ LifeOK(s) /\ settings[s].kind \in Kinds
      /\ stage \in [Services -> Stages] /\ position \in [Services -> 1..17]
      /\ threads \in [Services -> SUBSET Threads]
  BY HttpFacts DEF LifeInv, TypeOK
<1>2. settings' = settings
  BY DEF StartListening, Bind, BeginDestroy, service
<1>3. HttpObjects(s)' = HttpObjects(s) /\ \A t : Uses(t, s)' = Uses(t, s)
  BY <1>2, UsesStay
<1>4. CASE StartListening(s)
  <2>1. /\ stage[s] = "ready" /\ settings[s].kind = "config"
        /\ threads' = [threads EXCEPT ![s] = @ \cup {"watcher"}]
        /\ UNCHANGED <<stage, position, objects, udpPort>>
    BY <1>4 DEF StartListening, Start
  <2>2. threads'[s] = threads[s] \cup {"watcher"}
    BY <1>1, <2>1
  <2>3. \A t \in threads'[s] : Uses(t, s) \subseteq objects[s]
    BY <1>1, <2>1, <2>2, UsesFacts, KindFacts DEF LifeOK
  <2>4. threads'[s] \subseteq MayRun(settings[s].kind)
    BY <1>1, <2>1, <2>2 DEF LifeOK, MayRun
  <2>5. LifeOK(s)'
    BY <1>1, <1>2, <1>3, <2>1, <2>3, <2>4 DEF LifeOK, Early, Configured
  <2> QED
    BY <1>1, <1>2, <2>1, <2>5, OnlyOne DEF LifeInv
<1>5. CASE Bind(s)
  <2>1. UNCHANGED <<settings, stage, position, objects, threads>> /\ udpPort' \in {udpPort, s}
        /\ "listening" \in threads[s]
    BY <1>5 DEF Bind, service
  <2>2. LifeOK(s)'
    BY <1>1, <1>3, <2>1 DEF LifeOK
  <2> QED
    BY <2>1, <2>2, OnlyOne DEF LifeInv
<1>6. CASE BeginDestroy(s)
  <2>1. /\ stage[s] = "ready" /\ stage' = [stage EXCEPT ![s] = "destroying"] /\ position[s] = 1
        /\ UNCHANGED <<position, objects, threads, udpPort>>
    BY <1>1, <1>6 DEF BeginDestroy, Step, LifeOK
  <2>2. LifeOK(s)'
    BY <1>1, <1>2, <1>3, <2>1 DEF LifeOK, Early, Configured
  <2> QED
    BY <1>1, <1>2, <2>1, <2>2, OnlyOne DEF LifeInv
<1> QED
  BY <1>4, <1>5, <1>6

\* A step of the destructor: the stops find no object deleted, the deletions no
\* thread running, and the last deletion leaves nothing.
LEMMA DestructionLife ==
  ASSUME TypeOK, LifeInv, NEW s \in Services, DestroyStep(s)
  PROVE  LifeInv'
<1> DEFINE kind == settings[s].kind
           steps == Destruction(kind)
           what == steps[position[s]]
           ended == Ended(s, what)
<1>1. /\ LifeOK(s) /\ kind \in Kinds
      /\ stage \in [Services -> Stages] /\ position \in [Services -> 1..17]
      /\ objects \in [Services -> SUBSET AllObjects] /\ threads \in [Services -> SUBSET Threads]
      /\ udpPort \in Services \cup {NoService}
  BY HttpFacts DEF LifeInv, TypeOK
<1>2. stage[s] = "destroying" /\ DestroyNext(s, steps, ended)
  BY DEF DestroyStep
<1>3. /\ threads[s] \subseteq MayRun(kind) /\ objects[s] \subseteq MayHave(kind)
      /\ \A t \in threads[s] : Uses(t, s) \subseteq objects[s]
      /\ \A i \in 1..position[s] - 1 : steps[i] \notin threads[s] \cup objects[s]
  BY <1>1, <1>2 DEF LifeOK
<1>4. position[s] \in 1..Len(steps)
  <2>1. position[s] <= Len(steps) /\ position[s] \in 1..17 /\ Len(steps) \in 1..17
    BY <1>1, DestructionLength DEF TypeOK
  <2> QED
    BY <2>1
<1>5. \/ what \in Threads
      \/ what \in AllObjects /\ \A t \in MayRun(kind) : \E j \in 1..position[s] - 1 : steps[j] = t
  BY <1>1, <1>4, StopsFirst
<1> HIDE DEF kind, steps, what, ended
<1>6. /\ settings' = settings /\ threads'[s] = threads[s] \ ended
      /\ objects'[s] = objects[s] \ {what}
      /\ \/ position[s] = Len(steps) /\ stage'[s] = "gone" /\ position'[s] = position[s]
         \/ position[s] # Len(steps) /\ stage'[s] = "destroying" /\ position'[s] = position[s] + 1
      /\ \A u \in Services \ {s} : /\ stage'[u] = stage[u] /\ position'[u] = position[u]
                                  /\ objects'[u] = objects[u] /\ threads'[u] = threads[u]
      /\ udpPort' = IF "listening" \in ended THEN NoService ELSE udpPort
      /\ "listening" \in ended => udpPort = s
  BY <1>1, <1>2 DEF DestroyNext, Step, what
<1>7. Threads \cap AllObjects = {}
  BY ThreadFacts, ObjectFacts DEF Shared
<1>8. /\ what \notin threads'[s] \cup objects'[s]
      /\ \A t \in threads'[s] : Uses(t, s) \subseteq objects'[s]
      /\ what \notin Threads => threads'[s] = {}
  <2>1. CASE what \in Threads
    <3>1. what \notin DOMAIN ThreadOf
      BY <2>1, ThreadFacts
    <3>2. ended = threads[s] \cap {what}
      BY <3>1 DEF ended, Ended
    <3>3. objects'[s] = objects[s]
      BY <1>1, <1>6, <1>7, <2>1
    <3> QED
      BY <1>3, <1>6, <2>1, <3>2, <3>3, <1>1, <1>7
  <2>2. CASE what \notin Threads
    <3>1. threads[s] = {}
      BY <1>3, <1>5, <2>2
    <3>2. threads'[s] = {}
      BY <1>6, <3>1
    <3> QED
      BY <1>6, <3>2
  <2> QED
    BY <2>1, <2>2
<1>9. \A i \in 1..position[s] : steps[i] \notin threads'[s] \cup objects'[s]
  <2>1. ASSUME NEW i \in 1..position[s] PROVE steps[i] \notin threads'[s] \cup objects'[s]
    <3>1. CASE i = position[s]
      BY <1>8, <3>1 DEF what
    <3>2. CASE i # position[s]
      <4>1. i \in 1..position[s] - 1
        BY <1>1, <3>2
      <4> QED
        BY <1>3, <1>6, <4>1
    <3> QED
      BY <3>1, <3>2
  <2> QED
    BY <2>1
<1>10. HttpObjects(s)' = HttpObjects(s) /\ \A t : Uses(t, s)' = Uses(t, s)
  BY <1>6, UsesStay
<1>11. LifeOK(s)'
  <2>1. threads'[s] \subseteq MayRun(kind) /\ objects'[s] \subseteq MayHave(kind)
    BY <1>3, <1>6
  <2>2. CASE stage'[s] = "destroying" /\ position'[s] = position[s] + 1
    <3>1. position'[s] - 1 = position[s]
      BY <1>1, <2>2
    <3>2. \A i \in 1..position'[s] - 1 : Destruction(settings[s].kind)[i] \notin threads'[s] \cup objects'[s]
      BY <1>9, <3>1 DEF steps, kind
    <3> QED
      BY <1>6, <1>8, <1>10, <2>1, <2>2, <3>2 DEF LifeOK, Early, Configured, kind
  <2>3. CASE stage'[s] = "gone" /\ position[s] = Len(steps)
    <3>1. threads'[s] = {}
      <4>1. what \notin Threads
        BY <1>1, <2>3, AllIsDeleted DEF what, steps
      <4> QED
        BY <1>8, <4>1
    <3>2. objects'[s] \subseteq Left
      <4>1. \A o \in MayHave(kind) \ Left : \E i \in 1..Len(steps) : steps[i] = o
        BY <1>1, AllIsDeleted DEF steps
      <4> QED
        BY <1>9, <2>1, <2>3, <4>1
    <3> QED
      BY <1>6, <1>8, <1>10, <2>1, <2>3, <3>1, <3>2 DEF LifeOK, Early, Configured, kind
  <2> QED
    BY <1>6, <2>2, <2>3
<1>12. udpPort' \in Services => "listening" \in threads'[udpPort']
  <2>1. udpPort \in Services => "listening" \in threads[udpPort]
    BY DEF LifeInv
  <2> QED
    BY <1>6, <2>1, NoServiceAssumption
<1> QED
  BY <1>6, <1>11, <1>12, OnlyOne

LEMMA NextLife ==
  ASSUME TypeOK, LifeInv, [Next]_vars
  PROVE  LifeInv'
<1>0. stage \in [Services -> Stages]
  BY DEF TypeOK
<1>1. ASSUME NEW s \in Services,
             \/ Begin(s) \/ TestInited(s) \/ LockInit(s) \/ RecheckInited(s) \/ DoInit(s) \/ InitFails(s)
             \/ ConfigFails(s)
      PROVE  LifeInv'
  <2>1. /\ UNCHANGED <<settings, position, objects, threads, udpPort>> /\ stage[s] \in Early
        /\ \E to \in (Early \cup {"failed"}) \ Configured : stage' = [stage EXCEPT ![s] = to]
    BY <1>1 DEF Begin, TestInited, LockInit, RecheckInited, DoInit, InitFails, ConfigFails, Step,
                Early, Configured
  <2> QED
    BY <2>1, EarlyStep
<1>2. ASSUME NEW s \in Services,
             TestLog(s) \/ LockLog(s) \/ RecheckLog(s) \/ SetLogFlag(s) \/ ApplyLogSettings(s)
      PROVE  LifeInv'
  <2>1. /\ UNCHANGED <<settings, position, objects, threads, udpPort>>
        /\ stage[s] \in Configured /\ stage[s] \in Early
        /\ \E to \in Early \cup {"failed"} : stage' = [stage EXCEPT ![s] = to]
    BY <1>2 DEF TestLog, LockLog, RecheckLog, SetLogFlag, ApplyLogSettings, Step, Early, Configured
  <2> QED
    BY <2>1, EarlyStep
<1>3. CASE UNCHANGED vars
  <2>1. UNCHANGED <<settings, stage, position, objects, threads, udpPort>>
    BY <1>3 DEF vars, service
  <2>2. \A s \in Services : HttpObjects(s)' = HttpObjects(s) /\ \A t : Uses(t, s)' = Uses(t, s)
    BY <2>1, UsesStay
  <2> QED
    BY <2>1, <2>2 DEF LifeInv, LifeOK
<1> QED
  BY <1>1, <1>2, <1>3, CreationLife, ReadyLife, DestructionLife DEF Next, Create

LEMMA InitLife == Init => LifeInv
<1> SUFFICES ASSUME Init PROVE LifeInv
  OBVIOUS
<1>1. ASSUME NEW s \in Services PROVE LifeOK(s)
  BY DEF Init, LifeOK, Early, Configured
<1> QED
  BY <1>1, NoServiceAssumption DEF Init, LifeInv

LEMMA LifeHolds == Spec => [](TypeOK /\ LifeInv)
BY InitLife, NextLife, TypeCorrect, PTL DEF Spec

\* No thread calls an object that is deleted, however far a creation has got
\* when it fails and wherever a destruction is.
THEOREM NoUseAfterDeleteHolds == Spec => []NoUseAfterDelete
<1>1. LifeInv => NoUseAfterDelete
  BY DEF LifeInv, LifeOK, NoUseAfterDelete
<1> QED
  BY <1>1, LifeHolds, PTL

\* Destroying a service ends its threads, frees its port and deletes its objects
\* but for the snapshot manager and the Thread of the server list manager.
THEOREM DestroyedIsGoneHolds == Spec => []DestroyedIsGone
<1>1. TypeOK /\ LifeInv => DestroyedIsGone
  BY NoServiceAssumption DEF TypeOK, LifeInv, LifeOK, Left, DestroyedIsGone
<1> QED
  BY <1>1, LifeHolds, PTL
================================================================================
