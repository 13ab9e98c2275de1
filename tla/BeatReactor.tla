------------------------------ MODULE BeatReactor ------------------------------
(***************************************************************************)
(* Heartbeats: BeatReactor, BeatTask and the delayed pool that runs the    *)
(* tasks.  registerInstance adds a task to the list and schedules it; a    *)
(* run of it schedules it again before it sends the beat, so that a slow   *)
(* beat and the next one can be on two workers; deregisterInstance takes   *)
(* the task off the list and leaves its deletion to the next run.          *)
(***************************************************************************)
EXTENDS DelayedThreadPool

CONSTANTS
    Keys,  \* service, ip and port of an instance
    Apps   \* threads of the application

VARIABLES
    beatInfoList,  \* beatInfoList[k]: the task of instance k, NoTask: none
    scheduled,     \* the tasks whose _scheduled is true
    deleted,       \* the tasks that have been deleted
    created,       \* the tasks that have been created
    adding,        \* adding[a]: the task application thread a is about to schedule
    destroyed      \* ~BeatReactor() is over

beats == <<beatInfoList, scheduled, deleted, created, adding, destroyed>>
vars == <<pool, beats>>

TypeOK ==
    /\ PoolTypeOK
    /\ beatInfoList \in [Keys -> Tasks \cup {NoTask}]
    /\ deleted \in SUBSET created
    /\ scheduled \in SUBSET (created \ deleted)
    /\ created \in SUBSET Tasks
    /\ adding \in [Apps -> Tasks \cup {NoTask}]
    /\ destroyed \in BOOLEAN

Init ==
    /\ PoolInit
    /\ beatInfoList = [k \in Keys |-> NoTask]
    /\ scheduled = {} /\ deleted = {} /\ created = {}
    /\ adding = [a \in Apps |-> NoTask]
    /\ destroyed = FALSE

-----------------------------------------------------------------------------
(* The application. *)

CanCall(a) == closing = "no" /\ adding[a] = NoTask

\* Mutant: whether the instance is in the list already is not looked at.
AddBeatInfo_Again(a, k, t) ==
    /\ CanCall(a)
    /\ t \in Tasks \ created
    /\ created' = created \cup {t}
    /\ scheduled' = scheduled \cup {t}
    /\ beatInfoList' = [beatInfoList EXCEPT ![k] = t]
    /\ adding' = [adding EXCEPT ![a] = t]
    /\ UNCHANGED <<pool, deleted, destroyed>>

\* addBeatInfo() for an instance that is not in the list: the part under
\* _beatInfoLock.  Tasks bounds how often an instance is added.
AddBeatInfo(a, k, t) ==
    /\ CanCall(a)
    /\ beatInfoList[k] = NoTask
    /\ t \in Tasks \ created
    /\ created' = created \cup {t}
    /\ scheduled' = scheduled \cup {t}
    /\ beatInfoList' = [beatInfoList EXCEPT ![k] = t]
    /\ adding' = [adding EXCEPT ![a] = t]
    /\ UNCHANGED <<pool, deleted, destroyed>>

\* addBeatInfo(): the task is scheduled without the lock.
ScheduleBeat(a) ==
    /\ adding[a] # NoTask
    /\ Schedule(adding[a], pc)
    /\ adding' = [adding EXCEPT ![a] = NoTask]
    /\ UNCHANGED <<beatInfoList, scheduled, deleted, created, destroyed>>

\* Mutant: the task is taken off the list, but stays scheduled.
RemoveBeatInfo_StaysScheduled(a, k) ==
    /\ CanCall(a)
    /\ beatInfoList[k] # NoTask
    /\ beatInfoList' = [beatInfoList EXCEPT ![k] = NoTask]
    /\ UNCHANGED <<pool, scheduled, deleted, created, adding, destroyed>>

\* removeBeatInfo() for an instance in the list.
RemoveBeatInfo(a, k) ==
    /\ CanCall(a)
    /\ beatInfoList[k] # NoTask
    /\ scheduled' = scheduled \ {beatInfoList[k]}
    /\ beatInfoList' = [beatInfoList EXCEPT ![k] = NoTask]
    /\ UNCHANGED <<pool, deleted, created, adding, destroyed>>

-----------------------------------------------------------------------------
(* BeatTask::run, by a worker that has found the stop flag unset. *)

\* Mutant: _scheduled is not looked at.
RunRemoved_Always(w) ==
    /\ pc[w] = "taken" /\ ~stopDelayed
    /\ deleted' = deleted \cup {taskOf[w]}
    /\ EndTask(w)
    /\ UNCHANGED <<beatInfoList, scheduled, created, adding, destroyed>>

RunRemoved(w) ==
    /\ pc[w] = "taken" /\ ~stopDelayed
    /\ taskOf[w] \notin scheduled
    /\ deleted' = deleted \cup {taskOf[w]}
    /\ EndTask(w)
    /\ UNCHANGED <<beatInfoList, scheduled, created, adding, destroyed>>

RunScheduled(w) ==
    /\ pc[w] = "taken" /\ ~stopDelayed
    /\ taskOf[w] \in scheduled
    /\ Goto(w, "schedule")
    /\ UNCHANGED beats

\* The task is scheduled again,
Reschedule(w) ==
    /\ pc[w] = "schedule"
    /\ Schedule(taskOf[w], [pc EXCEPT ![w] = "beat"])
    /\ UNCHANGED beats

\* and then sends its beat, which is answered or fails.
SendBeat(w) ==
    /\ pc[w] = "beat"
    /\ EndTask(w)
    /\ UNCHANGED beats

Run(w) == RunRemoved(w) \/ RunScheduled(w) \/ Reschedule(w) \/ SendBeat(w)

-----------------------------------------------------------------------------
(* ~BeatReactor(): stop(), then removeAllBeatInfo(). *)

BeginStop ==
    /\ \A a \in Apps : adding[a] = NoTask
    /\ SetStopDelayed
    /\ UNCHANGED beats

RemoveAllBeatInfo ==
    /\ closing = "joined"
    /\ ~destroyed
    /\ destroyed' = TRUE
    /\ deleted' = deleted \cup ({beatInfoList[k] : k \in Keys} \ {NoTask})
    /\ scheduled' = scheduled \ deleted'
    /\ beatInfoList' = [k \in Keys |-> NoTask]
    /\ UNCHANGED <<pool, created, adding>>

-----------------------------------------------------------------------------
Call(a) ==
    \E k \in Keys : RemoveBeatInfo(a, k) \/ \E t \in Tasks : AddBeatInfo(a, k, t)
Stop == NotifyStop \/ SetStopPool \/ JoinThreads

Next ==
    \/ \E a \in Apps : Call(a) \/ ScheduleBeat(a)
    \/ \E w \in Workers : Run(w)
    \/ /\ \/ \E t \in Tasks : BecomesDue(t)
          \/ \E w \in Workers : Work(w) \/ Timeout(w) \/ WakeSpuriously(w)
          \/ Stop
       /\ UNCHANGED beats
    \/ BeginStop
    \/ RemoveAllBeatInfo

\* Time passes; every thread makes progress, and gets the lock of the queue if
\* it asks for it again and again, however often waits end spuriously; a task
\* that is due again and again is taken: the queue is sorted by time, so that
\* only the finitely many tasks with an earlier time go first.  Nothing says
\* that a wait ends by itself, or that the reactor is stopped.
Fairness ==
    /\ \A t \in Tasks :
         /\ WF_vars(BecomesDue(t) /\ UNCHANGED beats)
         /\ SF_vars(\E w \in Workers : Take(w, t) /\ UNCHANGED beats)
    /\ \A w \in Workers :
         /\ SF_vars((Work(w) \/ Timeout(w)) /\ UNCHANGED beats)
         /\ SF_vars(Run(w))
    /\ \A a \in Apps : SF_vars(ScheduleBeat(a))
    /\ WF_vars((Stop /\ UNCHANGED beats) \/ RemoveAllBeatInfo)

Spec == Init /\ [][Next]_vars
FairSpec == Spec /\ Fairness

-----------------------------------------------------------------------------
(* Properties. *)

\* The places from which task t will be run or scheduled once more: the queue,
\* a run that has not scheduled it yet, an addBeatInfo() that is under way.
Places(t) ==
    (IF t \in scheduledTasks THEN 1 ELSE 0)
    + Cardinality({w \in Workers : taskOf[w] = t /\ pc[w] \in {"taken", "schedule"}})
    + Cardinality({a \in Apps : adding[a] = t})

\* Before the reactor stops a task is in exactly one of these places as long as
\* it lives and in none once it has been deleted, and stopping only takes it
\* out of its place: no beat is lost, no task beats twice per interval, and no
\* deleted task is found again, although a task is scheduled while an earlier
\* run of it may still be sending its beat (BeatTask::run, DelayedWorker::run).
OnePlace ==
    ~destroyed => \A t \in created :
        /\ t \in deleted => Places(t) = 0 /\ (\A k \in Keys : beatInfoList[k] # t)
        /\ t \notin deleted /\ closing = "no" => Places(t) = 1
        /\ Places(t) <= 1

\* stop() returns: a waiting worker is "awake from sleep when a stop signal is
\* sent".
StopReturns == closing = "flag" ~> closing = "joined"
================================================================================
