----------------------- MODULE InstanceRegistrationProofs -----------------------
(***************************************************************************)
(* Proofs, for any instances, tasks, workers and threads of the            *)
(* application: the types, that an instance beats through one task, and    *)
(* that a task is in one place while it lives and in none once it has been *)
(* deleted.                                                                *)
(***************************************************************************)
EXTENDS InstanceRegistration, FiniteSetTheorems, TLAPS

-----------------------------------------------------------------------------
(* Types. *)

Locations == {"top", "enter", "scan", "done"} \cup Waiting \cup Sleeping \cup WithTask

BeatTypeOK ==
    /\ beatInfoList \in [Keys -> Tasks \cup {NoTask}]
    /\ deleted \in SUBSET created
    /\ scheduled \in SUBSET (created \ deleted)
    /\ created \in SUBSET Tasks
    /\ adding \in [Apps -> Tasks \cup {NoTask}]
    /\ destroyed \in BOOLEAN

ListTypeOK ==
    /\ request \in [Apps -> Requests \cup {NoRequest}]
    /\ keyOf \in [Tasks -> Keys \cup {NoTask}]
    /\ listed \in SUBSET Keys

\* What the queue, the workers, the calls and the list name has been created,
\* and the list is what is scheduled to beat.
Known ==
    /\ scheduledTasks \subseteq created
    /\ \A w \in Workers : taskOf[w] \in created \cup {NoTask}
    /\ \A a \in Apps : adding[a] \in created \cup {NoTask}
    /\ \A k \in Keys : beatInfoList[k] # NoTask =>
                           beatInfoList[k] \in scheduled /\ keyOf[beatInfoList[k]] = k
    /\ \A t \in created : keyOf[t] \in Keys
    /\ \A t \in scheduled : beatInfoList[keyOf[t]] = t

Types == PoolTypeOK /\ BeatTypeOK /\ ListTypeOK /\ Known

LEMMA TypesAreTypes == Types => RegistrationTypeOK
BY DEF Types, BeatTypeOK, ListTypeOK, Known, RegistrationTypeOK, TypeOK

LEMMA PcFacts ==
  /\ Locations = {"top", "enter", "scan", "done", "wait", "timedwait", "asleep", "dozing",
                "taken", "schedule", "beat"}
  /\ WithTask = {"taken", "schedule", "beat"}
BY DEF Locations, Waiting, Sleeping, WithTask

\* A worker that moves on and keeps what it has.
LEMMA GotoType ==
  ASSUME PoolTypeOK, NEW w \in Workers, NEW l \in Locations, pc[w] \in WithTask <=> l \in WithTask,
         Goto(w, l)
  PROVE  PoolTypeOK'
BY DEF Goto, PoolTypeOK, Locations

\* A worker that gives its task back.
LEMMA EndType ==
  ASSUME PoolTypeOK, NEW w \in Workers, NEW l \in {"scan", "done"},
         pc' = [pc EXCEPT ![w] = l], taskOf' = [taskOf EXCEPT ![w] = NoTask],
         UNCHANGED <<scheduledTasks, dueTasks, stopDelayed, stopPool, closing>>
  PROVE  PoolTypeOK'
BY PcFacts DEF PoolTypeOK, Locations

LEMMA NotifyType ==
  ASSUME NEW f \in [Workers -> Locations]
  PROVE  /\ NotifyAll(f) \in [Workers -> Locations]
         /\ \A w \in Workers : NotifyAll(f)[w] \in WithTask <=> f[w] \in WithTask
         /\ \A w \in Workers : f[w] \in WithTask => NotifyAll(f)[w] = f[w]
BY DEF NotifyAll, Locations, Sleeping, WithTask

LEMMA ScheduleType ==
  ASSUME PoolTypeOK, NEW t \in Tasks, NEW f \in [Workers -> Locations],
         \A w \in Workers : f[w] \in WithTask <=> pc[w] \in WithTask,
         Schedule(t, f)
  PROVE  PoolTypeOK'
<1>1. pc' = f \/ pc' = NotifyAll(f)
  BY DEF Schedule
<1>2. pc' \in [Workers -> Locations] /\ \A w \in Workers : pc'[w] \in WithTask <=> pc[w] \in WithTask
  BY <1>1, NotifyType
<1> QED
  BY <1>2 DEF Schedule, PoolTypeOK, Locations

LEMMA PoolStepType ==
  ASSUME PoolTypeOK,
         \/ \E t \in Tasks : BecomesDue(t)
         \/ \E w \in Workers : Work(w) \/ Timeout(w) \/ WakeSpuriously(w)
         \/ Stop
  PROVE  PoolTypeOK'
<1>0. pc \in [Workers -> Locations]
  BY DEF PoolTypeOK, Locations
<1>1. ASSUME NEW t \in Tasks, BecomesDue(t) PROVE PoolTypeOK'
  BY <1>1 DEF BecomesDue, PoolTypeOK
<1>2. ASSUME NEW w \in Workers, TestStop(w) PROVE PoolTypeOK'
  BY <1>2, GotoType, PcFacts DEF TestStop
<1>3. ASSUME NEW w \in Workers, FindEmpty(w) PROVE PoolTypeOK'
  BY <1>3, GotoType, PcFacts DEF FindEmpty
<1>4. ASSUME NEW w \in Workers, NEW t \in Tasks, Take(w, t) PROVE PoolTypeOK'
  BY <1>4, NoTaskAssumption DEF Take, PoolTypeOK, WithTask
<1>5. ASSUME NEW w \in Workers, FindEarly(w) PROVE PoolTypeOK'
  BY <1>5, GotoType, PcFacts DEF FindEarly, CanScan
<1>6. ASSUME NEW w \in Workers, EndScan(w) PROVE PoolTypeOK'
  BY <1>6, GotoType, PcFacts DEF EndScan
<1>7. ASSUME NEW w \in Workers, Sleep(w) PROVE PoolTypeOK'
  BY <1>7, GotoType, PcFacts DEF Sleep, Waiting
<1>8. ASSUME NEW w \in Workers, Timeout(w) PROVE PoolTypeOK'
  BY <1>8, GotoType, PcFacts DEF Timeout
<1>9. ASSUME NEW w \in Workers, WakeSpuriously(w) PROVE PoolTypeOK'
  BY <1>9, GotoType, PcFacts DEF WakeSpuriously, Sleeping
<1>10. ASSUME NEW w \in Workers, DropTask(w) PROVE PoolTypeOK'
  BY <1>10, EndType DEF DropTask
<1>11. CASE Stop
  <2>1. CASE NotifyStop
    BY <1>0, <2>1, NotifyType DEF NotifyStop, PoolTypeOK, Locations
  <2>2. CASE SetStopPool \/ JoinThreads
    BY <2>2 DEF SetStopPool, JoinThreads, PoolTypeOK
  <2> QED
    BY <1>11, <2>1, <2>2 DEF Stop
<1> QED
  BY <1>1, <1>2, <1>3, <1>4, <1>5, <1>6, <1>7, <1>8, <1>9, <1>10, <1>11 DEF Work

\* What these steps do to the tasks that are known.
LEMMA PoolStepKnown ==
  ASSUME PoolTypeOK,
         \/ \E t \in Tasks : BecomesDue(t)
         \/ \E w \in Workers : Work(w) \/ Timeout(w) \/ WakeSpuriously(w)
         \/ Stop
  PROVE  /\ scheduledTasks' \subseteq scheduledTasks
         /\ \A w \in Workers : taskOf'[w] \in scheduledTasks \cup {taskOf[w], NoTask}
<1>1. \A w \in Workers, t \in Tasks : Take(w, t) =>
        /\ scheduledTasks' \subseteq scheduledTasks
        /\ \A u \in Workers : taskOf'[u] \in scheduledTasks \cup {taskOf[u], NoTask}
  BY DEF Take, PoolTypeOK
<1>2. \A w \in Workers : DropTask(w) =>
        /\ scheduledTasks' \subseteq scheduledTasks
        /\ \A u \in Workers : taskOf'[u] \in scheduledTasks \cup {taskOf[u], NoTask}
  BY DEF DropTask, PoolTypeOK
<1> QED
  BY <1>1, <1>2 DEF BecomesDue, Work, Timeout, WakeSpuriously, Stop, TestStop, FindEmpty, FindEarly, EndScan,
     Sleep, Goto, NotifyStop, SetStopPool, JoinThreads

LEMMA InitTypes == RegistrationInit => Types
BY DEF RegistrationInit, Init, PoolInit, Types, PoolTypeOK, BeatTypeOK, ListTypeOK, Known, WithTask, Requests

\* The steps of the application and of the server that leave the pool alone.
LEMMA CallTypes ==
  ASSUME Types, NEW a \in Apps, Register(a) \/ Deregister(a)
  PROVE  Types'
<1>1. ASSUME NEW k \in Keys, RegisterInstance(a, k) PROVE Types'
  <2>1. UNCHANGED pool /\ PoolTypeOK'
    BY <1>1 DEF RegisterInstance, AddBeatInfo, Types, PoolTypeOK, pool
  <2>2. request' \in [Apps -> Requests \cup {NoRequest}] /\ listed' \in SUBSET Keys
    BY <1>1 DEF RegisterInstance, Ask, Requests, Types, ListTypeOK
  <2>3. ASSUME NEW t \in Tasks, AddBeatInfo(a, k, t), keyOf' = [keyOf EXCEPT ![t] = k]
        PROVE  BeatTypeOK' /\ keyOf' \in [Tasks -> Keys \cup {NoTask}] /\ Known'
    <3>1. BeatTypeOK' /\ keyOf' \in [Tasks -> Keys \cup {NoTask}]
      BY <2>3 DEF AddBeatInfo, Types, BeatTypeOK, ListTypeOK
    <3>2. /\ scheduledTasks' \subseteq created'
          /\ \A w \in Workers : taskOf'[w] \in created' \cup {NoTask}
          /\ \A b \in Apps : adding'[b] \in created' \cup {NoTask}
      BY <2>1, <2>3 DEF AddBeatInfo, Types, Known, BeatTypeOK, pool
    <3>3. \A u \in created' : keyOf'[u] \in Keys
      BY <2>3 DEF AddBeatInfo, Types, Known, ListTypeOK, BeatTypeOK
    <3>4. \A u \in scheduled : u # t /\ keyOf[u] \in Keys /\ keyOf[u] # k /\ keyOf'[u] = keyOf[u]
      BY <2>3, NoTaskAssumption DEF AddBeatInfo, Types, Known, ListTypeOK, BeatTypeOK
    <3>5. \A u \in scheduled' : beatInfoList'[keyOf'[u]] = u
      BY <2>3, <3>4 DEF AddBeatInfo, Types, Known, ListTypeOK, BeatTypeOK
    <3>6. \A j \in Keys : beatInfoList'[j] # NoTask =>
                              beatInfoList'[j] \in scheduled' /\ keyOf'[beatInfoList'[j]] = j
      BY <2>3, <3>4 DEF AddBeatInfo, Types, Known, ListTypeOK, BeatTypeOK
    <3> QED
      BY <3>1, <3>2, <3>3, <3>5, <3>6 DEF Known
  <2>4. ASSUME UNCHANGED <<pool, beatInfoList, scheduled, deleted, created, adding, destroyed, keyOf>>
        PROVE  BeatTypeOK' /\ keyOf' \in [Tasks -> Keys \cup {NoTask}] /\ Known'
    BY <2>4 DEF Types, BeatTypeOK, ListTypeOK, Known, pool
  <2> QED
    BY <1>1, <2>1, <2>2, <2>3, <2>4 DEF RegisterInstance, Types, ListTypeOK
<1>2. ASSUME NEW k \in Keys, DeregisterInstance(a, k) PROVE Types'
  <2>1. UNCHANGED pool /\ PoolTypeOK'
    BY <1>2 DEF DeregisterInstance, RemoveBeatInfo, Types, PoolTypeOK, pool
  <2>2. ListTypeOK' /\ UNCHANGED <<keyOf, created, adding, deleted>>
    BY <1>2 DEF DeregisterInstance, RemoveBeatInfo, Ask, Requests, Types, ListTypeOK
  <2>3. BeatTypeOK' /\ Known'
    <3>1. CASE RemoveBeatInfo(a, k)
      <4>1. BeatTypeOK'
        BY <3>1 DEF RemoveBeatInfo, Types, BeatTypeOK
      <4>2. \A u \in scheduled' : keyOf[u] # k /\ keyOf[u] \in Keys /\ u \in scheduled
        BY <3>1 DEF RemoveBeatInfo, Types, Known, BeatTypeOK
      <4>3. \A u \in scheduled' : beatInfoList'[keyOf[u]] = u
        BY <3>1, <4>2 DEF RemoveBeatInfo, Types, Known, BeatTypeOK
      <4>4. \A j \in Keys : beatInfoList'[j] # NoTask =>
                                beatInfoList'[j] \in scheduled' /\ keyOf[beatInfoList'[j]] = j
        BY <3>1 DEF RemoveBeatInfo, Types, Known, BeatTypeOK
      <4> QED
        BY <2>1, <2>2, <4>1, <4>3, <4>4 DEF Types, Known, pool
    <3>2. CASE UNCHANGED <<pool, beatInfoList, scheduled, deleted, created, adding, destroyed>>
      BY <2>2, <3>2 DEF Types, BeatTypeOK, Known, pool
    <3> QED
      BY <1>2, <3>1, <3>2 DEF DeregisterInstance
  <2> QED
    BY <2>1, <2>2, <2>3 DEF Types
<1> QED
  BY <1>1, <1>2 DEF Register, Deregister

LEMMA RequestTypes ==
  ASSUME Types,
         \/ \E a \in Apps : RequestArrives(a) \/ RequestFails(a)
         \/ \E k \in Keys : Expire(k)
  PROVE  Types'
<1>1. UNCHANGED <<vars, keyOf>>
  BY DEF RequestArrives, RequestFails, Expire
<1>2. ListTypeOK'
  BY NoTaskAssumption DEF RequestArrives, RequestFails, Expire, Types, ListTypeOK, Requests, NoRequest
<1> QED
  BY <1>1, <1>2 DEF Types, PoolTypeOK, BeatTypeOK, Known, vars, pool, beats

\* The steps that run a task, or schedule one.
LEMMA RunTypes ==
  ASSUME Types, UNCHANGED <<request, keyOf>>, listed' \in SUBSET Keys,
         \/ \E a \in Apps : ScheduleBeat(a)
         \/ \E w \in Workers : RunTask(w) \/ SendBeat(w)
  PROVE  Types'
<1>0. pc \in [Workers -> Locations] /\ PoolTypeOK
  BY DEF Types, PoolTypeOK, Locations
<1>1. ASSUME NEW a \in Apps, ScheduleBeat(a) PROVE Types'
  <2>1. PoolTypeOK'
    BY <1>0, <1>1, ScheduleType DEF ScheduleBeat, Types, BeatTypeOK
  <2>2. BeatTypeOK'
    BY <1>1 DEF ScheduleBeat, Types, BeatTypeOK
  <2>3. Known'
    BY <1>1 DEF ScheduleBeat, Schedule, Types, Known, BeatTypeOK
  <2> QED
    BY <2>1, <2>2, <2>3 DEF Types, ListTypeOK
<1>2. ASSUME NEW w \in Workers, RunRemoved(w) PROVE Types'
  <2>1. PoolTypeOK'
    BY <1>0, <1>2, EndType DEF RunRemoved, EndTask
  <2>2. taskOf[w] \in created /\ taskOf[w] \notin scheduled
    BY <1>2 DEF RunRemoved, Types, Known, PoolTypeOK, WithTask
  <2>3. BeatTypeOK'
    BY <1>2, <2>2 DEF RunRemoved, Types, BeatTypeOK
  <2>4. Known'
    BY <1>2, <1>0 DEF RunRemoved, EndTask, Types, Known, PoolTypeOK
  <2> QED
    BY <2>1, <2>3, <2>4 DEF Types, ListTypeOK
<1>3. ASSUME NEW w \in Workers, RunScheduled(w) PROVE Types'
  <2>1. PoolTypeOK'
    BY <1>0, <1>3, GotoType, PcFacts DEF RunScheduled
  <2> QED
    BY <1>3, <2>1 DEF RunScheduled, Goto, Types, BeatTypeOK, ListTypeOK, Known, beats
<1>4. ASSUME NEW w \in Workers, Reschedule(w) PROVE Types'
  <2> DEFINE f == [pc EXCEPT ![w] = "beat"]
  <2>1. taskOf[w] \in Tasks /\ taskOf[w] \in created
    BY <1>4, <1>0 DEF Reschedule, PoolTypeOK, WithTask, Types, Known, BeatTypeOK
  <2>2. f \in [Workers -> Locations] /\ \A u \in Workers : f[u] \in WithTask <=> pc[u] \in WithTask
    BY <1>4, <1>0, PcFacts DEF Reschedule
  <2>3. PoolTypeOK'
    <3> HIDE DEF f
    <3> QED
      BY <1>0, <1>4, <2>1, <2>2, ScheduleType DEF Reschedule, f
  <2>4. Known' /\ BeatTypeOK'
    BY <1>4, <2>1 DEF Reschedule, Schedule, Types, Known, BeatTypeOK, beats
  <2> QED
    BY <2>3, <2>4 DEF Types, ListTypeOK
<1>5. ASSUME NEW w \in Workers, SendBeat(w) PROVE Types'
  <2>1. PoolTypeOK'
    BY <1>0, <1>5, EndType DEF SendBeat, EndTask
  <2> QED
    BY <1>5, <1>0, <2>1 DEF SendBeat, EndTask, Types, BeatTypeOK, ListTypeOK, Known, PoolTypeOK, beats
<1> QED
  BY <1>1, <1>2, <1>3, <1>4, <1>5 DEF RunTask

LEMMA DestroyTypes ==
  ASSUME Types, UNCHANGED registration, Destroy \/ RemoveAllBeatInfo
  PROVE  Types'
<1>1. CASE Destroy
  BY <1>1 DEF Destroy, BeginStop, SetStopDelayed, Types, PoolTypeOK, BeatTypeOK, ListTypeOK, Known, beats, registration
<1>2. CASE RemoveAllBeatInfo
  <2>1. PoolTypeOK' /\ ListTypeOK'
    BY <1>2 DEF RemoveAllBeatInfo, Types, PoolTypeOK, ListTypeOK, registration, pool
  <2>2. {beatInfoList[k] : k \in Keys} \ {NoTask} \subseteq created
    BY DEF Types, Known, BeatTypeOK
  <2>3. BeatTypeOK'
    BY <1>2, <2>2 DEF RemoveAllBeatInfo, Types, BeatTypeOK
  <2>4. scheduled' = {}
    <3>1. \A t \in scheduled : t \in {beatInfoList[k] : k \in Keys} \ {NoTask}
      BY NoTaskAssumption DEF Types, Known, BeatTypeOK
    <3> QED
      BY <1>2, <3>1 DEF RemoveAllBeatInfo
  <2> QED
    BY <1>2, <2>1, <2>3, <2>4 DEF RemoveAllBeatInfo, Types, Known, registration, pool
<1> QED
  BY <1>1, <1>2

LEMMA PoolTypes ==
  ASSUME Types, UNCHANGED <<beats, registration>>,
         \/ \E t \in Tasks : BecomesDue(t)
         \/ \E w \in Workers : Work(w) \/ Timeout(w) \/ WakeSpuriously(w)
         \/ Stop
  PROVE  Types'
<1>1. PoolTypeOK
  BY DEF Types
<1>2. PoolTypeOK'
  BY <1>1, PoolStepType
<1>3. /\ scheduledTasks' \subseteq scheduledTasks
      /\ \A w \in Workers : taskOf'[w] \in scheduledTasks \cup {taskOf[w], NoTask}
  BY <1>1, PoolStepKnown
<1> QED
  BY <1>2, <1>3 DEF Types, BeatTypeOK, ListTypeOK, Known, beats, registration

\* Every step is one of these.
LEMMA Steps ==
  ASSUME [RegistrationNext]_allVars
  PROVE  \/ \E a \in Apps : Register(a) \/ Deregister(a)
         \/ \E a \in Apps : RequestArrives(a) \/ RequestFails(a)
         \/ \E k \in Keys : Expire(k)
         \/ \E a \in Apps : ScheduleBeat(a) /\ UNCHANGED registration
         \/ \E w \in Workers : RunTask(w) /\ UNCHANGED registration
         \/ \E w \in Workers : SendBeat(w) /\ (BeatArrives(w) \/ UNCHANGED registration)
         \/ /\ \/ \E t \in Tasks : BecomesDue(t)
               \/ \E w \in Workers : Work(w) \/ Timeout(w) \/ WakeSpuriously(w)
               \/ Stop
            /\ UNCHANGED <<beats, registration>>
         \/ (Destroy \/ RemoveAllBeatInfo) /\ UNCHANGED registration
         \/ UNCHANGED allVars
BY DEF RegistrationNext, Return, BeatArrives, BeatFails

LEMMA NextTypes == Types /\ [RegistrationNext]_allVars => Types'
<1> SUFFICES ASSUME Types, [RegistrationNext]_allVars PROVE Types'
  OBVIOUS
<1>1. ASSUME NEW w \in Workers, SendBeat(w), BeatArrives(w) PROVE Types'
  <2>1. taskOf[w] \in created
    BY <1>1 DEF SendBeat, Types, Known, PoolTypeOK, WithTask
  <2>2. listed' \in SUBSET Keys
    BY <1>1, <2>1 DEF BeatArrives, Types, Known, ListTypeOK
  <2> QED
    BY <1>1, <2>2, RunTypes DEF BeatArrives
<1>2. ASSUME UNCHANGED registration,
             \/ \E a \in Apps : ScheduleBeat(a)
             \/ \E w \in Workers : RunTask(w) \/ SendBeat(w)
      PROVE  Types'
  BY <1>2, RunTypes DEF registration, Types, ListTypeOK
<1>3. CASE UNCHANGED allVars
  BY <1>3 DEF allVars, registration, vars, pool, beats, Types, PoolTypeOK, BeatTypeOK, ListTypeOK, Known
<1> QED
  BY <1>1, <1>2, <1>3, Steps, CallTypes, RequestTypes, PoolTypes, DestroyTypes

\* The list, the tasks that are scheduled to beat and the places they are in name
\* created tasks only, and the list and the scheduled tasks are the same.
THEOREM TypesInvariant == RegistrationSpec => []Types
BY InitTypes, NextTypes, PTL DEF RegistrationSpec

\* The types, for every set of instances, tasks, workers and threads: above all
\* the list of BeatReactor names a task that beats, and for the right instance.
THEOREM RegistrationTypeCorrect == RegistrationSpec => []RegistrationTypeOK
BY TypesInvariant, TypesAreTypes, PTL

\* An instance beats through one task: what is scheduled is on the list.
THEOREM OneBeatHolds == RegistrationSpec => []OneBeatPerInstance
<1>1. Types => OneBeatPerInstance
  BY DEF Types, Known, OneBeatPerInstance
<1> QED
  BY <1>1, TypesInvariant, PTL

-----------------------------------------------------------------------------
(* One place.  The places of a task, one by one. *)

Runs(w, t) == taskOf[w] = t /\ pc[w] \in {"taken", "schedule"}
Adds(a, t) == adding[a] = t
Placed(t) == \/ t \in scheduledTasks
             \/ \E w \in Workers : Runs(w, t)
             \/ \E a \in Apps : Adds(a, t)

\* No two places of task t are taken.
Single(t) ==
    /\ t \in scheduledTasks => \A w \in Workers : ~Runs(w, t)
    /\ t \in scheduledTasks => \A a \in Apps : ~Adds(a, t)
    /\ \A w \in Workers, a \in Apps : ~(Runs(w, t) /\ Adds(a, t))
    /\ \A w, v \in Workers : Runs(w, t) /\ Runs(v, t) => w = v
    /\ \A a, b \in Apps : Adds(a, t) /\ Adds(b, t) => a = b

\* A live task keeps its place until the reactor begins to stop.
Kept(t) == t \notin deleted /\ closing = "no" => Placed(t)

StopKnown == stopDelayed \/ stopPool => closing # "no"

PlacesInv ==
    /\ StopKnown
    /\ ~destroyed => \A t \in created : Single(t) /\ Kept(t) /\ (t \in deleted => ~Placed(t))

\* What Places counts.
LEMMA PlacesCounts ==
  ASSUME NEW t
  PROVE  /\ Single(t) => Places(t) <= 1
         /\ Single(t) /\ Placed(t) => Places(t) = 1
         /\ ~Placed(t) => Places(t) = 0
<1> DEFINE W == {w \in Workers : taskOf[w] = t /\ pc[w] \in {"taken", "schedule"}}
           A == {a \in Apps : adding[a] = t}
<1>1. Places(t) = (IF t \in scheduledTasks THEN 1 ELSE 0) + Cardinality(W) + Cardinality(A)
  BY DEF Places
<1>2. /\ W = {} => Cardinality(W) = 0
      /\ A = {} => Cardinality(A) = 0
  BY FS_EmptySet
<1>3. Single(t) => /\ W # {} => \E w \in Workers : W = {w}
                   /\ A # {} => \E a \in Apps : A = {a}
  BY DEF Single, Runs, Adds
<1>4. Single(t) => /\ W # {} => Cardinality(W) = 1
                   /\ A # {} => Cardinality(A) = 1
  BY <1>3, FS_Singleton
<1>5. /\ Single(t) /\ t \in scheduledTasks => W = {} /\ A = {}
      /\ Single(t) => W = {} \/ A = {}
  BY DEF Single, Runs, Adds
<1>6. Placed(t) <=> t \in scheduledTasks \/ W # {} \/ A # {}
  BY DEF Placed, Runs, Adds
<1> HIDE DEF W, A
<1> QED
  BY <1>1, <1>2, <1>4, <1>5, <1>6

\* The step leaves task u where it is.
Elsewhere(u) ==
    /\ u \in scheduledTasks' <=> u \in scheduledTasks
    /\ \A w \in Workers : Runs(w, u)' <=> Runs(w, u)
    /\ \A a \in Apps : Adds(a, u)' <=> Adds(a, u)
    /\ u \in deleted' <=> u \in deleted

LEMMA ElsewhereKept ==
  ASSUME NEW u, Elsewhere(u), closing' = "no" => closing = "no"
  PROVE  /\ Single(u) => Single(u)'
         /\ Kept(u) => Kept(u)'
         /\ Placed(u)' <=> Placed(u)
BY DEF Elsewhere, Single, Kept, Placed

\* It is enough to look at the tasks that a step moves.
LEMMA MovedOnly ==
  ASSUME PlacesInv, StopKnown', UNCHANGED destroyed, closing' = "no" => closing = "no",
         created \subseteq created',
         \A u \in created' : \/ u \in created /\ Elsewhere(u)
                             \/ ~destroyed => Single(u)' /\ Kept(u)' /\ (u \in deleted' => ~Placed(u)')
  PROVE  PlacesInv'
<1> SUFFICES ASSUME NEW u \in created', u \in created, Elsewhere(u), ~destroyed
             PROVE  Single(u)' /\ Kept(u)' /\ (u \in deleted' => ~Placed(u)')
  BY DEF PlacesInv
<1> QED
  BY ElsewhereKept DEF PlacesInv, Elsewhere

\* A notification wakes workers that have no task.
LEMMA NotifyRuns ==
  ASSUME NEW f \in [Workers -> Locations], pc' = f \/ pc' = NotifyAll(f)
  PROVE  \A w \in Workers : /\ pc'[w] \in {"taken", "schedule"} <=> f[w] \in {"taken", "schedule"}
                            /\ pc'[w] = "taken" <=> f[w] = "taken"
BY DEF NotifyAll, Locations, Sleeping

LEMMA CallPlaces ==
  ASSUME Types, PlacesInv, NEW a \in Apps, Register(a) \/ Deregister(a)
  PROVE  PlacesInv'
<1>1. ASSUME NEW k \in Keys, NEW t \in Tasks, AddBeatInfo(a, k, t) PROVE PlacesInv'
  <2>1. /\ UNCHANGED <<pool, deleted, destroyed>> /\ created' = created \cup {t} /\ t \notin created
        /\ \A b \in Apps : adding'[b] = IF b = a THEN t ELSE adding[b]
        /\ adding[a] = NoTask
    BY <1>1 DEF AddBeatInfo, CanCall, Types, BeatTypeOK
  <2>2. ASSUME NEW u \in created PROVE Elsewhere(u)
    <3>1. u # t /\ u # NoTask
      BY <2>1, NoTaskAssumption DEF Types, BeatTypeOK
    <3> QED
      BY <2>1, <3>1 DEF Elsewhere, Runs, Adds, pool
  <2>3. /\ t \notin scheduledTasks /\ t \notin deleted /\ t # NoTask
        /\ \A w \in Workers : taskOf[w] # t
        /\ \A b \in Apps : adding[b] # t
    BY <2>1, NoTaskAssumption DEF Types, Known, BeatTypeOK
  <2>4. Single(t)' /\ Kept(t)' /\ t \notin deleted'
    BY <2>1, <2>3 DEF Single, Kept, Placed, Runs, Adds, pool
  <2>5. StopKnown' /\ UNCHANGED <<closing, destroyed>>
    BY <2>1 DEF PlacesInv, StopKnown, pool
  <2>6. ASSUME NEW u \in created'
        PROVE  \/ u \in created /\ Elsewhere(u)
               \/ ~destroyed => Single(u)' /\ Kept(u)' /\ (u \in deleted' => ~Placed(u)')
    BY <2>1, <2>2, <2>4
  <2> QED
    BY <2>1, <2>5, <2>6, MovedOnly
<1>2. ASSUME UNCHANGED <<pool, deleted, created, adding, destroyed>> PROVE PlacesInv'
  BY <1>2, MovedOnly DEF PlacesInv, StopKnown, Elsewhere, Runs, Adds, pool
<1> QED
  BY <1>1, <1>2 DEF Register, Deregister, RegisterInstance, DeregisterInstance, RemoveBeatInfo

LEMMA SchedulePlaces ==
  ASSUME Types, PlacesInv, NEW a \in Apps, ScheduleBeat(a)
  PROVE  PlacesInv'
<1> PICK t \in created : t = adding[a]
  BY DEF ScheduleBeat, Types, Known
<1>0. pc \in [Workers -> Locations] /\ t # NoTask
  BY DEF ScheduleBeat, Types, PoolTypeOK, Locations
<1>1. /\ UNCHANGED <<taskOf, stopDelayed, stopPool, closing, deleted, created, destroyed>>
      /\ \A b \in Apps : adding'[b] = IF b = a THEN NoTask ELSE adding[b]
      /\ scheduledTasks' = IF stopPool THEN scheduledTasks ELSE scheduledTasks \cup {t}
      /\ pc' = pc \/ pc' = NotifyAll(pc)
  BY DEF ScheduleBeat, Schedule, Types, BeatTypeOK
<1>2. \A w \in Workers, u \in created : Runs(w, u)' <=> Runs(w, u)
  BY <1>0, <1>1, NotifyRuns DEF Runs
<1>3. StopKnown'
  BY <1>1 DEF PlacesInv, StopKnown
<1>4. \A u \in created : u # t => Elsewhere(u)
  BY <1>0, <1>1, <1>2, NoTaskAssumption DEF Elsewhere, Adds, Types, BeatTypeOK
<1>5. ~destroyed => Single(t)' /\ Kept(t)' /\ t \notin deleted'
  <2> SUFFICES ASSUME ~destroyed PROVE Single(t)' /\ Kept(t)' /\ t \notin deleted'
    OBVIOUS
  <2>1. Single(t) /\ Adds(a, t) /\ t \notin deleted
    BY <1>0 DEF PlacesInv, Adds, Placed
  <2>2. \A w \in Workers : ~Runs(w, t)'
    BY <1>0, <1>2, <2>1 DEF Single
  <2>3. \A b \in Apps : ~(adding'[b] = t)
    BY <1>0, <1>1, <2>1 DEF Single, Adds
  <2>4. closing = "no" => t \in scheduledTasks'
    BY <1>1 DEF PlacesInv, StopKnown
  <2>5. t \notin deleted' /\ closing' = closing
    BY <1>1, <2>1
  <2> QED
    BY <2>2, <2>3, <2>4, <2>5 DEF Single, Kept, Placed, Adds
<1>6. ASSUME NEW u \in created'
      PROVE  \/ u \in created /\ Elsewhere(u)
             \/ ~destroyed => Single(u)' /\ Kept(u)' /\ (u \in deleted' => ~Placed(u)')
  BY <1>1, <1>4, <1>5
<1> QED
  BY <1>1, <1>3, <1>6, MovedOnly

\* A step of a run moves no task but the one that is run.
LEMMA RunPlaces ==
  ASSUME Types, PlacesInv, NEW w \in Workers, RunTask(w) \/ SendBeat(w)
  PROVE  PlacesInv'
<1> PICK t \in created : t = taskOf[w]
  BY DEF RunTask, RunRemoved, RunScheduled, Reschedule, SendBeat, Types, Known, PoolTypeOK, WithTask
<1>0. pc \in [Workers -> Locations] /\ taskOf \in [Workers -> Tasks \cup {NoTask}] /\ NoTask \notin created
  BY NoTaskAssumption DEF Types, PoolTypeOK, BeatTypeOK, Locations
<1>1. UNCHANGED <<closing, stopDelayed, stopPool, created, destroyed, adding>> /\ StopKnown'
  BY DEF RunTask, RunRemoved, RunScheduled, Reschedule, SendBeat, EndTask, Goto, Schedule, beats,
     PlacesInv, StopKnown
<1>2. CASE RunRemoved(w)
  <2>1. /\ UNCHANGED scheduledTasks /\ deleted' = deleted \cup {t} /\ Runs(w, t)
        /\ \A v \in Workers : /\ pc'[v] = IF v = w THEN "scan" ELSE pc[v]
                              /\ taskOf'[v] = IF v = w THEN NoTask ELSE taskOf[v]
    BY <1>0, <1>2 DEF RunRemoved, EndTask, Runs
  <2>2. \A u \in created : u # t => Elsewhere(u)
    BY <1>0, <1>1, <2>1 DEF Elsewhere, Runs, Adds
  <2>3. ~destroyed => ~Placed(t)' /\ Single(t)' /\ Kept(t)'
    BY <1>0, <1>1, <2>1 DEF PlacesInv, Placed, Single, Kept, Runs, Adds
  <2> QED
    BY <1>1, <2>2, <2>3, MovedOnly
<1>3. CASE RunScheduled(w)
  <2>1. \A u \in created : Elsewhere(u)
    BY <1>0, <1>1, <1>3 DEF RunScheduled, Goto, Elsewhere, Runs, Adds, beats
  <2> QED
    BY <1>1, <2>1, MovedOnly
<1>4. CASE Reschedule(w)
  <2> DEFINE f == [pc EXCEPT ![w] = "beat"]
  <2>1. f \in [Workers -> Locations] /\ (pc' = f \/ pc' = NotifyAll(f))
    BY <1>0, <1>4, PcFacts DEF Reschedule, Schedule
  <2>2. \A v \in Workers : pc'[v] \in {"taken", "schedule"} <=> f[v] \in {"taken", "schedule"}
    <3> HIDE DEF f
    <3> QED
      BY <2>1, NotifyRuns
  <2>3. /\ UNCHANGED <<taskOf, deleted>>
        /\ scheduledTasks' = IF stopPool THEN scheduledTasks ELSE scheduledTasks \cup {t}
    BY <1>4 DEF Reschedule, Schedule, beats
  <2>4. Runs(w, t) /\ \A v \in Workers : \A u \in created : Runs(v, u)' <=> v # w /\ Runs(v, u)
    BY <1>0, <1>4, <2>2, <2>3 DEF Reschedule, Runs
  <2>5. \A u \in created : u # t => Elsewhere(u)
    BY <1>1, <2>3, <2>4 DEF Elsewhere, Runs, Adds
  <2>6. ASSUME ~destroyed PROVE Single(t)' /\ Kept(t)' /\ t \notin deleted'
    <3>1. Single(t) /\ t \notin deleted
      BY <2>4, <2>6 DEF PlacesInv, Placed
    <3>2. (\A v \in Workers : ~Runs(v, t)') /\ (\A a \in Apps : ~Adds(a, t)')
      BY <1>1, <2>4, <3>1 DEF Single, Adds
    <3>3. closing' = "no" => t \in scheduledTasks'
      BY <1>1, <2>3 DEF PlacesInv, StopKnown
    <3> QED
      BY <2>3, <3>1, <3>2, <3>3 DEF Single, Kept, Placed
  <2> QED
    BY <1>1, <2>5, <2>6, MovedOnly
<1>5. CASE SendBeat(w)
  <2>1. \A u \in created : Elsewhere(u)
    BY <1>0, <1>1, <1>5 DEF SendBeat, EndTask, Elsewhere, Runs, Adds, beats
  <2> QED
    BY <1>1, <2>1, MovedOnly
<1> QED
  BY <1>2, <1>3, <1>4, <1>5 DEF RunTask

LEMMA PoolPlaces ==
  ASSUME Types, PlacesInv, UNCHANGED beats,
         \/ \E t \in Tasks : BecomesDue(t)
         \/ \E w \in Workers : Work(w) \/ Timeout(w) \/ WakeSpuriously(w)
         \/ Stop
  PROVE  PlacesInv'
<1>0. /\ pc \in [Workers -> Locations] /\ taskOf \in [Workers -> Tasks \cup {NoTask}] /\ NoTask \notin created
      /\ UNCHANGED <<created, deleted, adding, destroyed>>
  BY NoTaskAssumption DEF Types, PoolTypeOK, BeatTypeOK, Locations, beats
<1>1. ASSUME UNCHANGED <<scheduledTasks, taskOf>>, StopKnown', closing' = "no" => closing = "no",
             \A w \in Workers : pc'[w] \in {"taken", "schedule"} <=> pc[w] \in {"taken", "schedule"}
      PROVE  PlacesInv'
  <2>1. \A u \in created : Elsewhere(u)
    BY <1>0, <1>1 DEF Elsewhere, Runs, Adds
  <2> QED
    BY <1>0, <1>1, <2>1, MovedOnly
<1>2. ASSUME NEW t \in Tasks, BecomesDue(t) PROVE PlacesInv'
  BY <1>1, <1>2 DEF BecomesDue, PlacesInv, StopKnown
<1>3. ASSUME NEW w \in Workers, NEW l \in Locations \ {"taken", "schedule"}, Goto(w, l),
             pc[w] \notin {"taken", "schedule"}
      PROVE  PlacesInv'
  BY <1>0, <1>1, <1>3 DEF Goto, PlacesInv, StopKnown
<1>4. ASSUME NEW w \in Workers,
             TestStop(w) \/ FindEmpty(w) \/ FindEarly(w) \/ EndScan(w) \/ Sleep(w) \/ Timeout(w)
             \/ WakeSpuriously(w)
      PROVE  PlacesInv'
  <2>1. pc[w] \notin {"taken", "schedule"}
    BY <1>4 DEF TestStop, FindEmpty, FindEarly, CanScan, EndScan, Sleep, Timeout, WakeSpuriously, Waiting, Sleeping
  <2>2. \E l \in Locations \ {"taken", "schedule"} : Goto(w, l)
    BY <1>4, PcFacts DEF TestStop, FindEmpty, FindEarly, EndScan, Sleep, Timeout, WakeSpuriously
  <2> QED
    BY <1>3, <2>1, <2>2
<1>5. ASSUME NEW w \in Workers, NEW t \in Tasks, Take(w, t) PROVE PlacesInv'
  <2>1. /\ t \in scheduledTasks /\ scheduledTasks' = scheduledTasks \ {t} /\ pc[w] \notin {"taken", "schedule"}
        /\ \A v \in Workers : /\ pc'[v] = IF v = w THEN "taken" ELSE pc[v]
                              /\ taskOf'[v] = IF v = w THEN t ELSE taskOf[v]
    BY <1>0, <1>5 DEF Take, CanScan, Types, PoolTypeOK
  <2>2. UNCHANGED <<stopDelayed, stopPool, closing>> /\ StopKnown'
    BY <1>5 DEF Take, PlacesInv, StopKnown
  <2>3. \A u \in created : u # t => Elsewhere(u)
    BY <1>0, <2>1 DEF Elsewhere, Runs, Adds
  <2>4. t \in created
    BY <2>1 DEF Types, Known
  <2>5. ASSUME ~destroyed PROVE Single(t)' /\ Kept(t)' /\ t \notin deleted'
    <3>1. Single(t) /\ t \notin deleted
      BY <2>1, <2>4, <2>5 DEF PlacesInv, Placed
    <3>2. (\A v \in Workers : Runs(v, t)' <=> v = w) /\ (\A a \in Apps : ~Adds(a, t)')
      BY <1>0, <2>1, <3>1 DEF Single, Runs, Adds
    <3> QED
      BY <1>0, <2>1, <3>1, <3>2 DEF Single, Kept, Placed
  <2> QED
    BY <1>0, <2>2, <2>3, <2>5, MovedOnly
<1>6. ASSUME NEW w \in Workers, DropTask(w) PROVE PlacesInv'
  <2>1. /\ UNCHANGED <<scheduledTasks, closing>> /\ StopKnown' /\ closing # "no"
        /\ \A v \in Workers : /\ pc'[v] = IF v = w THEN "done" ELSE pc[v]
                              /\ taskOf'[v] = IF v = w THEN NoTask ELSE taskOf[v]
    BY <1>0, <1>6 DEF DropTask, PlacesInv, StopKnown
  <2>2. \A u \in created, v \in Workers : Runs(v, u)' <=> v # w /\ Runs(v, u)
    BY <1>0, <2>1 DEF Runs
  <2>3. ASSUME NEW u \in created, ~destroyed
        PROVE  Single(u)' /\ Kept(u)' /\ (u \in deleted' => ~Placed(u)')
    BY <1>0, <2>1, <2>2, <2>3 DEF PlacesInv, Single, Kept, Placed, Adds
  <2> QED
    BY <1>0, <2>1, <2>3 DEF PlacesInv
<1>7. CASE Stop
  <2>1. UNCHANGED <<scheduledTasks, taskOf>> /\ StopKnown' /\ (closing' = "no" => closing = "no")
    BY <1>7 DEF Stop, NotifyStop, SetStopPool, JoinThreads, PlacesInv, StopKnown
  <2>2. pc' = pc \/ pc' = NotifyAll(pc)
    BY <1>7 DEF Stop, NotifyStop, SetStopPool, JoinThreads
  <2> QED
    BY <1>0, <1>1, <2>1, <2>2, NotifyRuns
<1> QED
  BY <1>2, <1>4, <1>5, <1>6, <1>7 DEF Work

LEMMA DestroyPlaces ==
  ASSUME Types, PlacesInv, Destroy \/ RemoveAllBeatInfo
  PROVE  PlacesInv'
<1>1. CASE Destroy
  <2>1. UNCHANGED <<scheduledTasks, taskOf, pc, created, deleted, adding, destroyed>> /\ StopKnown' /\ closing' = "flag"
    BY <1>1 DEF Destroy, BeginStop, SetStopDelayed, StopKnown, beats
  <2>2. \A u \in created : Elsewhere(u)
    BY <2>1 DEF Elsewhere, Runs, Adds
  <2> QED
    BY <2>1, <2>2, MovedOnly
<1>2. CASE RemoveAllBeatInfo
  BY <1>2 DEF RemoveAllBeatInfo, PlacesInv, StopKnown, pool
<1> QED
  BY <1>1, <1>2

LEMMA InitPlaces == RegistrationInit => PlacesInv
BY DEF RegistrationInit, Init, PoolInit, PlacesInv, StopKnown

LEMMA NextPlaces == Types /\ PlacesInv /\ [RegistrationNext]_allVars => PlacesInv'
<1> SUFFICES ASSUME Types, PlacesInv, [RegistrationNext]_allVars PROVE PlacesInv'
  OBVIOUS
<1>1. ASSUME UNCHANGED vars PROVE PlacesInv'
  <2>1. \A u \in created : Elsewhere(u)
    BY <1>1 DEF vars, pool, beats, Elsewhere, Runs, Adds
  <2> QED
    BY <1>1, <2>1, MovedOnly DEF PlacesInv, StopKnown, vars, pool, beats
<1>2. ASSUME \/ \E a \in Apps : RequestArrives(a) \/ RequestFails(a)
             \/ \E k \in Keys : Expire(k)
             \/ UNCHANGED allVars
      PROVE  UNCHANGED vars
  BY <1>2 DEF RequestArrives, RequestFails, Expire, allVars
<1> QED
  BY <1>1, <1>2, Steps, CallPlaces, SchedulePlaces, RunPlaces, PoolPlaces, DestroyPlaces

\* Before the reactor is stopped a task is in exactly one place as long as it
\* lives, and in none once it has been deleted; stopping puts it in no second one
\* (BeatReactor::addBeatInfo, BeatTask::run, DelayedWorker::run).
THEOREM OnePlaceHolds == RegistrationSpec => []OnePlace
<1>1. Types /\ PlacesInv => OnePlace
  <2> SUFFICES ASSUME Types, PlacesInv, ~destroyed, NEW t \in created
               PROVE  /\ t \in deleted => Places(t) = 0 /\ (\A k \in Keys : beatInfoList[k] # t)
                      /\ t \notin deleted /\ closing = "no" => Places(t) = 1
                      /\ Places(t) <= 1
    BY DEF OnePlace
  <2>1. Single(t) /\ Kept(t) /\ (t \in deleted => ~Placed(t))
    BY DEF PlacesInv
  <2>2. t \in deleted => \A k \in Keys : beatInfoList[k] # t
    BY NoTaskAssumption DEF Types, Known, BeatTypeOK
  <2> QED
    BY <2>1, <2>2, PlacesCounts DEF Kept
<1> QED
  BY <1>1, InitPlaces, NextPlaces, TypesInvariant, PTL DEF RegistrationSpec
================================================================================
