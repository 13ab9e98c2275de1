-------------------------- MODULE InstanceRegistration --------------------------
(***************************************************************************)
(* NacosNamingService::registerInstance and deregisterInstance: two        *)
(* effects each, one on the beat reactor and one, a request that may fail, *)
(* on the server, with nothing that holds them together.  The server lists *)
(* an instance when it is registered or when a beat for it arrives, for a  *)
(* beat carries all the data of the instance, and drops an instance that   *)
(* does not beat.  The instances are ephemeral ones: a persistent one has  *)
(* no beat, and its registration is the request alone.                     *)
(***************************************************************************)
EXTENDS BeatReactor

VARIABLES
    request,  \* request[a]: the request to the server that thread a has still to make
    keyOf,    \* keyOf[t]: the instance in task t's _beatInfo
    listed    \* the instances the server knows

registration == <<request, keyOf, listed>>
allVars == <<vars, registration>>

NoRequest == [op |-> "none"]
Requests == [op : {"register", "deregister"}, key : Keys]

RegistrationTypeOK ==
    /\ TypeOK
    /\ request \in [Apps -> Requests \cup {NoRequest}]
    /\ keyOf \in [Tasks -> Keys \cup {NoTask}]
    /\ listed \in SUBSET Keys
    /\ \A k \in Keys : beatInfoList[k] # NoTask => keyOf[beatInfoList[k]] = k

RegistrationInit ==
    /\ Init
    /\ request = [a \in Apps |-> NoRequest]
    /\ keyOf = [t \in Tasks |-> NoTask]
    /\ listed = {}

-----------------------------------------------------------------------------
(* The application. *)

Ask(a, operation, k) ==
    /\ request[a] = NoRequest
    /\ request' = [request EXCEPT ![a] = [op |-> operation, key |-> k]]

\* registerInstance(): the beat first, which is kept as it is if the instance
\* has one already.
RegisterInstance(a, k) ==
    /\ Ask(a, "register", k)
    /\ \/ \E t \in Tasks : AddBeatInfo(a, k, t) /\ keyOf' = [keyOf EXCEPT ![t] = k]
       \/ /\ CanCall(a)
          /\ beatInfoList[k] # NoTask
          /\ UNCHANGED <<pool, beatInfoList, scheduled, deleted, created, adding, destroyed, keyOf>>
    /\ UNCHANGED listed

\* deregisterInstance(): the beat, if there is one, goes first.
DeregisterInstance(a, k) ==
    /\ Ask(a, "deregister", k)
    /\ \/ RemoveBeatInfo(a, k)
       \/ /\ CanCall(a)
          /\ beatInfoList[k] = NoTask
          /\ UNCHANGED <<pool, beatInfoList, scheduled, deleted, created, adding, destroyed>>
    /\ UNCHANGED <<keyOf, listed>>

\* The request reaches the server, whether or not its answer comes back.
RequestArrives(a) ==
    /\ request[a] # NoRequest /\ adding[a] = NoTask
    /\ listed' = IF request[a].op = "register"
                 THEN listed \cup {request[a].key}
                 ELSE listed \ {request[a].key}
    /\ request' = [request EXCEPT ![a] = NoRequest]
    /\ UNCHANGED <<vars, keyOf>>

\* No server could be reached: the call throws, and leaves the beat as it is.
RequestFails(a) ==
    /\ request[a] # NoRequest /\ adding[a] = NoTask
    /\ request' = [request EXCEPT ![a] = NoRequest]
    /\ UNCHANGED <<vars, keyOf, listed>>

-----------------------------------------------------------------------------
(* Beats, and the server. *)

BeatArrives(w) ==
    /\ SendBeat(w)
    /\ listed' = listed \cup {keyOf[taskOf[w]]}
    /\ UNCHANGED <<request, keyOf>>

BeatFails(w) == SendBeat(w) /\ UNCHANGED registration

Expire(k) ==
    /\ k \in listed
    /\ listed' = listed \ {k}
    /\ UNCHANGED <<vars, request, keyOf>>

\* A beat of instance k may be on its way.
Beating(k) == \E t \in Tasks : keyOf[t] = k /\ (t \in scheduled \/ \E w \in Workers : taskOf[w] = t)

-----------------------------------------------------------------------------
Register(a) == \E k \in Keys : RegisterInstance(a, k)
Deregister(a) == \E k \in Keys : DeregisterInstance(a, k)
RunTask(w) == RunRemoved(w) \/ RunScheduled(w) \/ Reschedule(w)
Destroy == BeginStop /\ \A a \in Apps : request[a] = NoRequest

Return(a) ==
    \/ ScheduleBeat(a) /\ UNCHANGED registration
    \/ RequestArrives(a) \/ RequestFails(a)

RegistrationNext ==
    \/ \E a \in Apps : Register(a) \/ Deregister(a) \/ Return(a)
    \/ \E w \in Workers : BeatArrives(w) \/ BeatFails(w)
    \/ \E k \in Keys : Expire(k)
    \/ /\ \/ \E a \in Apps : ScheduleBeat(a)
          \/ \E w \in Workers : RunTask(w)
          \/ /\ \/ \E t \in Tasks : BecomesDue(t)
                \/ \E w \in Workers : Work(w) \/ Timeout(w) \/ WakeSpuriously(w)
                \/ Stop
             /\ UNCHANGED beats
          \/ Destroy
          \/ RemoveAllBeatInfo
       /\ UNCHANGED registration

\* A task gets from each of its places to the next, and a worker goes on; the
\* beats of an instance that are sent again and again arrive now and then, and
\* the server drops an instance that has stopped beating.  Nothing says that a
\* request arrives, or that the service is destroyed.
RegistrationFairness ==
    /\ \A t \in Tasks :
         SF_allVars(/\ \/ \E a \in Apps : adding[a] = t /\ ScheduleBeat(a)
                       \/ (BecomesDue(t) \/ \E w \in Workers : Take(w, t)) /\ UNCHANGED beats
                    /\ UNCHANGED registration)
    /\ \A w \in Workers :
         SF_allVars(/\ RunTask(w) \/ ((Work(w) \/ Timeout(w)) /\ UNCHANGED beats)
                    /\ UNCHANGED registration)
    /\ \A k \in Keys :
         /\ SF_allVars(\E w \in Workers : \E t \in Tasks :
                            taskOf[w] = t /\ keyOf[t] = k /\ BeatArrives(w))
         /\ WF_allVars(Expire(k) /\ ~Beating(k))

RegistrationSpec == RegistrationInit /\ [][RegistrationNext]_allVars
FairRegistrationSpec == RegistrationSpec /\ RegistrationFairness

-----------------------------------------------------------------------------
(* Properties. *)

\* An instance with a beat gets listed, and listed again after every expiry,
\* even if registerInstance() threw after it had added the beat, or a late
\* deregistration by another thread took the instance off the server's list
\* (NacosNamingService::registerInstance, BeatTask::run).
BeatsRegister ==
    \A k \in Keys :
        beatInfoList[k] # NoTask
            ~> k \in listed \/ beatInfoList[k] = NoTask \/ closing # "no"

\* A deregistered instance leaves nothing behind, neither at the server nor a
\* task of the reactor, even if deregisterInstance() could not reach the server
\* or a beat that was under way registered the instance again; and once the
\* service has been destroyed the server forgets all its instances.
DeregisteredLeavesNothing ==
    \A k \in Keys :
        beatInfoList[k] = NoTask
            ~> \/ k \notin listed /\ \A t \in Tasks : keyOf[t] = k => t \in deleted \/ closing # "no"
               \/ beatInfoList[k] # NoTask

\* However registrations and deregistrations of an instance by several threads
\* interleave, it beats through one task at most: one that was taken off the
\* list while it waited in the queue never beats beside its successor.
OneBeatPerInstance ==
    \A t, u \in scheduled : keyOf[t] = keyOf[u] => t = u
================================================================================
