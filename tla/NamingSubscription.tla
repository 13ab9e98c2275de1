-------------------------- MODULE NamingSubscription ---------------------------
(***************************************************************************)
(* Subscription to services: NacosNamingService::subscribe and             *)
(* unsubscribe, the SubscriptionPoller thread that queries the polled      *)
(* services, the UdpNamingServiceListener thread that takes the server's   *)
(* pushes, the HostReactor they share, the EventDispatcher that calls the  *)
(* listeners, and the destruction of the naming service.                   *)
(*                                                                         *)
(* The server is external: a service changes at any time and every change  *)
(* advances its clock, which an answer carries as lastRefTime.  Its pushes *)
(* are datagrams: any of them may get lost, arrive late, or arrive twice.  *)
(***************************************************************************)
EXTENDS EventDispatcher

CONSTANTS
    Apps,        \* threads of the application
    Hosts,       \* the sets of instances a service can have; 0: none
    MaxTime,     \* bound: the server's clock
    MaxCalls,    \* bound: calls of subscribe() and unsubscribe()
    MaxPackets   \* bound: datagrams received

ASSUME ConstantsAssumption ==
    /\ Notifiers = {"poller", "udp"}
    /\ 0 \in Hosts
    /\ MaxTime \in Nat \ {0} /\ MaxCalls \in Nat /\ MaxPackets \in Nat

VARIABLES
    serviceInfoMap,  \* of the HostReactor
    server,       \* server[k]: the instances of k on the server
    now,          \* the server's clock
    pushes,       \* the datagrams the server has sent, <<key, info>>
    pollingList,  \* the services to poll
    poller,       \* the polling thread: "top" of its loop, "scan", "exited"
    copiedList,   \* the copied services it has still to query
    udp,          \* the UDP thread: "check" of _started, "recv": past it, "exited"
    handling,     \* handling[t]: the answer thread t processes, and how far
    app,          \* app[a]: the second half of a's subscribe() or unsubscribe()
    dtor,         \* how far the destruction has got
    told,         \* ghost: told[k][l]: what of k listener l has been told last
    heard,        \* ghost: heard[k][l]: the newest time of k that l has been told
    due,          \* ghost: due[k][l]: the time of the last change stored while l observed k
    used,         \* ghost: the listeners that have been subscribed
    calls, packets  \* counters for the bounds

external == <<server, now, pushes>>
threads == <<poller, copiedList, udp>>
ghosts == <<told, heard, due, used>>
bounds == <<calls, packets>>
vars == <<dispatcher, serviceInfoMap, external, pollingList, threads, handling, app, dtor,
          ghosts, bounds>>

Reactor == INSTANCE HostReactor WITH ServiceKeys <- Keys

None == [stage |-> "none"]
Idle == [stage |-> "idle"]

TypeOK ==
    /\ DispatcherTypeOK
    /\ Reactor!ReactorTypeOK
    /\ server \in [Keys -> Hosts] /\ now \in 1..MaxTime
    /\ pushes \in SUBSET (Keys \X Reactor!Infos)
    /\ pollingList \in SUBSET Keys
    /\ poller \in {"top", "scan", "exited"} /\ copiedList \in SUBSET Keys
    /\ udp \in {"check", "recv", "exited"}
    /\ handling \in [Notifiers ->
            {None} \cup [stage : {"got", "changed", "calling"}, key : Keys, info : Reactor!Infos]]
    /\ app \in [Apps -> {Idle} \cup [stage : {"poll", "unpoll"}, key : Keys, listener : Listeners]]
    /\ dtor \in {"no", "poller", "udp", "purge", "done", "aborted"}
    /\ used \in SUBSET Listeners
    /\ calls \in 0..MaxCalls /\ packets \in 0..MaxPackets

Init ==
    /\ DispatcherInit
    /\ Reactor!ReactorInit
    /\ server = [k \in Keys |-> 0] /\ now = 1 /\ pushes = {}
    /\ pollingList = {}
    /\ poller = "top" /\ copiedList = {} /\ udp = "check"
    /\ handling = [t \in Notifiers |-> None]
    /\ app = [a \in Apps |-> Idle]
    /\ dtor = "no"
    /\ told = [k \in Keys |-> [l \in Listeners |-> 0]]
    /\ heard = [k \in Keys |-> [l \in Listeners |-> 0]]
    /\ due = [k \in Keys |-> [l \in Listeners |-> 0]]
    /\ used = {}
    /\ calls = 0 /\ packets = 0

-----------------------------------------------------------------------------
(* The server. *)

\* The instances of k change; the server pushes the new state.
Change(k, h) ==
    /\ now < MaxTime
    /\ h # server[k]
    /\ server' = [server EXCEPT ![k] = h]
    /\ now' = now + 1
    /\ pushes' = pushes \cup {<<k, [hosts |-> h, time |-> now + 1]>>}
    /\ UNCHANGED <<dispatcher, serviceInfoMap, pollingList, threads, handling, app, dtor,
                   ghosts, bounds>>

-----------------------------------------------------------------------------
(* The application.  It serialises its calls on one listener, and no       *)
(* longer uses a listener the SDK may have deleted, because it has         *)
(* unsubscribed it from every service.                                     *)

CanCall(a, l) ==
    /\ dtor = "no"
    /\ app[a] = Idle
    /\ \A b \in Apps : app[b] # Idle => app[b].listener # l
    /\ calls < MaxCalls

\* subscribe(): the dispatcher's half.
Subscribe(a, k, l) ==
    /\ CanCall(a, l)
    /\ l \notin used \/ ListsOf(l) > 0
    /\ AddListener(k, l)
    /\ app' = [app EXCEPT ![a] = [stage |-> "poll", key |-> k, listener |-> l]]
    /\ used' = used \cup {l}
    /\ calls' = calls + 1
    /\ UNCHANGED <<serviceInfoMap, external, pollingList, threads, handling, dtor, told,
                   heard, due, packets>>

\* subscribe(): the poller's half, addPollItem().
AddPollItem(a) ==
    /\ app[a].stage = "poll"
    /\ pollingList' = pollingList \cup {app[a].key}
    /\ app' = [app EXCEPT ![a] = Idle]
    /\ UNCHANGED <<dispatcher, serviceInfoMap, external, threads, handling, dtor, ghosts,
                   bounds>>

\* Mutant: the service leaves the polling list with any of its listeners.
Unsubscribe_Always(a, k, l) ==
    /\ CanCall(a, l)
    /\ RemoveListener(k, l)
    /\ app' = [app EXCEPT ![a] = [stage |-> "unpoll", key |-> k, listener |-> l]]
    /\ due' = [due EXCEPT ![k][l] = 0]
    /\ calls' = calls + 1
    /\ UNCHANGED <<serviceInfoMap, external, pollingList, threads, handling, dtor, told,
                   heard, used, packets>>

\* unsubscribe(): the dispatcher's half.  The list that loses its last listener
\* is erased before its size is read: the read may give anything.
Unsubscribe(a, k, l) ==
    /\ CanCall(a, l)
    /\ RemoveListener(k, l)
    /\ \E remaining \in IF observerMap[k] = {l} THEN {0, 1} ELSE {1} :
          app' = IF remaining = 0
                 THEN [app EXCEPT ![a] = [stage |-> "unpoll", key |-> k, listener |-> l]]
                 ELSE app
    /\ due' = [due EXCEPT ![k][l] = 0]
    /\ calls' = calls + 1
    /\ UNCHANGED <<serviceInfoMap, external, pollingList, threads, handling, dtor, told,
                   heard, used, packets>>

\* unsubscribe(): the poller's half, removePollItem().
RemovePollItem(a) ==
    /\ app[a].stage = "unpoll"
    /\ pollingList' = pollingList \ {app[a].key}
    /\ app' = [app EXCEPT ![a] = Idle]
    /\ UNCHANGED <<dispatcher, serviceInfoMap, external, threads, handling, dtor, ghosts,
                   bounds>>

-----------------------------------------------------------------------------
(* The polling thread: pollingThreadFunc().  An empty list is slept over.  *)

Started == dtor = "no"

CopyPollingList ==
    /\ poller = "top"
    /\ Started
    /\ pollingList # {}
    /\ copiedList' = pollingList
    /\ poller' = "scan"
    /\ UNCHANGED <<dispatcher, serviceInfoMap, external, pollingList, udp, handling, app,
                   dtor, ghosts, bounds>>

Handle(t, k, info) ==
    handling' = [handling EXCEPT ![t] = [stage |-> "got", key |-> k, info |-> info]]

\* The server answers the query of k.
QueryAnswered(k) ==
    /\ poller = "scan" /\ handling["poller"] = None
    /\ k \in copiedList
    /\ copiedList' = copiedList \ {k}
    /\ Handle("poller", k, [hosts |-> server[k], time |-> now])
    /\ UNCHANGED <<dispatcher, serviceInfoMap, external, pollingList, poller, udp, app,
                   dtor, ghosts, bounds>>

\* Mutant: the exception leaves the thread.
QueryFails_EndsThread(k) ==
    /\ poller = "scan" /\ handling["poller"] = None
    /\ k \in copiedList
    /\ copiedList' = {}
    /\ poller' = "exited"
    /\ UNCHANGED <<dispatcher, serviceInfoMap, external, pollingList, udp, handling, app,
                   dtor, ghosts, bounds>>

\* The query throws a NacosException: on to the next service.
QueryFails(k) ==
    /\ poller = "scan" /\ handling["poller"] = None
    /\ k \in copiedList
    /\ copiedList' = copiedList \ {k}
    /\ UNCHANGED <<dispatcher, serviceInfoMap, external, pollingList, poller, udp, handling,
                   app, dtor, ghosts, bounds>>

\* The scan is over, and so is the sleep after it.
EndScan ==
    /\ poller = "scan" /\ handling["poller"] = None
    /\ copiedList = {}
    /\ poller' = "top"
    /\ UNCHANGED <<dispatcher, serviceInfoMap, external, pollingList, copiedList, udp,
                   handling, app, dtor, ghosts, bounds>>

ExitPoller ==
    /\ poller = "top"
    /\ ~Started
    /\ poller' = "exited"
    /\ UNCHANGED <<dispatcher, serviceInfoMap, external, pollingList, copiedList, udp,
                   handling, app, dtor, ghosts, bounds>>

-----------------------------------------------------------------------------
(* The UDP thread: listenerThreadFunc().  It has been stopped once dtor is *)
(* past "poller".                                                          *)

Listening == dtor \in {"no", "poller"}

BeginReceive ==
    /\ udp = "check" /\ handling["udp"] = None
    /\ udp' = IF Listening THEN "recv" ELSE "exited"
    /\ UNCHANGED <<dispatcher, serviceInfoMap, external, pollingList, poller, copiedList,
                   handling, app, dtor, ghosts, bounds>>

\* recvfrom() returns a datagram that was sent at some time.
Receive(k, info) ==
    /\ udp = "recv"
    /\ <<k, info>> \in pushes
    /\ packets < MaxPackets
    /\ packets' = packets + 1
    /\ udp' = "check"
    /\ Handle("udp", k, info)
    /\ UNCHANGED <<dispatcher, serviceInfoMap, external, pollingList, poller, copiedList,
                   app, dtor, ghosts, calls>>

\* recvfrom() returns -1 without a signal: the thread ends.
ReceiveFails ==
    /\ udp = "recv"
    /\ udp' = "exited"
    /\ UNCHANGED <<dispatcher, serviceInfoMap, external, pollingList, poller, copiedList,
                   handling, app, dtor, ghosts, bounds>>

-----------------------------------------------------------------------------
(* HostReactor::processServiceJson, in either thread. *)

\* The answer is compared and stored under the lock.  Whether it is a change
\* is found out from copies.
StoreInfo(t) ==
    LET k == handling[t].key  new == handling[t].info  old == serviceInfoMap[k]
        changed == ~Reactor!Ignored(old, new) /\ Reactor!Changed(old, new)
    IN  /\ handling[t].stage = "got"
        /\ IF Reactor!Ignored(old, new) THEN UNCHANGED serviceInfoMap
                                        ELSE Reactor!Store(k, new)
        /\ handling' = [handling EXCEPT ![t] = IF changed THEN [@ EXCEPT !.stage = "changed"]
                                                          ELSE None]
        /\ due' = IF Reactor!Ignored(old, new) \/ old.hosts = new.hosts THEN due
                  ELSE [due EXCEPT ![k] = [l \in Listeners |->
                            IF l \in observerMap[k] THEN new.time ELSE @[l]]]
        /\ UNCHANGED <<dispatcher, external, pollingList, threads, app, dtor, told, heard,
                       used, bounds>>

\* Mutant: a change is left to the thread that is calling the listeners already.
BeginNotify_LeftToOther(t) ==
    LET k == handling[t].key
        busy == \E u \in Notifiers : handling[u].stage = "calling" /\ handling[u].key = k
    IN  /\ handling[t].stage = "changed"
        /\ IF busy THEN UNCHANGED dispatcher ELSE CopyListeners(t, k)
        /\ handling' = [handling EXCEPT ![t] = IF busy \/ observerMap[k] = {} THEN None
                                               ELSE [@ EXCEPT !.stage = "calling"]]
        /\ UNCHANGED <<serviceInfoMap, external, pollingList, threads, app, dtor, ghosts,
                       bounds>>

\* notifyDirectly() copies the listeners of the service.
BeginNotify(t) ==
    LET k == handling[t].key
    IN  /\ handling[t].stage = "changed"
        /\ CopyListeners(t, k)
        /\ handling' = [handling EXCEPT ![t] = IF observerMap[k] = {} THEN None
                                               ELSE [@ EXCEPT !.stage = "calling"]]
        /\ UNCHANGED <<serviceInfoMap, external, pollingList, threads, app, dtor, ghosts,
                       bounds>>

\* notifyDirectly() calls l with what the thread has stored.
Notify(t, l) ==
    LET k == handling[t].key  new == handling[t].info
    IN  /\ handling[t].stage = "calling"
        /\ CallListener(t, l)
        /\ handling' = IF calling[t] = {l} THEN [handling EXCEPT ![t] = None] ELSE handling
        /\ told' = [told EXCEPT ![k][l] = new.hosts]
        /\ heard' = [heard EXCEPT ![k][l] = IF new.time > @ THEN new.time ELSE @]
        /\ UNCHANGED <<serviceInfoMap, external, pollingList, threads, app, dtor, due,
                       used, bounds>>

-----------------------------------------------------------------------------
(* The end: ~NacosNamingService(), when no call of the application is left. *)

\* SubscriptionPoller::stop().  A signal that finds the thread awake is lost,
\* which the next end of its sleep makes up for.
StopPoller ==
    /\ dtor = "no"
    /\ \A a \in Apps : app[a] = Idle
    /\ dtor' = "poller"
    /\ UNCHANGED <<dispatcher, serviceInfoMap, external, pollingList, threads, handling,
                   app, ghosts, bounds>>

\* The poller is joined; UdpNamingServiceListener::stop().  The signal ends
\* recvfrom().  It is lost on a thread that has tested _started and has yet to
\* call recvfrom(): that one waits for a datagram.
StopListener ==
    /\ dtor = "poller"
    /\ poller = "exited"
    /\ dtor' = "udp"
    /\ udp' \in IF udp = "recv" THEN {"recv", "exited"} ELSE {udp}
    /\ UNCHANGED <<dispatcher, serviceInfoMap, external, pollingList, poller, copiedList,
                   handling, app, ghosts, bounds>>

\* The UDP thread is joined; ~EventDispatcher() purges, and aborts when an
\* entry was not deleted.
PurgeAllListeners ==
    /\ dtor = "udp"
    /\ udp = "exited" /\ handling["udp"] = None
    /\ dtor' = IF EntriesLeft THEN "aborted" ELSE "done"
    /\ Purge
    /\ UNCHANGED <<serviceInfoMap, external, pollingList, threads, handling, app, ghosts,
                   bounds>>

-----------------------------------------------------------------------------
Call(a) ==
    \E k \in Keys, l \in Listeners : Subscribe(a, k, l) \/ Unsubscribe(a, k, l)
Return(a) == AddPollItem(a) \/ RemovePollItem(a)

Poll ==
    \/ CopyPollingList
    \/ \E k \in Keys : QueryAnswered(k) \/ QueryFails(k)
    \/ EndScan
    \/ ExitPoller
Datagram == \E k \in Keys, info \in Reactor!Infos : Receive(k, info)
Process(t) == StoreInfo(t) \/ BeginNotify(t) \/ \E l \in Listeners : Notify(t, l)
Destroy == StopPoller \/ StopListener \/ PurgeAllListeners

Next ==
    \/ \E k \in Keys, h \in Hosts : Change(k, h)
    \/ \E a \in Apps : Call(a) \/ Return(a)
    \/ Poll
    \/ BeginReceive \/ Datagram \/ ReceiveFails
    \/ \E t \in Notifiers : Process(t)
    \/ Destroy

\* Every thread makes progress; a service that is queried again and again is
\* answered again and again.  Nothing says that a datagram arrives, that the
\* server changes or that the application calls or stops.
Fairness ==
    /\ \A a \in Apps : WF_vars(Return(a))
    /\ WF_vars(Poll) /\ WF_vars(BeginReceive)
    /\ \A k \in Keys : SF_vars(QueryAnswered(k))
    /\ \A t \in Notifiers : WF_vars(Process(t))
    /\ WF_vars(StopListener \/ PurgeAllListeners)

Spec == Init /\ [][Next]_vars
FairSpec == Spec /\ Fairness

-----------------------------------------------------------------------------
(* Properties. *)

\* A listener has one reference for every list and every notification that
\* holds it, and is deleted only when nothing does: neither unsubscribe() nor a
\* notification deletes a listener another thread is about to call
\* (removeListenerHelper, notifyDirectly).
ReferencesHeld ==
    dtor # "aborted" => \A l \in Listeners :
        /\ refCount[l] = Holders(l)
        /\ l \in deleted => Holders(l) = 0

\* While no call is half done, a service somebody listens to is polled: what
\* unsubscribe() removes from the polling list has no more listeners.
ListenedIsPolled ==
    \A k \in Keys :
        observerMap[k] # {} /\ (\A a \in Apps : app[a] # Idle => app[a].key # k) /\ dtor = "no"
            => k \in pollingList

\* t has stored the last change of k that l observed, and is about to tell l of it.
InHand(t, k, l) ==
    /\ handling[t].stage = "changed" \/ (handling[t].stage = "calling" /\ l \in calling[t])
    /\ handling[t].key = k /\ handling[t].info.time = due[k][l]

\* A stored change that a listener has still to be told is in the hands of the
\* thread that stored it, which is about to copy the listeners or holds a copy
\* with this one: no step of the two threads, of subscribe(), of unsubscribe()
\* or of the destructor loses it (processServiceJson, notifyDirectly).
ChangeInHand ==
    \A k \in Keys, l \in Listeners :
        due[k][l] > heard[k][l] => l \in observerMap[k] /\ \E t \in Notifiers : InHand(t, k, l)

\* Every change that is stored while a listener observes the service reaches
\* that listener, whichever thread stored it, unless it is unsubscribed first
\* (processServiceJson, compareChange, notifyDirectly).
EveryChangeIsTold ==
    \A k \in Keys, l \in Listeners :
        due[k][l] > heard[k][l] ~> due[k][l] <= heard[k][l]

\* A service that stays in the polling list gets to the client as it is on the
\* server, however often queries fail and old datagrams come in between
\* (pollingThreadFunc, processServiceJson).
PolledIsCurrent ==
    \A k \in Keys :
        k \in pollingList /\ dtor = "no"
            ~> \/ serviceInfoMap[k].hosts = server[k]
               \/ k \notin pollingList \/ dtor # "no"

\* A destruction that gets to its end has deleted every listener.
PurgeDeletesAll == dtor = "done" => used \subseteq deleted

\* The assertion of purgeAllListeners(), that every entry was deleted.
NoAssertionFails == dtor # "aborted"

\* The destructor, once it has begun, comes back.  The code does not keep this:
\* the signal to the UDP thread may be lost (UdpNamingServiceListener::stop).
DestructionEnds == dtor = "poller" ~> dtor \in {"done", "aborted"}

\* In the end every listener that has been told of a change was told last what
\* the server has: after failures "we can get the latest status of the server
\* and send notifications".
LastToldIsCurrent ==
    \A k \in Keys, l \in Listeners :
        <>[](due[k][l] > 0 /\ k \in pollingList /\ dtor = "no" => told[k][l] = server[k])
================================================================================
