# A verification development of nacos-sdk-cpp

TLA+ models of the client's own core logic: what its threads, files, locks,
reference counts and the network can do to it. TLC checks the models on small
instances; TLAPS proves theorems about eight of them for every instance. Line
numbers of the code that each definition stands for are in `PROJECT.json`
(`map`); all paths below are those of the repository, under `src/`.

## 1. The system

A process makes a `NacosServiceFactory` and from it a config service and a naming
service. Each owns an `ObjectConfigData` with the objects below and with its
threads: the config watcher, the subscription poller, the UDP listener, the
pool that sends heartbeats, the thread that refreshes the server list and the one that
refreshes the login.

| Component | State it keeps | Operations | Talks to |
|---|---|---|---|
| **Sequence provider** (`utils/SequenceProvider.h`) | a file with the next free id; `_current`, `_hwm`, `_acquireMutex` | constructor, `next()`, `preserve()` | file system; called by `NacosNamingService::registerInstance` |
| **Configuration listening** (`listen/ClientWorker`, `ListeningData`, `Listener`) | `listeningKeys` (MD5 and listener list per key), `deleteList`, reference counts, `stopThread`, one watcher thread | `addListener`, `removeListener`, `removeListenerActively`, `startListening`, `stopListening`, the watcher's `performWatch` | config server (long poll, fetch); calls the application's listeners back |
| **Configuration service** (`config/NacosConfigService`, `ConfigProxy`) | none of its own | `getConfig` (failover file, server, snapshot), `publishConfig`, `removeConfig`, listeners | client worker, snapshots, server |
| **Snapshots** (`LocalSnapshotManager`, `ConcurrentDiskUtil`, `IOUtils`) | files | `getFailover`, `getSnapshot`, `saveSnapshot` | file system |
| **Naming service** (`naming/NacosNamingService`) | none of its own | register, deregister, subscribe, unsubscribe, queries | beat reactor, dispatcher, poller, proxy |
| **Host reactor** (`subscribe/HostReactor`, `cache/ChangeAdvice`) | `_serviceInfoMap` under `rwLock` | `processServiceJson`, `compareChange` | dispatcher (`notifyDirectly`) |
| **Event dispatcher** (`subscribe/EventDispatcher`, `EventListener`) | `observerMap` under `rwLock`, reference counts | `addListener`, `removeListener`, `notifyDirectly`, `purgeAllListeners` | the application's listeners |
| **Subscription poller, UDP listener** (`subscribe/`) | `pollingList`; `_started`; a thread each | `addPollItem`, `removePollItem`, the two thread functions, `start`, `stop` | server (queries, datagrams), host reactor |
| **Thread pools** (`thread/DelayedThreadPool`, `ThreadPool`) | the queue sorted by due time, lock and condition variable, two stop flags | `schedule`, `DelayedWorker::run`, `stop` | runs beat tasks |
| **Heartbeats** (`naming/beat`) | `beatInfoList`; `_scheduled` of each task | `addBeatInfo`, `removeBeatInfo`, `BeatTask::run`, destruction | delayed pool, proxy |
| **Naming proxy** (`naming/NamingProxy`) | none | `reqAPI`, `callServer`, `sendBeat` | server list, security manager, HTTP |
| **Server list** (`server/ServerListManager`) | the list of servers, replaced by the pull thread | `getServerList`, `getServerCount`, `getCurrentServerAddr`, `pullWorkerThread`, `start`, `stop` | HTTP |
| **Security manager** (`security/`) | access token, its life time, a refresh thread | `login`, `addAccessToken2Req`, `tokenRefreshThreadFunc`, `start`, `stop` | HTTP |
| **Selectors** (`naming/selectors`) | none | choice by weight, by health, at random | called with the server's list by `getInstanceWithPredicate` |
| **Object life cycle** (`factory/`, `init/`, `Logger::applyLogSettings`) | `ObjectConfigData`; the static flags `Init::inited`, `logSystemInitialized` and their locks | the three `Create*Service`, `~ObjectConfigData` | builds, starts, stops and deletes all of the above |
| Maintain service, HTTP client, JSON, properties, writing the log, cryptography | none that lasts | pass-through, parsing, I/O, standard algorithms | – |

### What is hard here, and what has to be right

* **Ids.** The provider counts in memory and reserves in a file, with crashes
  possible between any two steps, a second check under a mutex, and an exception that can
  leave it; errors of `read()` and `write()` pass for successes. No id twice; the file is ahead of the ids in use.
* **Configuration listening.** Removals are deferred to the watcher, adds are not; the
  poll runs without the lock, its answer is used later; fetches fail in the middle. No
  listener is freed while listed or called; the MD5 posted is what the
  listeners were told, or added with; they converge; what is removed is freed, at the latest by the destructor.
* **Subscription.** Subscribing and unsubscribing have two halves with a lock
  each; two threads store and notify; datagrams arrive late, twice or never; a
  notification holds references while the lists change. No listener is deleted while
  somebody holds it; who listens is polled; each stored change is told.
* **Heartbeats.** A task puts itself back into the queue before it sends, so it may
  be on two workers; deregistration leaves deletion to the next run; workers wait on a
  condition variable. A task is never lost, doubled or run after deletion;
  beats go on; `stop()` returns.
* **Snapshots.** The file is truncated and rewritten in place, without a lock, while other
  threads stat, open and read it; the process may die in between, and no error of the calls on the file is
  looked at. A save that is alone leaves its content, or the beginning of it if it was cut; a read without
  interference gives what was saved last, as far as it was saved.
* **Requests.** The server list is replaced while requests go round a copy of it, and the
  login holds a lock that every request needs. A request fails only after every server
  failed; it returns; the token is renewed; the list follows the address server; the service stops.
* **Registration.** `registerInstance` and `deregisterInstance` change the beat reactor first and
  the server after it, by a request that may fail, while beats are under way that register the
  instance as well. An instance beats through one task; one with a beat gets listed; a deregistered one
  gets forgotten.
* **Selectors.** The weighted choice truncates the sum of the weights after each addition, may overflow
  it, and then walks along the list without a test for its end. The walk must not pass it.
* **Life cycle.** Services are created by several threads, fail halfway with threads already running,
  and are destroyed in an order that is written down by hand for each kind. What is global is
  initialised once; no thread outlives an object it calls; a destroyed service leaves nothing but what the code forgets.

`PROJECT.json` (`hazards`) lists these points one by one with the line where they bite
and the properties that watch over them.

## 2. The modules

```
IdAllocator  <--refines--  SequenceProvider  <--  MCSequenceProvider
                                             <--  SequenceProviderProofs (TLAPS)
ClientWorker  <--  ClientWorkerProofs (TLAPS)
EventDispatcher  <--  NamingSubscription  --INSTANCE-->  HostReactor
                      NamingSubscription  <--  NamingSubscriptionProofs (TLAPS)
DelayedThreadPool  <--  BeatReactor  <--  InstanceRegistration  <--  InstanceRegistrationProofs (TLAPS)
ConfigService  <--  MCConfigService
               <--  ConfigServiceProofs (TLAPS)
Requests  <--  MCRequests
          <--  RequestsProofs (TLAPS)
ServiceFactory  <--  ServiceFactoryProofs (TLAPS)
InstanceSelection  <--  MCInstanceSelection
                   <--  InstanceSelectionProofs (TLAPS)
```

### SequenceProvider, IdAllocator

One action for each access to the file, the mutex or an atomic counter. A thread is in the
constructor or in `next()`; `pc` names the step of `preserve()` it is at:
`exists` (`CheckExists`), `open` (`OpenFile`, `OpenFails`), `init` (`WriteInit`), `read`,
`write`, `hwm`. `next()` is `Claim` (`getAndInc`), `Return`/`NeedBlock` (the loop's
test), `Lock`, `Recheck`, the steps of `preserve()`, `Unlock`. `Crash(p)` empties
the memory of a process and keeps the file. A file that exists without bytes
(`Empty`) is a state of its own: `preserve()`'s read loop does not leave it.
`ensureWrite()` and the read loop add the -1 of a failing call to a `size_t` and end as after a success:
`WriteInitFails` leaves the new file empty, `WriteFails` leaves the number where it was and goes on to `_hwm`,
`ReadFails` leaves in `cur` what was on the stack (`Junk`). `unsaved` is history: the last write of a block failed;
`damaged` is history too: a provider works on a number that was not the one saved, since a read failed, or since it
started while `unsaved` held. A write or read of a part of the eight bytes is left out.
`ProviderOf` says which thread uses which provider, so that one module stands
for one provider with many threads and for several providers on one file.
`IdAllocator` is the promise: each call takes one id that was never issued, until the number in the file is
lost. `AllocatorSpec` is the refinement; the variables `issued`, `served` and `damaged` are history that both share.

### ClientWorker

`listeningKeys`, `md5` and `listenerList` are the map of `ListeningData`; `deleteList`, `refCount`,
`stopThread` are the code's. The watcher's `pc` follows `listenerThread`,
`checkListenedKeys`, `performWatch` and `clearDeleteList`; it holds `watchListMutex` in
`process` and `clear`, and the other holders keep it for one action. `BeginAdd` is
`addListener()` up to the end of its `getConfig()`, whose outcome is any content (server,
failover file, old snapshot, exception); `AddListener` is the locked part, `StartListening`
the last. `~ClientWorker()` is `StopListening`, `JoinWatcher`, `DrainItem`, `ClearListener`.
A content is its version number and so is its MD5; 0 is the empty content.
`told` is history: what a listener was last called with, which only `Deliver` sets; `addListener()` calls nobody.
`base` is the content a listener was added with, until its first call. `Known` is the one, or before the first call the
other: the application is taken to have its content of before the add from `getConfig()`.
The application serialises its calls on one listener and does not reuse a listener it
has removed everywhere, since the SDK deletes it.

### EventDispatcher, HostReactor, NamingSubscription

`EventDispatcher` has the observer map, the reference counts and the local list of each
`notifyDirectly()`; `HostReactor` says which answer is stored and which is a change, with the
instances of a service as one value and `lastRefTime` as its time. `NamingSubscription`
composes them with the poller (`CopyPollingList`, `QueryAnswered`, `QueryFails`, `EndScan`), the
UDP thread (`BeginReceive`, `Receive`, `ReceiveFails`), both halves of `subscribe()` and
`unsubscribe()`, and the destruction of the naming service (`StopPoller`,
`StopListener`, `PurgeAllListeners`). `processServiceJson()` is three kinds of step in either thread:
`StoreInfo` under the reactor's lock, `BeginNotify` under the dispatcher's read lock,
`Notify` without a lock. The server is external: every datagram it ever sent may
arrive at any later time, any number of times, or not at all. The stop signal to the UDP thread is lost when the
thread is between its test of `_started` and `recvfrom()`: `StopListener` ends a thread that is in `recv` or leaves it there.
`removeListenerHelper()` reads the size of a list after it erased it; the model lets that read
give any number. With one dispatcher thread never started, `notify()` is not modelled.

### DelayedThreadPool, BeatReactor, InstanceRegistration

`DelayedThreadPool` is `DelayedWorker::run` with one action for every stretch between
lock operations, condition wait (`Sleep`, `Timeout`, `WakeSpuriously`) and flag tests, and
`stop()` in the steps in which it sets flags and notifies without the lock. A due
time is abstracted to whether it has come; the sorted queue then yields a due task if
there is one. `BeatReactor` adds the list of beats and `BeatTask::run`: `RunRemoved` deletes
the task, `RunScheduled`, `Reschedule`, `SendBeat` keep it going.

`InstanceRegistration` puts the naming service above the reactor and the server's list of instances
(`listed`, external) behind it. `RegisterInstance` and `DeregisterInstance` are the reactor's half of a
call; `request[a]` is the other half, which arrives (`RequestArrives`) or not (`RequestFails`, the call
throws). A beat carries all the data of its instance, so that one that arrives registers it
(`BeatArrives`); the server drops instances at any time (`Expire`). A persistent instance is its request
alone and is left out.

### ConfigService

`getConfig()` of several threads for one configuration, one action for each system call on
the snapshot file: `Create` (`fopen("wb")`), `WriteChunk`, `RemoveSnapshot`, `Stat`, `Size`, `Open`,
`ReadChunk`, `EndRead`. None of their errors is looked at, and each may fail: `CreateFails` (a `NULL` of
`fopen()`, of which `fwrite()` dies), `WriteFails` (the rest is not written, on a full disk for one, and
`getConfig()` returns as after a success), `RemoveFails` (the refused content stays), `ReadFails` (the buffer is left as it was).
A file is a sequence of chunks, each the number of
the content it belongs to; `path` says which file the name stands for, so that a removed
file goes on for who has it open. A chunk that was never written (`Hole`) reads as zero and ends the
string; a buffer that was not filled holds `Garbage` or nothing. `saved`, `mark` and
`expect` are history: what the last save wrote, whether that save is whole, cut (by a crash, by an error, or
because it goes on) or mixed with another, and what a reader has to find if no other thread interferes; `partial` are the readers
that found the save cut. The failover file is one read, since only
an operator edits it. Publishing and removing are what they do to the server. Saves are
unconditional: `SnapShotSwitch` is on and `JVMUtil::isMultiInstance()` off, their defaults (with
several instances `ConcurrentDiskUtil` takes a shared lock for writing too, which excludes nobody).

### Requests

`serverList` with the thread that pulls it (`PullSend` to `PullAgain`); the token with
`login` and its refresher (`BeginLogin` to `EndPause`); requests of the application. `NamingRequest`,
`Count`, `Send`, `Answer`, `TryFails`, `Throw` are `NamingProxy::reqAPI()` and `callServer()`;
`ConfigRequest` picks the one server that a config request asks. `Locked` is the write lock that `login()`
holds while it tries servers: `Send` and `PullSend` wait for it. Authentication is on. A token is `current`,
`older` (from before the last login) or `expired`; a request that is tried again carries the former
tokens too, and which of them the server looks at is left open. Servers go down and come back,
the address server's list changes, tokens expire: all external. An exception in the
pull thread is not caught below `Thread::threadFunc()`, which aborts (`PullFails`).

### ServiceFactory

A service is its `kind`, its settings (authentication, endpoint, factory) and a `stage`, the place at
which the thread that creates or destroys it is. Up to `ready` there is one action for each stretch of
`Create*Service` that another thread may interrupt, and one for each exception: `Init::doInit()`
(`TestInited` to `DoInit`, `InitFails`), `buildConfigManager()`, the settings of the log (`TestLog` to
`ApplyLogSettings`), the server list manager with its pull thread (`BuildServers`), the other objects
(`Assemble`), the constructor of the service (`StartThreads`, `Login`). A creation that throws leaves its
objects and threads as they are. `Destruction(kind)` lists the steps of the three destructors, stops and
deletions in the order of the code; `DestroyStep` does the next one. `Uses(t, s)` are the
objects that a thread's function calls, `ThreadOf` says which thread the destructor of an object
stops as well. The objects are the members of `ObjectConfigData` and, as `pullThread`, the `Thread` that
`ServerListManager::stop()` joins and forgets; the others' `Thread` objects are deleted with their owners. `Bind` is the UDP thread's socket: a second one on the same port aborts the process.
`NacosConfigService` and the maintain service have no thread of their own until the first listener
(`StartListening`).

### InstanceSelection

`getInstanceWithPredicate()` with each selector. A list is any list of the server. A weight, times
65536, is a double; its integral part is kept, and of the rest what tells one
rounding from another: whether an addition to an int may round it up, whether a subtraction may lose
it, whether it is below `1e-10`. `Add` is the loop that sums up into an int, truncating after each
addition and wrapping to the smallest int beyond the range; `Draw` is `RandomUtils::random()`, which throws
when there is nothing to draw from, and for the one wrapped total that has no predecessor draws any
int; `Walk` and `Pick` are the walk. `sums` is history: the weights counted so far.

## 3. What the runs show

| Run | Question | Result |
|---|---|---|
| `sequence` | one provider, two threads, crashes at every step, a failing read or write: `IssuedReserved`, `UniqueIds`, refinement of `IdAllocator`, `CallsReturn` | hold |
| `client_worker` | two keys and listeners, failing polls and fetches, deferred removals: `ListenerAlive`, `PostedIsKnown`, `NothingLeaks`, `Converges`, `RemovedIsFreed` | hold |
| `lost_listener` | a listener whose last call was `addListener` stays listed: `RegisteredIsListed` | **violated** |
| `naming_subscription` | one application thread, poller, UDP: `ReferencesHeld`, `ListenedIsPolled`, `ChangeInHand`, `PurgeDeletesAll`, `EveryChangeIsTold`, `PolledIsCurrent` | hold |
| `stale_notification` | `LastToldIsCurrent` with both notifying threads | **violated** |
| `shared_listener` | one listener on two services at destruction: `NoAssertionFails` | **violated** |
| `instance_registration` | two threads that register and deregister an instance, two workers that send its beats, failing requests, stop at any time: `OnePlace`, `OneBeatPerInstance`, `BeatsRegister`, `DeregisteredLeavesNothing` | hold |
| `beat_stop` | `StopReturns` | **violated** |
| `config_service` | two threads in `getConfig()`, a crash, a failing call on the file: `SnapshotIsOneContent`, `FallbackIsLastSaved` | hold |
| `requests` | a request, the refresher and the puller, with servers that come and go: `AvailableServerAnswers`, `AvailableServerLogsIn`, `CallsReturn`, `TokenRenewed`, `ListFollowsPage` | hold |
| `service_factory` | two services of any kinds, created with one factory and destroyed, with every failure: `InitializedOnce`, `ConfiguredOnce`, `NoUseAfterDelete`, `DestroyedIsGone`, `CallsReturn` | hold |
| `instance_selection` | every list of three instances, each selector, sums that overflow: `NeverPastTheEnd`, `PickedCounts` | hold |

Six further configurations are kept beside the runs. The first three take away the one assumption under which
a property of a run holds, the others state the property without its exception, or one the code does not
have. Each ends in a counterexample:

| Configuration | Module | Property | What is different |
|---|---|---|---|
| `MCTwoProviders.cfg` | `MCSequenceProvider` | `NoIdTwice` | two naming services own a provider each on the same file, where `include/naming/Instance.h:19` says "unique id of this instance." |
| `MCLostSubscription.cfg` | `NamingSubscription` | `ListenedIsPolled` | two application threads, where the comment at `src/naming/NacosNamingService.cpp:266` says "Since there's no more listeners listening to this service, remove it from the polling list" |
| `MCLogPath.cfg` | `ServiceFactory` | `ConfiguredOnce` | two factories, whose locks are not one lock, where `src/log/Logger.h:52` says "On stage #2, the path can be configured AT MOST ONCE" |
| `MCIgnoredWrite.cfg` | `MCSequenceProvider` | `NoIdTwice` | a write of a block fails, its ids are handed out, and the process starts again: `UniqueIds` without its exception |
| `MCCutSnapshot.cfg` | `MCConfigService` | `SavedIsRead` | a write of the snapshot fails in the middle, the next `getConfig()` has no server: `FallbackIsLastSaved` without its exception, where a comment in `test/testcase/testCache.cpp` says "Saved snapshot, read it again, should be the same" |
| `MCLostSignal.cfg` | `NamingSubscription` | `DestructionEnds` | the UDP thread misses its stop signal, no datagram comes, and the destructor waits for it for ever |

What the violated ones contradict, and where (`PROJECT.json`, `findings`, for the runs):

* `preserve()` takes no lock on the sequence file, so two naming services reserve the same block.
* `removeListener` then `addListener` on the same key: the deferred removal takes the new
  registration away.
* `unsubscribe()` takes the service off the polling list in a second step, after another thread's
  `subscribe()` may have put it there.
* `processServiceJson()` stores under a lock and notifies after it, so two threads can
  notify in the reverse order; no later poll repairs it, as nothing changes any more.
* `purgeAllListeners()` overwrites only the entry that deletes a listener, so its own assertion
  fails for a listener of two services.
* `DelayedThreadPool::stop()` notifies without the lock: a worker between its test and
  its wait never wakes up and `stop()` joins it for ever.
* `initializeRuntimeLogSettings()` protects a static flag with a lock that each factory has for itself.
* `ensureWrite()` takes a failing `write()` for a success: the block is handed out although the file did not
  move, and again by the next provider.
* `saveSnapshot()` truncates the file before it writes it, and looks at no error: what a full disk or a crash left of
  a content is returned for the whole of it.
* `UdpNamingServiceListener::stop()` sets a flag and sends one signal: a thread between its test of the
  flag and `recvfrom()` sleeps on.

Some exceptions are part of the properties that hold, because the code has them.
A listener that is added twice to one key costs a reference nobody gives back
(`readded` in `NothingLeaks` and `RemovedIsFreed`). `CallsReturn` excepts a provider whose
mutex an exception left locked, and a file that a crash or a failing first write left without bytes. `UniqueIds`,
`AllocatorSpec` and `IssuedReserved` except a provider that works on a number that was not saved (`damaged`);
before that `IssuedReserved` lets the file lag behind by the one block whose write failed. `PostedIsKnown` takes for known, until the
first call of a listener, the content it was added with, without claiming that the listener was told it: a change between the
application's own `getConfig()` and its `addListener()` is not reported, by the code either. In `ConfigService` a save
that a crash or an error cuts leaves the beginning of its content, which `getConfig()` then gives for the whole
without a server, until the next save: `FallbackIsLastSaved` promises a beginning of what was saved last there, and the whole
of it otherwise. Two saves at once can leave a mixture, and a read while
another thread saves, or a failing `fread()`, can give anything: `mark` and `expect` except these. In `Requests` everything is
excepted that comes after the abort of the process. `BeatsRegister` and the reactor's part of
`DeregisteredLeavesNothing` except a service that is being destroyed. `DestroyedIsGone` excepts the
`LocalSnapshotManager`, which `destroyConfigService()` does not delete, and the `Thread` of a server list manager with an
endpoint, which `ServerListManager::stop()` forgets; a service whose creation has
thrown is never destroyed, and keeps what it had. `CallsReturn` of `ServiceFactory` is about creations:
a destruction may wait for ever for the UDP thread, which can miss its stop signal.

Deadlock checking is off where an application may stop calling and the bounds
on calls, edits and crashes end a behaviour: such an end is no fault.
Whether threads get stuck while they have work is what the liveness properties ask.

`NothingLeaks` and `ChangeInHand` are the safety halves of `RemovedIsFreed` and of `EveryChangeIsTold`: that what is owed is never lost
sight of, which can be proved, where the liveness properties say that it is paid.

## 4. Bounds, and why they are enough

| Run | Bounds | What they make happen |
|---|---|---|
| `sequence` | blocks of 2 ids, steps 1 and 3, 3 calls, 2 crashes, 1 failing read or write, 2 values of the stack | blocks used up by one and by both threads, a step larger than a block, a second crash while restarting from the first, a block whose write failed followed by one that is written, or by a restart |
| `client_worker` | 1 content besides the empty one, `ClearLimit` 1 (20 in the code), 1 edit, 4 calls, 1 fault | a listener added to both keys and removed from both; removals that wait for a second round; a fault in the middle of two changed keys |
| `lost_listener` | 4 calls, `ClearLimit` 20 | add to two keys, remove from one, add again |
| `naming_subscription` | clock to 3 (two changes), 4 calls, 2 datagrams | an old datagram after a newer poll, a change back to no instances, unsubscription in the middle of a notification, resubscription |
| `instance_registration` | 1 instance, 2 tasks, 2 workers (4 in the code), 2 threads, any number of calls that find the instance as it is | one task on both workers; a beat of the removed task under way while the instance is added again; a registration and a deregistration whose requests arrive in the other order, or not |
| `beat_stop` | 1 task, 1 worker | the stop between a worker's test and its wait |
| `config_service` | contents of 1 and 2 chunks, 5 calls, 3 edits, 1 crash, 1 failing call | a long content overwritten by a short one, a reader between two chunks, two writers on one file, a crash or an error in a save and a read after it, a removed file still open |
| `requests` | 2 servers, lists of one, two and no real server, one change of the list, one outage, any servers down at first, 1 thread | every start of the round, a server that fails in the middle of it, a list replaced in the middle of it, both servers down, an error page for a list, failed logins and a stop during each step |
| `service_factory` | 2 services, 1 factory | every pair of kinds and settings; both at the first test of a flag; one failing while the other waits for its lock; one destroyed while the other starts; both binding the port |
| `instance_selection` | lists of 3, weights to 4, an int of 3 bits | empty lists, a total of 0 and of 1, each rounding, one and two overflows, a total that wraps back to a positive number |

A smaller clear limit is the harder case: the limit is then met by two removals instead
of twenty-one. More workers than tasks' two simultaneous runs add nothing but
symmetric copies. Every bound is a constant that guards the action it counts (`Tasks` bounds how often an instance is added):
`MaxClaims`, `MaxCrashes`, `MaxEdits`, `MaxCalls`, `MaxFaults`, `MaxTime`,
`MaxPackets`, `MaxOutages`, `MaxPages`. One thread with requests is enough in `requests`: requests share
nothing but the list, which they copy, and the lock, which they only read.

## 5. Fairness

Only what the code's own threads do is fair; calls, edits, crashes, datagrams
and stops are never assumed to happen.

* `SequenceProvider`: a thread that can take its next step takes it (weak fairness per
  thread), since nothing in `next()` waits but the mutex. Strong fairness of the mutex is not
  needed: calls are bounded.
* `ClientWorker`: the watcher, a started destructor and the tail of `addListener()` run on.
  Failures are bounded, which stands for "requests do not fail for ever".
* `NamingSubscription`: all threads run on; a query that is made again and
  again is answered again and again (strong fairness of `QueryAnswered`), though it may fail any number
  of times in between. Nothing is assumed of datagrams.
* `BeatReactor`: time passes; workers run; a thread that asks for the queue's lock again and
  again gets it (strong fairness, because spurious wakeups can go on for ever); a task that is due
  again and again is taken, which the sort by due time guarantees. Waits need not
  end by themselves: `BeatsRegister` fails as soon as a notification is dropped.
* `InstanceRegistration`: the same of workers and tasks, each task from one of its places to the next; the beats of an
  instance that are sent again and again arrive now and then (strong fairness of `BeatArrives`); the server drops an
  instance that does not beat. Requests need never arrive, and the service need not be destroyed.
* `ServiceFactory`: a creation that has begun runs on until the process aborts. Neither creations nor destructions
  need begin, nor need a destruction end.
* `Requests`: tries end with an answer or a timeout, sleeps with time; a reader that asks for the lock
  again and again gets it between two logins (strong fairness of `Send` and `PullSend`: the
  refresher sleeps after each). Servers need not come back, and the address server need not answer:
  `TokenRenewed` has as its premise that some server of the list is up from some time on.

## 6. What is proved

`SequenceProviderProofs` proves, for any sets of threads and providers, any block size,
first id, steps and numbers of calls, crashes and failing reads and writes (`ConstantsAssumption`):

* `TypeCorrect`: `Spec => []TypeOK`, for any number of providers on the file.
* `Invariant`: `Spec => []Inv`, when there is one provider (`OneProvider`). `UniqueIds` is not
  inductive: that a claimed id is new depends on where all ids in use lie, which depends on
  what the file holds in the middle of `preserve()`, which depends on who may be there.
  So `Inv` is the conjunction of `TypeOK`; `MutexInv` (the critical section has one thread, the
  constructor is alone); `FileInv` (what the file holds at each step; a provider's block ends
  at or below `Reserved`, the file's number or the end of the block whose write failed); `IdInv` (issued ids are below
  `Reserved` and below the next
  claim; claimed ids are distinct and not issued); `CountInv` (as many ids as
  calls that returned). `FileInv` and `IdInv` hold until the number is lost: `Inv` is
  `TypeOK /\ MutexInv /\ CountInv /\ (damaged \/ (FileInv /\ IdInv))`, and `DamageStays`. Each part has a lemma that a step preserves it (`MutexStep`, `FileStep`,
  `IdStep`, `CountStep`), with one case per action; the part may use the whole of `Inv` before the step.
* `IdsAreUnique` and `IdsAreReserved`: `UniqueIds` and `IssuedReserved` follow from `Inv`. A failing write alone breaks
  neither uniqueness nor, by more than a block, the order of file and ids: the next block is read from where the
  file still is, and the same provider's `_current` has gone past it.
* `ImplementsAllocator`: `Spec => AllocatorSpec`. `HistoryStep` shows that a step
  leaves the history alone, loses the number, or issues one new id; the initial states agree.

The assumption `OneProvider` is needed: `MCTwoProviders.cfg` gives the counterexample.

`ServiceFactoryProofs` proves, for any number of services of any kinds and settings, and any failures:

* `TypeCorrect`: `Spec => []TypeOK`, whose last conjuncts say that a lock is held by a creation that is inside it.
  `LifeStep` and `Lockless` deal with the actions that change a stage and hold no lock.
* `InitializedOnceHolds`: `InitInv` adds that whoever is in the critical section holds the lock and that the one
  who does the work has found the flag unset. All other actions are alike for it (`OutsideInit`).
* `ConfiguredOnceHolds`, under the assumption `OneFactory`, by `LogInv` in the same way; here the flag
  is set before the work is done, so that the invariant says besides that a creation about to
  apply the settings finds none applied. `MCLogPath.cfg` shows that the assumption is needed.
* `NoUseAfterDeleteHolds` and `DestroyedIsGoneHolds`: `LifeInv` says what a service has built at each stage,
  that its threads find what they use, and, for a service that is being destroyed, that nothing
  the steps so far have named is left. That this is inductive rests on two lemmas about the order of the
  destructors, proved kind by kind: `StopsFirst` (a step that deletes an object comes after the
  stops of all threads) and `AllIsDeleted` (every object but two has its step, and the last step is a deletion).

`InstanceSelectionProofs` proves, for every list of no more elements than an unsigned int counts, every
width of int and every rounding (`ListsAssumption`):

* `WalkEnds`: `Spec => []NeverPastTheEnd`. The invariant of the walk is that what is left of the drawn number is below
  what is left of the weights (`WalkInv`). For that the total must not exceed the weights, which
  `TotalInv` says: a total that has wrapped is behind the weights by the range of the int, and the
  truncation of a negative sum towards 0 makes up for at most 1 per instance, of which there are fewer.
* `PickedCorrect`: `Spec => []PickedCounts`, from `SumsInv`: what is in the weighted list is in the list and counts.

`InstanceRegistrationProofs` proves, for any sets of instances, tasks, workers and threads of the application,
finite or not, from `NoTaskAssumption` alone:

* `RegistrationTypeCorrect`: `RegistrationSpec => []RegistrationTypeOK`. That the list names a living task of the
  right instance needs that everything the queue, the workers, the calls and the list name has been created,
  and that list and scheduled tasks determine each other (`Known`).
* `OneBeatHolds`: `OneBeatPerInstance` follows from `Known`.
* `OnePlaceHolds`: `RegistrationSpec => []OnePlace`. The invariant `PlacesInv` speaks of the places of a task one by one:
  no two of them are taken (`Single`), a living task has one until the reactor is stopped (`Kept`), a deleted one
  none. `PlacesCounts` turns this into the numbers of `Places`. A step moves one task at most, and for all others
  `MovedOnly` does the work; a task that is moved had one place only, so that it can leave it for the next.
  `schedule()` drops a task once `_stop` is set, so the flags must be known to be set by `stop()` only (`StopKnown`).

`ClientWorkerProofs` proves, for any keys, listeners, threads, numbers of contents and bounds (`ConstantsAssumption`):

* `TypeCorrect` and `PostedIsKnownHolds`, from the invariant `Inv`: the two with the types of the variables `TypeOK` does not
  speak of (`CallsOK`). `DeliverInv` and `AddListenerInv` are the two steps that change an MD5.
* `ListenerAliveHolds`: `Spec => []ListenerAlive`. A `refCount` is only as good as what it counts: `Held` says that a listener
  has as many references as adds that have not been removed (`Owes`) and removals that wait (`Pends`) together, or more;
  equality fails, for an item of the delete list whose key has gone gives no reference back. `Accounted` says that whoever is listed has one of the
  two, `NoRefs` that a deleted listener has no reference left, `CallsInv` that no call is made on a listener that may have been
  deleted, which is up to the application. Once the delete list has been drained the destructor releases what is listed,
  so that from there on the lists hold the references (`HeldAtEnd`; `DrainDoneRefs` is the step between the two). The
  sets are finite because they grow by one element at a time (`OwesAdd`, `PendsAppend`); no constant need be finite.
* `NothingLeaksHolds`: `Spec => []NothingLeaks`. For this the count must be exact, which it is for a listener that was never added to a
  key that listed it: `Counted` says that its references are the lists it is in. `OnKey` follows it on one key: it is listed from its
  add until its removal has been worked off, which waits once at most. So an item of the delete list always finds its
  listener in the list, and the reference it gives back is the list's own (`ClearHeadLeaks`).

`NamingSubscriptionProofs` proves, for any services, listeners, threads of the application, sets of instances and
bounds (`ConstantsAssumption`; the notifying threads are the two the code has):

* `TypeCorrect`: `Spec => []TypeOK`. `RestTypeOK` is what does not depend on the references; that they stay natural
  numbers needs the invariant below.
* `ReferencesHeldHolds`: `Spec => []ReferencesHeld`. `Counted` says that a listener has as many references as lists and copies
  of lists that hold it, `DeletedLast` that one without references has been deleted or never was subscribed. Whoever gives a reference
  back takes the listener out of one of the two (`GiveBackRefs`), `notifyDirectly()` adds one for each member
  of its copy, whose former one is empty (`CopyRefs`, `CallingInv`). `Subscribe` offers no listener that is deleted.
* `PurgeDeletesAllHolds`: `Spec => []PurgeDeletesAll`. The destructor purges when both threads have ended without a notification
  under way (`ThreadInv`), so that the lists hold every reference there is and the last visit deletes (`PurgeRefs`).
* `ListenedIsPolledHolds`: `Spec /\ []NoCrossing => []ListenedIsPolled`, by `PollInv`: what is about to leave the polling list
  has no listener. `NoCrossing` is a condition on what the application does: it does not subscribe to a service while it is between the two
  halves of the `unsubscribe()` of its last listener. `MCLostSubscription.cfg` shows what happens otherwise;
  `OneThreadIsPolled` that one thread meets the condition by itself.
* `ChangeInHandHolds`: `Spec => []ChangeInHand`, by `DueInv`. The thread that stores a change makes it due for the listeners of that
  moment; it then has the change in hand, until `BeginNotify` copies the listeners and from there until the copy is empty. `subscribe()` and
  `unsubscribe()` leave nothing due to the listener; a second change of the service, stored by the other thread, is due instead of the first.

`ConfigServiceProofs` proves, for any contents and lengths, any numbers of calls, edits, crashes and failing calls, and any finite sets of threads and
files (`ConstantsAssumption`, `FilesAssumption`: a disk has room for a file nobody has open, so that `fopen("wb")` finds one):

* `TypeCorrect`: `Spec => []TypeOK`. That no call returns a zero is a fact about `CString` (`CStringFact`): what is before the least
  hole has none.
* `SnapshotIsOneContentHolds`: `Spec => []SnapshotIsOneContent`, by `SnapshotInv`. While the snapshot is `cut` there is one writer at
  most, it writes what was saved last and stands at the end of the file, so that a chunk appends; the last chunk makes the file
  whole and ends the writer, so that a `whole` file has none. A writer that fails ends and leaves the file `cut` (`FailSteps`). `Create` may truncate the file of a writer or take a new one (`FreeFile`).
* `FallbackIsLastSavedHolds`: `Spec => []FallbackIsLastSaved`, by `ReaderInv`: a thread that knows what it has to read (`expect`) has seen
  the file, its size and its first chunks as they still are (`Intact`). Every step of another thread that would change the file makes
  it unknown (`OtherSteps`, `WriteStep`). What a reader gets is what the file holds, so by `SnapshotInv` the content or, for
  a reader in `partial`, a beginning of it (`Expected`).

`RequestsProofs` proves, for any servers, lists, threads, retries, outages and pages (`ConstantsAssumption`):

* `TypeCorrect`: `Spec => []TypeOK`. The list never gets empty, since `getCurrentServerAddr()` and the two loops divide by its size; no request goes out
  before there is a token (`TokenInv`).
* `AvailableServerAnswersHolds` and `AvailableServerLogsInHolds`. Both loops walk round a list from any place and come
  back to its start by `%`. `AllLeft` says where the servers lie that have been up all the time: among the `n` places from the current one
  on, round the end. A try that fails has met a server that was down, so it takes one place off (`OneLess`); with none left there is no such
  server (`NoneLeft`). `Round` says what `%` does below two rounds, which is as far as the sum of start and tries goes. `LoginInv` and
  `RequestInv` say this of the login and of each request.

So every invariant of the passing runs is proved. Only model-checked: all liveness properties (`CallsReturn`, `Converges`, `RemovedIsFreed`,
`EveryChangeIsTold`, `PolledIsCurrent`, `BeatsRegister`, `DeregisteredLeavesNothing`, `TokenRenewed`,
`ListFollowsPage`), since fairness and `ENABLED` are out of the prover's reach. What a violated run shows has its counterexample.

## 7. Not modelled, and the plan

Order of work from here:

1. Proofs of the safety halves of liveness properties that have none yet, as `NothingLeaks` and `ChangeInHand` are:
   what `DeregisteredLeavesNothing` and `Converges` rest on.
2. `modifyBeatInfo()` and the dispatcher's own thread, if they get a caller.
3. A second registration of an instance with other data: `addBeatInfo()` keeps the beat it has, and the next
   beat tells the server the old data.

Left out for good: HTTP (libcurl), JSON (rapidjson), writing and rotating the log, properties, MD5 and HMAC:
parsing, I/O and standard algorithms without a state of their own. They are the larger part of
the repository: rapidjson alone is more than half of its lines. Of the SDK's own code the map covers what
keeps state, waits, retries or races; getters, conversions, parameter lists and the overloads
that pass a call on are left out. `NacosNamingMaintainService` makes one request per call and keeps nothing.
`Init::doDeinit()` runs when the process ends. Callbacks that call the
SDK back (they would meet a held, non-recursive mutex in `ClientWorker`) belong to the application. Writes and reads of a part of
the number in the sequence file, and errors of `stat()`, are left out: a number is on the disk or is not.
`modifyBeatInfo`, `EventDispatcher::notify` and the dispatcher's thread have no caller.
