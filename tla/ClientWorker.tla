----------------------------- MODULE ClientWorker -----------------------------
(***************************************************************************)
(* Configuration listening: ClientWorker, with the calls of the config     *)
(* service that drive it.  Applications add and remove listeners; one      *)
(* watcher thread long-polls the server with the MD5s it knows, fetches    *)
(* what changed, calls the listeners and works off the removals, all under *)
(* watchListMutex except the poll itself; the destructor stops the watcher *)
(* and releases what is left.                                              *)
(*                                                                         *)
(* A content is a version number, 0 the missing or empty content; MD5 is   *)
(* injective on contents, so the MD5 of a content is its number, and ""    *)
(* is 0.  The server is external: its contents change at any time.         *)
(***************************************************************************)
EXTENDS Integers, Sequences, FiniteSets

CONSTANTS
    Keys,        \* dataId, group and tenant of a configuration
    Listeners,   \* Listener objects
    Apps,        \* threads of the application
    MaxVersion,  \* the contents a configuration can have: 1..MaxVersion
    ClearLimit,  \* what performWatch() passes to clearDeleteList(): 20
    MaxEdits,    \* bound: edits on the server
    MaxCalls,    \* bound: calls of addListener() and of the removals
    MaxFaults    \* bound: failed requests

ASSUME ConstantsAssumption ==
    /\ MaxVersion \in Nat \ {0} /\ ClearLimit \in Nat \ {0}
    /\ MaxEdits \in Nat /\ MaxCalls \in Nat /\ MaxFaults \in Nat

VARIABLES
    server,         \* server[k]: the content on the server
    listeningKeys,  \* the keys that have a ListeningData
    md5,            \* md5[k]: dataMD5 of k's ListeningData
    listenerList,   \* listenerList[k]: the listeners of k's ListeningData
    deleteList,     \* the removals asked for, <<key, listener>>, oldest first
    refCount,       \* refCount[l]: refCount of listener l
    freed,          \* the listeners that have been deleted
    stopThread,     \* the flag
    pc,             \* where the watcher thread is
    posted,         \* the MD5s of the poll in progress, per posted key
    changed,        \* the keys of the answer that remain to be processed
    removeCount,    \* clearDeleteList()'s local removeCount
    app,            \* app[a]: the addListener() call of thread a
    dtor,           \* how far the destruction of the ClientWorker has got
    owed,           \* ghost: owed[k][l]: adds of l to k the application has not removed
    wanted,         \* ghost: <<key, listener>> where the last call was an add
    used,           \* ghost: the listeners that have been added
    readded,        \* ghost: listeners added to a key that listed them already
    base,           \* ghost: base[k][l]: the content of k that l was added with, until
                    \* it is called
    told,           \* ghost: told[k][l]: the content of k that l was called with last
                    \* since its add, or Unknown
    edits, calls, faults  \* counters for the bounds

slots == <<listeningKeys, md5, listenerList>>
watcher == <<pc, posted, changed, removeCount>>
refs == <<refCount, freed>>
ghosts == <<owed, wanted, used, readded, base, told>>
bounds == <<edits, calls, faults>>
vars == <<server, slots, deleteList, refs, stopThread, watcher, app, dtor, ghosts, bounds>>

Contents == 0..MaxVersion
Unknown == -1
Idle == [stage |-> "idle"]

\* watchListMutex is held by the watcher.  The other holders keep it for the
\* length of one action.
Locked == pc \in {"process", "clear"}

Init ==
    /\ server = [k \in Keys |-> 0]
    /\ listeningKeys = {}
    /\ md5 = [k \in Keys |-> 0]
    /\ listenerList = [k \in Keys |-> {}]
    /\ deleteList = <<>>
    /\ refCount = [l \in Listeners |-> 0]
    /\ freed = {}
    /\ stopThread = TRUE
    /\ pc = "none" /\ posted = <<>> /\ changed = {} /\ removeCount = 0
    /\ app = [a \in Apps |-> Idle]
    /\ dtor = "no"
    /\ owed = [k \in Keys |-> [l \in Listeners |-> 0]]
    /\ wanted = {} /\ used = {} /\ readded = {}
    /\ base = [k \in Keys |-> [l \in Listeners |-> Unknown]]
    /\ told = [k \in Keys |-> [l \in Listeners |-> Unknown]]
    /\ edits = 0 /\ calls = 0 /\ faults = 0

-----------------------------------------------------------------------------
(* The server. *)

\* A configuration is published, or removed (0).
Edit(k, c) ==
    /\ edits < MaxEdits
    /\ c # server[k]
    /\ server' = [server EXCEPT ![k] = c]
    /\ edits' = edits + 1
    /\ UNCHANGED <<slots, deleteList, refs, stopThread, watcher, app, dtor, ghosts,
                   calls, faults>>

-----------------------------------------------------------------------------
(* The application: NacosConfigService::addListener and removeListener.    *)
(* It keeps to what a user can: it serialises its calls on one listener,   *)
(* removes what it has added, and no longer uses a listener that the SDK   *)
(* may have deleted, because it has removed it from every key.             *)

InCall(l) == \E a \in Apps : app[a] # Idle /\ app[a].listener = l
Alive(l) == l \notin used \/ \E k \in Keys : owed[k][l] > 0

CanCall(a, l) ==
    /\ dtor = "no"
    /\ app[a] = Idle
    /\ ~InCall(l)
    /\ calls < MaxCalls

\* addListener() has called getConfig(): it got the server's content, what a
\* failover file or an old snapshot holds, or an exception ("").
BeginAdd(a, k, l, c) ==
    /\ CanCall(a, l)
    /\ Alive(l)
    /\ app' = [app EXCEPT ![a] = [stage |-> "add", key |-> k, listener |-> l, content |-> c]]
    /\ calls' = calls + 1
    /\ UNCHANGED <<server, slots, deleteList, refs, stopThread, watcher, dtor, ghosts,
                   edits, faults>>

\* Mutant: the reference is taken only when the list did not hold the listener.
AddListener_RefIfNew(a) ==
    LET k == app[a].key  l == app[a].listener
        isNew == k \notin listeningKeys
        there == l \in listenerList[k]
        content == IF isNew THEN app[a].content ELSE md5[k]
    IN  /\ app[a].stage = "add"
        /\ ~Locked
        /\ listeningKeys' = listeningKeys \cup {k}
        /\ md5' = [md5 EXCEPT ![k] = content]
        /\ listenerList' = [listenerList EXCEPT ![k] = @ \cup {l}]
        /\ refCount' = [refCount EXCEPT ![l] = IF there THEN @ ELSE @ + 1]
        /\ app' = [app EXCEPT ![a].stage = "start"]
        /\ owed' = [owed EXCEPT ![k][l] = @ + 1]
        /\ wanted' = wanted \cup {<<k, l>>}
        /\ used' = used \cup {l}
        /\ readded' = IF there THEN readded \cup {l} ELSE readded
        /\ base' = IF there THEN base ELSE [base EXCEPT ![k][l] = content]
        /\ told' = IF there THEN told ELSE [told EXCEPT ![k][l] = Unknown]
        /\ UNCHANGED <<server, deleteList, freed, stopThread, watcher, dtor, bounds>>

\* ClientWorker::addListener.  A key that is already listened to keeps its
\* MD5, and the content that getConfig() gave is dropped; the reference is
\* taken whether or not the list held the listener.  The listener is not called:
\* the content of the MD5 is what it is taken to know.
AddListener(a) ==
    LET k == app[a].key  l == app[a].listener
        isNew == k \notin listeningKeys
        there == l \in listenerList[k]
        content == IF isNew THEN app[a].content ELSE md5[k]
    IN  /\ app[a].stage = "add"
        /\ ~Locked
        /\ listeningKeys' = listeningKeys \cup {k}
        /\ md5' = [md5 EXCEPT ![k] = content]
        /\ listenerList' = [listenerList EXCEPT ![k] = @ \cup {l}]
        /\ refCount' = [refCount EXCEPT ![l] = @ + 1]
        /\ app' = [app EXCEPT ![a].stage = "start"]
        /\ owed' = [owed EXCEPT ![k][l] = @ + 1]
        /\ wanted' = wanted \cup {<<k, l>>}
        /\ used' = used \cup {l}
        /\ readded' = IF there THEN readded \cup {l} ELSE readded
        /\ base' = IF there THEN base ELSE [base EXCEPT ![k][l] = content]
        /\ told' = IF there THEN told ELSE [told EXCEPT ![k][l] = Unknown]
        /\ UNCHANGED <<server, deleteList, freed, stopThread, watcher, dtor, bounds>>

\* startListening(): the first call starts the watcher thread.
StartListening(a) ==
    /\ app[a].stage = "start"
    /\ app' = [app EXCEPT ![a] = Idle]
    /\ stopThread' = FALSE
    /\ pc' = IF stopThread THEN "loop" ELSE pc
    /\ UNCHANGED <<server, slots, deleteList, refs, posted, changed, removeCount, dtor,
                   ghosts, bounds>>

\* removeListener(): the removal is left to the watcher.
RemoveListener(a, k, l) ==
    /\ CanCall(a, l)
    /\ owed[k][l] > 0
    /\ ~Locked
    /\ deleteList' = Append(deleteList, <<k, l>>)
    /\ owed' = [owed EXCEPT ![k][l] = @ - 1]
    /\ wanted' = wanted \ {<<k, l>>}
    /\ calls' = calls + 1
    /\ UNCHANGED <<server, slots, refs, stopThread, watcher, app, dtor, used, readded,
                   base, told, edits, faults>>

\* A reference to l is given back; the last one deletes the listener.
Release(l) ==
    /\ refCount' = [refCount EXCEPT ![l] = @ - 1]
    /\ freed' = IF refCount[l] = 1 THEN freed \cup {l} ELSE freed

\* l leaves the list of k; an empty list takes its ListeningData with it.
Unlist(k, l) ==
    /\ listenerList' = [listenerList EXCEPT ![k] = @ \ {l}]
    /\ listeningKeys' = IF listenerList[k] \ {l} = {} THEN listeningKeys \ {k}
                                                      ELSE listeningKeys
    /\ UNCHANGED md5

\* removeListenerActively(): the list gives the reference back at once, if it
\* holds the listener.
RemoveListenerActively(a, k, l) ==
    /\ CanCall(a, l)
    /\ owed[k][l] > 0
    /\ ~Locked
    /\ IF k \notin listeningKeys
       THEN UNCHANGED <<slots, refs>>
       ELSE /\ Unlist(k, l)
            /\ IF l \in listenerList[k] THEN Release(l) ELSE UNCHANGED refs
    /\ owed' = [owed EXCEPT ![k][l] = @ - 1]
    /\ wanted' = wanted \ {<<k, l>>}
    /\ calls' = calls + 1
    /\ UNCHANGED <<server, deleteList, stopThread, watcher, app, dtor, used, readded,
                   base, told, edits, faults>>

-----------------------------------------------------------------------------
(* The watcher: listenerThread(), checkListenedKeys(), performWatch(). *)

\* while (!stopThread) ends.
ExitThread ==
    /\ pc = "loop"
    /\ stopThread
    /\ pc' = "exited"
    /\ UNCHANGED <<server, slots, deleteList, refs, stopThread, posted, changed,
                   removeCount, app, dtor, ghosts, bounds>>

\* checkListenedKeys() collects the MD5s under the lock and posts them without.
Post ==
    /\ pc = "loop"
    /\ ~stopThread
    /\ posted' = [k \in listeningKeys |-> md5[k]]
    /\ pc' = "polling"
    /\ UNCHANGED <<server, slots, deleteList, refs, stopThread, changed, removeCount,
                   app, dtor, ghosts, bounds>>

\* External: the server names the keys whose content has another MD5 than the
\* one posted, or none when the long poll times out.
PollAnswer ==
    /\ pc = "polling"
    /\ changed' = {k \in DOMAIN posted : posted[k] # server[k]}
    /\ posted' = <<>>
    /\ pc' = "answered"
    /\ UNCHANGED <<server, slots, deleteList, refs, stopThread, removeCount, app, dtor,
                   ghosts, bounds>>

\* Mutant: the exception leaves the thread.
PollFails_EndsThread ==
    /\ pc = "polling"
    /\ faults < MaxFaults
    /\ faults' = faults + 1
    /\ posted' = <<>>
    /\ pc' = "exited"
    /\ UNCHANGED <<server, slots, deleteList, refs, stopThread, changed, removeCount,
                   app, dtor, ghosts, edits, calls>>

\* A NetworkException, or an answer other than 200: performWatch() sleeps and
\* returns.  A post without keys may be refused at any time.
PollFails ==
    /\ pc = "polling"
    /\ faults' = IF DOMAIN posted = {} THEN faults ELSE faults + 1
    /\ faults' <= MaxFaults
    /\ posted' = <<>>
    /\ pc' = "loop"
    /\ UNCHANGED <<server, slots, deleteList, refs, stopThread, changed, removeCount,
                   app, dtor, ghosts, edits, calls>>

LockWatchList ==
    /\ pc = "answered"
    /\ pc' = "process"
    /\ UNCHANGED <<server, slots, deleteList, refs, stopThread, posted, changed,
                   removeCount, app, dtor, ghosts, bounds>>

\* The listener has gone while the poll was on its way.
SkipKey(k) ==
    /\ pc = "process"
    /\ k \in changed \ listeningKeys
    /\ changed' = changed \ {k}
    /\ UNCHANGED <<server, slots, deleteList, refs, stopThread, pc, posted, removeCount,
                   app, dtor, ghosts, bounds>>

\* A ghost f with the value c for the listeners of k.
ForListeners(f, k, c) ==
    [f EXCEPT ![k] = [l \in Listeners |-> IF l \in listenerList[k] THEN c ELSE f[k][l]]]

\* k's ListeningData takes the MD5 of content c and its listeners are told c.
Deliver(k, c) ==
    /\ pc = "process"
    /\ k \in changed \cap listeningKeys
    /\ changed' = changed \ {k}
    /\ md5' = [md5 EXCEPT ![k] = c]
    /\ told' = ForListeners(told, k, c)
    /\ base' = ForListeners(base, k, Unknown)
    /\ UNCHANGED <<server, listeningKeys, listenerList, deleteList, refs, stopThread, pc,
                   posted, removeCount, app, dtor, owed, wanted, used, readded, edits, calls>>

\* The fetch is answered with 200 and the content, or with 404.
FetchAnswered(k) ==
    /\ Deliver(k, server[k])
    /\ UNCHANGED faults

\* Mutant: the MD5 is cleared, but the listeners are not called.
FetchRefused_Silent(k) ==
    /\ faults < MaxFaults
    /\ faults' = faults + 1
    /\ pc = "process"
    /\ k \in changed \cap listeningKeys
    /\ changed' = changed \ {k}
    /\ md5' = [md5 EXCEPT ![k] = 0]
    /\ UNCHANGED <<server, listeningKeys, listenerList, deleteList, refs, stopThread, pc,
                   posted, removeCount, app, dtor, ghosts, edits, calls>>

\* The fetch is answered with any other code: the listeners are told "".
FetchRefused(k) ==
    /\ faults < MaxFaults
    /\ faults' = faults + 1
    /\ Deliver(k, 0)

\* The fetch throws: performWatch() sleeps, with the lock, and leaves the loop.
FetchThrows(k) ==
    /\ pc = "process"
    /\ k \in changed \cap listeningKeys
    /\ faults < MaxFaults
    /\ faults' = faults + 1
    /\ changed' = {}
    /\ UNCHANGED <<server, slots, deleteList, refs, stopThread, pc, posted, removeCount,
                   app, dtor, ghosts, edits, calls>>

\* Mutant: the removals wait for a poll that reports a change.
BeginClear_Skipped ==
    /\ pc = "process"
    /\ changed = {}
    /\ pc' = IF server = md5 THEN "loop" ELSE "clear"
    /\ removeCount' = 0
    /\ UNCHANGED <<server, slots, deleteList, refs, stopThread, posted, changed, app,
                   dtor, ghosts, bounds>>

BeginClear ==
    /\ pc = "process"
    /\ changed = {}
    /\ pc' = "clear"
    /\ removeCount' = 0
    /\ UNCHANGED <<server, slots, deleteList, refs, stopThread, posted, changed, app,
                   dtor, ghosts, bounds>>

\* Mutant: the ListeningData stays when its last listener has been removed.
ClearHead_KeepSlot ==
    LET k == Head(deleteList)[1]  l == Head(deleteList)[2]
    IN  /\ deleteList' = Tail(deleteList)
        /\ IF k \notin listeningKeys
           THEN UNCHANGED <<slots, refs>>
           ELSE /\ listenerList' = [listenerList EXCEPT ![k] = @ \ {l}]
                /\ UNCHANGED <<listeningKeys, md5>>
                /\ Release(l)

\* One round of clearDeleteList()'s loop: the item is dropped when its key has
\* gone; else the reference is given back whether or not the list still held
\* the listener.
ClearHead ==
    LET k == Head(deleteList)[1]  l == Head(deleteList)[2]
    IN  /\ deleteList' = Tail(deleteList)
        /\ IF k \notin listeningKeys
           THEN UNCHANGED <<slots, refs>>
           ELSE Unlist(k, l) /\ Release(l)

ClearItem ==
    /\ pc = "clear"
    /\ deleteList # <<>> /\ removeCount < ClearLimit
    /\ ClearHead
    /\ removeCount' = IF Head(deleteList)[1] \in listeningKeys THEN removeCount + 1
                                                               ELSE removeCount
    /\ UNCHANGED <<server, stopThread, pc, posted, changed, app, dtor, ghosts, bounds>>

\* Mutant: the removals beyond the limit are dropped.
EndClear_DropsRest ==
    /\ pc = "clear"
    /\ deleteList = <<>> \/ removeCount >= ClearLimit
    /\ pc' = "loop"
    /\ removeCount' = 0
    /\ deleteList' = <<>>
    /\ UNCHANGED <<server, slots, refs, stopThread, posted, changed, app, dtor, ghosts, bounds>>

EndClear ==
    /\ pc = "clear"
    /\ deleteList = <<>> \/ removeCount >= ClearLimit
    /\ pc' = "loop"
    /\ removeCount' = 0
    /\ UNCHANGED <<server, slots, deleteList, refs, stopThread, posted, changed, app,
                   dtor, ghosts, bounds>>

\* What the watcher does when no request fails.
Watch ==
    \/ ExitThread
    \/ Post
    \/ PollAnswer
    \/ LockWatchList
    \/ \E k \in Keys : SkipKey(k) \/ FetchAnswered(k)
    \/ BeginClear
    \/ ClearItem
    \/ EndClear

Fail ==
    \/ PollFails
    \/ \E k \in Keys : FetchRefused(k) \/ FetchThrows(k)

-----------------------------------------------------------------------------
(* The end: ~ClientWorker(), when no call of the application is left. *)

\* stopListening()
StopListening ==
    /\ dtor = "no"
    /\ \A a \in Apps : app[a] = Idle
    /\ dtor' = IF stopThread THEN "draining" ELSE "joining"
    /\ stopThread' = TRUE
    /\ UNCHANGED <<server, slots, deleteList, refs, watcher, app, ghosts, bounds>>

\* pthread_join() returns.
JoinWatcher ==
    /\ dtor = "joining"
    /\ pc = "exited"
    /\ dtor' = "draining"
    /\ UNCHANGED <<server, slots, deleteList, refs, stopThread, watcher, app, ghosts, bounds>>

\* cleanUp(): clearDeleteList(0) has no limit.
DrainItem ==
    /\ dtor = "draining"
    /\ deleteList # <<>>
    /\ ClearHead
    /\ UNCHANGED <<server, stopThread, watcher, app, dtor, ghosts, bounds>>

DrainDone ==
    /\ dtor = "draining"
    /\ deleteList = <<>>
    /\ dtor' = "cleaning"
    /\ UNCHANGED <<server, slots, deleteList, refs, stopThread, watcher, app, ghosts, bounds>>

\* clearListeners() of the ListeningData that are left.
ClearListener(k, l) ==
    /\ dtor = "cleaning"
    /\ l \in listenerList[k]
    /\ Unlist(k, l)
    /\ Release(l)
    /\ UNCHANGED <<server, deleteList, stopThread, watcher, app, dtor, ghosts, bounds>>

CleanDone ==
    /\ dtor = "cleaning"
    /\ listeningKeys = {}
    /\ dtor' = "done"
    /\ UNCHANGED <<server, slots, deleteList, refs, stopThread, watcher, app, ghosts, bounds>>

Destroy ==
    \/ JoinWatcher
    \/ DrainItem
    \/ DrainDone
    \/ \E k \in Keys, l \in Listeners : ClearListener(k, l)
    \/ CleanDone

-----------------------------------------------------------------------------

Next ==
    \/ \E k \in Keys, c \in Contents : Edit(k, c)
    \/ \E a \in Apps :
        \/ \E k \in Keys, l \in Listeners :
            \/ \E c \in Contents : BeginAdd(a, k, l, c)
            \/ RemoveListener(a, k, l)
            \/ RemoveListenerActively(a, k, l)
        \/ AddListener(a)
        \/ StartListening(a)
    \/ Watch
    \/ Fail
    \/ StopListening
    \/ Destroy

\* The watcher, a started destructor and the end of addListener() run on.  What
\* the application calls, what changes on the server and which requests fail
\* is up to the environment.
Fairness ==
    /\ WF_vars(Watch)
    /\ WF_vars(Destroy)
    /\ \A a \in Apps : WF_vars(StartListening(a))

Spec == Init /\ [][Next]_vars
FairSpec == Spec /\ Fairness

-----------------------------------------------------------------------------
(* Properties. *)

TypeOK ==
    /\ server \in [Keys -> Contents]
    /\ md5 \in [Keys -> Contents]
    /\ listenerList \in [Keys -> SUBSET Listeners]
    \* a ListeningData exists exactly while it has listeners
    /\ listeningKeys = {k \in Keys : listenerList[k] # {}}
    /\ deleteList \in Seq(Keys \X Listeners)
    /\ refCount \in [Listeners -> Int]
    /\ freed \in SUBSET Listeners
    /\ stopThread \in BOOLEAN
    /\ pc \in {"none", "loop", "polling", "answered", "process", "clear", "exited"}
    /\ changed \in SUBSET Keys
    /\ removeCount \in 0..ClearLimit
    /\ dtor \in {"no", "joining", "draining", "cleaning", "done"}

Pending(l) == \E i \in 1..Len(deleteList) : deleteList[i][2] = l
Listed(l) == \E k \in Keys : l \in listenerList[k]

\* A listener that is in a list, or waits in the delete list, is alive and
\* holds a reference: NACOS_ASSERT(curListener->refCnt() > 0) in performWatch()
\* never fails, and no listener is used after its deletion, in whatever order
\* one listener is added, added again and removed on several keys.
ListenerAlive ==
    \A l \in Listeners : Listed(l) \/ Pending(l) => refCount[l] > 0 /\ l \notin freed

\* What l knows of k: the content it was called with last, or, until its first
\* call, the content it was added with.  addListener() does not call it with that
\* one: the application is taken to have it from getConfig().
Known(k, l) == IF told[k][l] = Unknown THEN base[k][l] ELSE told[k][l]

\* The MD5 that the watcher posts for a key is the MD5 of what every listener
\* of the key was called with last, or, for one that has not been called yet, of
\* what it was added with: after its add no change is taken for known before
\* the listener has been called with it.  A content that the server gave before
\* the add is not reported, by the code as by the property.
PostedIsKnown ==
    \A k \in Keys : \A l \in listenerList[k] : Known(k, l) = md5[k]

\* Once the server's content stays, it is what every listener was called with
\* last ("after the server modified the configuration, the client will use the
\* incoming listener callback"), or was added with if it was never called,
\* provided the requests do not fail for ever.
Converges ==
    \A k \in Keys, l \in Listeners :
        <>[](l \in listenerList[k] => Known(k, l) = server[k])

\* The application has removed l from every key it had added it to.
GivenBack(l) == l \in used /\ ~InCall(l) /\ \A k \in Keys : owed[k][l] = 0

\* No listener leaks: one that the application has removed everywhere and that
\* is still there waits in the delete list, and the destructor leaves none,
\* unless it had been added to a key that listed it already (addListener,
\* removeListener, removeListenerActively, clearDeleteList, cleanUp).
NothingLeaks ==
    \A l \in used \ (freed \cup readded) :
        dtor # "done" /\ (GivenBack(l) => Pending(l))

\* The listener "will be deleted by the function removeListener" (README.md),
\* or by the destructor, which ends; unless it had been added to a key that
\* listed it already, which costs a reference that is never given back.
RemovedIsFreed ==
    \A l \in Listeners :
        GivenBack(l) \/ (dtor # "no" /\ l \in used) ~> l \in freed \cup readded

\* "After the server modified the configuration, the client will use the
\* incoming listener callback" (include/config/ConfigService.h): a listener whose
\* last call on a key was addListener() is listed for it, once the removals
\* asked for before have been worked off.
RegisteredIsListed ==
    \A k \in Keys, l \in Listeners :
        /\ <<k, l>> \in wanted
        /\ dtor = "no"
        /\ \A i \in 1..Len(deleteList) : deleteList[i] # <<k, l>>
        => l \in listenerList[k]

=============================================================================
