---------------------------- MODULE EventDispatcher ----------------------------
(***************************************************************************)
(* The naming service's EventDispatcher: which listeners observe which     *)
(* service, and the references that keep a listener alive.  A listener is  *)
(* referenced once by every list it is in and once by every notification   *)
(* that still has to call it; whoever gives back the last reference        *)
(* deletes it.                                                             *)
(*                                                                         *)
(* rwLock is held for the length of one action.  The asynchronous notify() *)
(* and its thread are not here: no code calls notify() or start().         *)
(***************************************************************************)
EXTENDS Integers, FiniteSets

CONSTANTS
    Keys,       \* grouped service name and clusters
    Listeners,  \* EventListener objects
    Notifiers   \* the threads that call notifyDirectly()

VARIABLES
    observerMap,  \* observerMap[k]: the listeners of k; {}: no entry
    refCount,     \* refCount[l]: references to l
    deleted,      \* the listeners that have been deleted
    calling       \* calling[t]: notifyDirectly()'s local list, what t has still to call

dispatcher == <<observerMap, refCount, deleted, calling>>

DispatcherTypeOK ==
    /\ observerMap \in [Keys -> SUBSET Listeners]
    /\ refCount \in [Listeners -> Nat]
    /\ deleted \in SUBSET Listeners
    /\ calling \in [Notifiers -> SUBSET Listeners]

DispatcherInit ==
    /\ observerMap = [k \in Keys |-> {}]
    /\ refCount = [l \in Listeners |-> 0]
    /\ deleted = {}
    /\ calling = [t \in Notifiers |-> {}]

\* Mutant: the reference is taken before the list is searched.
AddListener_RefFirst(k, l) ==
    /\ refCount' = [refCount EXCEPT ![l] = @ + 1]
    /\ observerMap' = [observerMap EXCEPT ![k] = @ \cup {l}]
    /\ UNCHANGED <<deleted, calling>>

\* addListener() returns true.
AddListener(k, l) ==
    /\ l \notin observerMap[k]
    /\ refCount' = [refCount EXCEPT ![l] = @ + 1]
    /\ observerMap' = [observerMap EXCEPT ![k] = @ \cup {l}]
    /\ UNCHANGED <<deleted, calling>>

\* decRef(), and delete for the last reference.
GiveBack(l) ==
    /\ refCount' = [refCount EXCEPT ![l] = @ - 1]
    /\ deleted' = IF refCount[l] = 1 THEN deleted \cup {l} ELSE deleted

\* removeListener() returns true.
RemoveListener(k, l) ==
    /\ l \in observerMap[k]
    /\ observerMap' = [observerMap EXCEPT ![k] = @ \ {l}]
    /\ GiveBack(l)
    /\ UNCHANGED calling

\* Mutant: the list is copied without taking references.
CopyListeners_NoRef(t, k) ==
    /\ calling' = [calling EXCEPT ![t] = observerMap[k]]
    /\ UNCHANGED <<observerMap, refCount, deleted>>

\* notifyDirectly() copies the list, under the read lock.
CopyListeners(t, k) ==
    /\ refCount' = [l \in Listeners |-> IF l \in observerMap[k] THEN refCount[l] + 1
                                                                ELSE refCount[l]]
    /\ calling' = [calling EXCEPT ![t] = observerMap[k]]
    /\ UNCHANGED <<observerMap, deleted>>

\* notifyDirectly() calls one listener of its copy, without the lock.
CallListener(t, l) ==
    /\ l \in calling[t]
    /\ calling' = [calling EXCEPT ![t] = @ \ {l}]
    /\ GiveBack(l)
    /\ UNCHANGED observerMap

\* How many lists and notifications hold l.
ListsOf(l) == Cardinality({k \in Keys : l \in observerMap[k]})
Holders(l) == ListsOf(l) + Cardinality({t \in Notifiers : l \in calling[t]})

\* purgeAllListeners() gives back the reference of every list.  Only the visit
\* that deletes a listener overwrites the entry with NULL.
Purged == {l \in Listeners : ListsOf(l) > 0 /\ refCount[l] = ListsOf(l)}
EntriesLeft == \E l \in Listeners : ListsOf(l) > (IF l \in Purged THEN 1 ELSE 0)

\* Mutant: the map is cleared, the references are kept.
Purge_OnlyClear ==
    /\ observerMap' = [k \in Keys |-> {}]
    /\ UNCHANGED <<refCount, deleted, calling>>

Purge ==
    /\ refCount' = [l \in Listeners |-> refCount[l] - ListsOf(l)]
    /\ deleted' = deleted \cup Purged
    /\ observerMap' = [k \in Keys |-> {}]
    /\ UNCHANGED calling
================================================================================
