--------------------------- MODULE ClientWorkerProofs ---------------------------
(***************************************************************************)
(* Proofs, for any keys, listeners and threads of the application, any     *)
(* contents, edits, calls and faults: the types, that what the watcher     *)
(* posts for a key is what its listeners were called with last, or added   *)
(* with, that no listener is used after its deletion, and that none leaks. *)
(***************************************************************************)
EXTENDS ClientWorker, FiniteSetTheorems, TLAPS

AddCall == [stage : {"add", "start"}, key : Keys, listener : Listeners, content : Contents]

\* The variables TypeOK does not speak of.
CallsOK ==
    /\ app \in [Apps -> AddCall \cup {Idle}]
    /\ DOMAIN posted \subseteq Keys
    /\ base \in [Keys -> [Listeners -> Contents \cup {Unknown}]]
    /\ told \in [Keys -> [Listeners -> Contents \cup {Unknown}]]

Inv == TypeOK /\ CallsOK /\ PostedIsKnown

LEMMA IdleFact == \A c \in AddCall \cup {Idle} : c.stage # "idle" => c \in AddCall
BY DEF AddCall, Idle

LEMMA InitInv == Init => Inv
BY ConstantsAssumption DEF Init, Inv, TypeOK, CallsOK, PostedIsKnown, Contents

\* Contents are numbers from 0 on; Unknown is not one of them.
LEMMA UnknownFact == Unknown \notin Contents
BY DEF Unknown, Contents

\* A listener leaves a list.
LEMMA UnlistInv ==
  ASSUME Inv, NEW k \in Keys, NEW l \in Listeners, Unlist(k, l), UNCHANGED <<base, told>>
  PROVE  /\ listenerList' \in [Keys -> SUBSET Listeners]
         /\ listeningKeys' = {j \in Keys : listenerList'[j] # {}}
         /\ md5' \in [Keys -> Contents]
         /\ PostedIsKnown'
<1>1. listenerList' = [listenerList EXCEPT ![k] = @ \ {l}] /\ UNCHANGED md5
  BY DEF Unlist
<1>2. \A j \in Keys : listenerList'[j] = IF j = k THEN listenerList[k] \ {l} ELSE listenerList[j]
  BY <1>1 DEF Inv, TypeOK
<1>3. listeningKeys' = {j \in Keys : listenerList'[j] # {}}
  BY <1>2 DEF Unlist, Inv, TypeOK
<1>4. PostedIsKnown'
  BY <1>1, <1>2 DEF Inv, PostedIsKnown, Known
<1> QED
  BY <1>1, <1>3, <1>4 DEF Inv, TypeOK

LEMMA ReleaseType ==
  ASSUME Inv, NEW l \in Listeners, Release(l) \/ UNCHANGED refs
  PROVE  refCount' \in [Listeners -> Int] /\ freed' \in SUBSET Listeners
BY DEF Release, refs, Inv, TypeOK

LEMMA ClearHeadInv ==
  ASSUME Inv, deleteList # <<>>, ClearHead, UNCHANGED <<base, told>>
  PROVE  /\ deleteList' \in Seq(Keys \X Listeners)
         /\ listenerList' \in [Keys -> SUBSET Listeners]
         /\ listeningKeys' = {j \in Keys : listenerList'[j] # {}}
         /\ md5' \in [Keys -> Contents]
         /\ refCount' \in [Listeners -> Int] /\ freed' \in SUBSET Listeners
         /\ PostedIsKnown'
<1> DEFINE k == Head(deleteList)[1]  l == Head(deleteList)[2]
<1>1. Head(deleteList) \in Keys \X Listeners /\ Tail(deleteList) \in Seq(Keys \X Listeners)
  BY DEF Inv, TypeOK
<1>2. k \in Keys /\ l \in Listeners
  BY <1>1
<1>3. CASE UNCHANGED <<slots, refs>>
  BY <1>1, <1>3 DEF ClearHead, slots, refs, Inv, TypeOK, PostedIsKnown, Known
<1>4. CASE Unlist(k, l) /\ Release(l)
  <2> HIDE DEF k, l
  <2>1. deleteList' = Tail(deleteList)
    BY DEF ClearHead
  <2> QED
    BY <1>1, <1>2, <1>4, <2>1, UnlistInv, ReleaseType
<1> QED
  BY <1>3, <1>4 DEF ClearHead

LEMMA AddListenerInv ==
  ASSUME Inv, NEW a \in Apps, AddListener(a)
  PROVE  Inv'
<1> DEFINE k == app[a].key  l == app[a].listener
           content == IF k \notin listeningKeys THEN app[a].content ELSE md5[k]
<1>1. app[a] \in AddCall
  BY IdleFact DEF AddListener, Inv, CallsOK
<1>2. k \in Keys /\ l \in Listeners /\ content \in Contents
  BY <1>1 DEF AddCall, Inv, TypeOK
<1>3. /\ listeningKeys' = listeningKeys \cup {k}
      /\ md5' = [md5 EXCEPT ![k] = content]
      /\ listenerList' = [listenerList EXCEPT ![k] = @ \cup {l}]
      /\ refCount' = [refCount EXCEPT ![l] = @ + 1]
      /\ app' = [app EXCEPT ![a].stage = "start"]
      /\ base' = IF l \in listenerList[k] THEN base ELSE [base EXCEPT ![k][l] = content]
      /\ told' = IF l \in listenerList[k] THEN told ELSE [told EXCEPT ![k][l] = Unknown]
      /\ UNCHANGED <<server, deleteList, freed, stopThread, pc, posted, changed, removeCount, dtor>>
  BY DEF AddListener, watcher
<1>4. \A j \in Keys : /\ md5'[j] = IF j = k THEN content ELSE md5[j]
                      /\ listenerList'[j] = IF j = k THEN listenerList[k] \cup {l} ELSE listenerList[j]
  BY <1>2, <1>3 DEF Inv, TypeOK
<1>5. /\ listenerList' \in [Keys -> SUBSET Listeners] /\ md5' \in [Keys -> Contents]
      /\ listeningKeys' = {j \in Keys : listenerList'[j] # {}}
  BY <1>2, <1>3, <1>4 DEF Inv, TypeOK
<1>6. refCount' \in [Listeners -> Int]
  BY <1>2, <1>3 DEF Inv, TypeOK
<1>7. TypeOK'
  BY <1>3, <1>5, <1>6 DEF Inv, TypeOK
<1>8. app' \in [Apps -> AddCall \cup {Idle}]
  <2>1. [app[a] EXCEPT !.stage = "start"] \in AddCall
    BY <1>1 DEF AddCall
  <2> QED
    BY <1>3, <2>1 DEF Inv, CallsOK
<1>9. /\ base' \in [Keys -> [Listeners -> Contents \cup {Unknown}]]
      /\ told' \in [Keys -> [Listeners -> Contents \cup {Unknown}]]
  BY <1>2, <1>3 DEF Inv, CallsOK
<1>10. CallsOK'
  BY <1>3, <1>8, <1>9 DEF Inv, CallsOK
\* The listeners k had know md5[k], and k keeps its MD5 if it had any.
<1>11. \A j \in listenerList[k] : content = md5[k]
  BY <1>2 DEF Inv, TypeOK
<1>12. \A j \in Keys, i \in Listeners :
          IF l \notin listenerList[k] /\ j = k /\ i = l
          THEN told'[j][i] = Unknown /\ base'[j][i] = content
          ELSE told'[j][i] = told[j][i] /\ base'[j][i] = base[j][i]
  BY <1>2, <1>3 DEF Inv, CallsOK
<1> HIDE DEF k, l, content
<1>13. PostedIsKnown'
  <2> SUFFICES ASSUME NEW j \in Keys, NEW i \in listenerList'[j]
               PROVE  IF told'[j][i] = Unknown THEN base'[j][i] = md5'[j]
                                               ELSE told'[j][i] = md5'[j]
    BY DEF PostedIsKnown, Known
  <2>1. i \in Listeners
    BY <1>5
  <2>2. CASE j # k
    BY <1>4, <1>12, <2>1, <2>2 DEF Inv, PostedIsKnown, Known
  <2>3. CASE j = k /\ i \in listenerList[k]
    BY <1>4, <1>11, <1>12, <2>1, <2>3 DEF Inv, PostedIsKnown, Known
  <2>4. CASE j = k /\ i = l /\ l \notin listenerList[k]
    BY <1>4, <1>12, <2>1, <2>4
  <2> QED
    BY <1>4, <2>2, <2>3, <2>4
<1> QED
  BY <1>7, <1>10, <1>13 DEF Inv

\* All listeners of the key are called.
LEMMA DeliverInv ==
  ASSUME Inv, NEW k \in Keys, NEW c \in Contents, Deliver(k, c)
  PROVE  Inv'
<1>1. /\ changed' = changed \ {k} /\ md5' = [md5 EXCEPT ![k] = c]
      /\ told' = [told EXCEPT ![k] = [l \in Listeners |-> IF l \in listenerList[k] THEN c ELSE told[k][l]]]
      /\ base' = [base EXCEPT ![k] = [l \in Listeners |-> IF l \in listenerList[k] THEN Unknown ELSE base[k][l]]]
      /\ UNCHANGED <<server, listeningKeys, listenerList, deleteList, refCount, freed, stopThread, pc,
                     posted, removeCount, app, dtor>>
  BY DEF Deliver, ForListeners, refs, Inv, CallsOK
<1>2. TypeOK'
  BY <1>1 DEF Inv, TypeOK
<1>3. /\ base' \in [Keys -> [Listeners -> Contents \cup {Unknown}]]
      /\ told' \in [Keys -> [Listeners -> Contents \cup {Unknown}]]
  BY <1>1 DEF Inv, CallsOK
<1>4. CallsOK'
  BY <1>1, <1>3 DEF Inv, CallsOK
<1>5. \A j \in Keys, l \in Listeners :
          told'[j][l] = IF j = k /\ l \in listenerList[k] THEN c ELSE told[j][l]
  BY <1>1 DEF Inv, CallsOK
<1>6. \A j \in Keys : md5'[j] = IF j = k THEN c ELSE md5[j]
  BY <1>1 DEF Inv, TypeOK
<1>7. PostedIsKnown'
  BY <1>1, <1>5, <1>6, UnknownFact DEF Inv, TypeOK, PostedIsKnown, Known
<1> QED
  BY <1>2, <1>4, <1>7 DEF Inv

\* The application.
LEMMA AppInv ==
  ASSUME Inv, NEW a \in Apps, NEW k \in Keys, NEW l \in Listeners,
         \/ \E c \in Contents : BeginAdd(a, k, l, c)
         \/ RemoveListener(a, k, l)
         \/ RemoveListenerActively(a, k, l)
         \/ StartListening(a)
  PROVE  Inv'
<1>1. ASSUME NEW c \in Contents, BeginAdd(a, k, l, c) PROVE Inv'
  <2>1. [stage |-> "add", key |-> k, listener |-> l, content |-> c] \in AddCall
    BY DEF AddCall
  <2>2. app' \in [Apps -> AddCall \cup {Idle}]
    BY <1>1, <2>1 DEF BeginAdd, Inv, CallsOK
  <2> QED
    BY <1>1, <2>2 DEF BeginAdd, Inv, TypeOK, CallsOK, PostedIsKnown, Known, slots, refs, watcher, ghosts
<1>2. CASE RemoveListener(a, k, l)
  <2>1. deleteList' \in Seq(Keys \X Listeners)
    BY <1>2 DEF RemoveListener, Inv, TypeOK
  <2> QED
    BY <1>2, <2>1 DEF RemoveListener, Inv, TypeOK, CallsOK, PostedIsKnown, Known, slots, refs, watcher
<1>3. CASE RemoveListenerActively(a, k, l)
  <2>1. UNCHANGED <<server, deleteList, stopThread, watcher, app, dtor, base, told>>
    BY <1>3 DEF RemoveListenerActively
  <2>2. refCount' \in [Listeners -> Int] /\ freed' \in SUBSET Listeners
    BY <1>3, ReleaseType DEF RemoveListenerActively
  <2>3. CASE UNCHANGED slots
    BY <2>1, <2>2, <2>3 DEF Inv, TypeOK, CallsOK, PostedIsKnown, Known, slots, watcher
  <2>4. CASE Unlist(k, l)
    BY <2>1, <2>2, <2>4, UnlistInv DEF Inv, TypeOK, CallsOK, watcher
  <2> QED
    BY <1>3, <2>3, <2>4 DEF RemoveListenerActively
<1>4. CASE StartListening(a)
  BY <1>4 DEF StartListening, Inv, TypeOK, CallsOK, PostedIsKnown, Known, slots, refs, ghosts
<1> QED
  BY <1>1, <1>2, <1>3, <1>4

\* The watcher, but for the calls of the listeners.
LEMMA WatchInv ==
  ASSUME Inv,
         \/ ExitThread \/ Post \/ PollAnswer \/ PollFails \/ LockWatchList
         \/ \E k \in Keys : SkipKey(k) \/ FetchThrows(k)
         \/ BeginClear \/ ClearItem \/ EndClear
  PROVE  Inv'
<1>1. CASE Post
  <2>1. DOMAIN posted' \subseteq Keys
    BY <1>1 DEF Post, Inv, TypeOK
  <2> QED
    BY <1>1, <2>1 DEF Post, Inv, TypeOK, CallsOK, PostedIsKnown, Known, slots, refs, ghosts
<1>2. CASE ExitThread \/ LockWatchList
  BY <1>2 DEF ExitThread, LockWatchList, Inv, TypeOK, CallsOK, PostedIsKnown, Known, slots, refs, ghosts
<1>3. CASE PollAnswer \/ PollFails
  <2>1. DOMAIN posted' \subseteq Keys /\ changed' \in SUBSET Keys
    BY <1>3 DEF PollAnswer, PollFails, Inv, TypeOK, CallsOK
  <2> QED
    BY <1>3, <2>1 DEF PollAnswer, PollFails, Inv, TypeOK, CallsOK, PostedIsKnown, Known, slots, refs, ghosts
<1>4. ASSUME NEW k \in Keys, SkipKey(k) \/ FetchThrows(k) PROVE Inv'
  BY <1>4 DEF SkipKey, FetchThrows, Inv, TypeOK, CallsOK, PostedIsKnown, Known, slots, refs, ghosts
<1>5. CASE BeginClear \/ EndClear
  BY <1>5, ConstantsAssumption
  DEF BeginClear, EndClear, Inv, TypeOK, CallsOK, PostedIsKnown, Known, slots, refs, ghosts
<1>6. CASE ClearItem
  <2>1. /\ deleteList # <<>> /\ ClearHead
        /\ UNCHANGED <<server, stopThread, pc, posted, changed, app, dtor, base, told>>
    BY <1>6 DEF ClearItem, ghosts
  <2>2. removeCount' \in 0..ClearLimit
    BY <1>6, ConstantsAssumption DEF ClearItem, Inv, TypeOK
  <2> QED
    BY <2>1, <2>2, ClearHeadInv DEF Inv, TypeOK, CallsOK
<1> QED
  BY <1>1, <1>2, <1>3, <1>4, <1>5, <1>6

\* The destructor, and the server.
LEMMA OtherInv ==
  ASSUME Inv,
         \/ \E k \in Keys, c \in Contents : Edit(k, c)
         \/ StopListening \/ Destroy
  PROVE  Inv'
<1>1. ASSUME NEW k \in Keys, NEW c \in Contents, Edit(k, c) PROVE Inv'
  BY <1>1 DEF Edit, Inv, TypeOK, CallsOK, PostedIsKnown, Known, slots, refs, watcher, ghosts
<1>2. CASE StopListening \/ JoinWatcher \/ DrainDone \/ CleanDone
  BY <1>2 DEF StopListening, JoinWatcher, DrainDone, CleanDone, Inv, TypeOK, CallsOK, PostedIsKnown, Known,
     slots, refs, watcher, ghosts
<1>3. CASE DrainItem
  <2>1. /\ deleteList # <<>> /\ ClearHead
        /\ UNCHANGED <<server, stopThread, watcher, app, dtor, base, told>>
    BY <1>3 DEF DrainItem, ghosts
  <2> QED
    BY <2>1, ClearHeadInv DEF Inv, TypeOK, CallsOK, watcher
<1>4. ASSUME NEW k \in Keys, NEW l \in Listeners, ClearListener(k, l) PROVE Inv'
  <2>1. /\ Unlist(k, l) /\ Release(l)
        /\ UNCHANGED <<server, deleteList, stopThread, watcher, app, dtor, base, told>>
    BY <1>4 DEF ClearListener, ghosts
  <2> QED
    BY <2>1, UnlistInv, ReleaseType DEF Inv, TypeOK, CallsOK, watcher
<1> QED
  BY <1>1, <1>2, <1>3, <1>4 DEF Destroy

LEMMA NextInv == Inv /\ [Next]_vars => Inv'
<1> SUFFICES ASSUME Inv, [Next]_vars PROVE Inv'
  OBVIOUS
<1>1. CASE UNCHANGED vars
  BY <1>1 DEF vars, slots, refs, watcher, ghosts, Inv, TypeOK, CallsOK, PostedIsKnown, Known
<1>2. ASSUME NEW k \in Keys, FetchAnswered(k) \/ FetchRefused(k) PROVE Inv'
  <2>1. server[k] \in Contents /\ 0 \in Contents
    BY ConstantsAssumption DEF Inv, TypeOK, Contents
  <2> QED
    BY <1>2, <2>1, DeliverInv DEF FetchAnswered, FetchRefused
<1>3. ASSUME NEW a \in Apps, StartListening(a) PROVE Inv'
  BY <1>3 DEF StartListening, Inv, TypeOK, CallsOK, PostedIsKnown, Known, slots, refs, ghosts
<1> QED
  BY <1>1, <1>2, <1>3, AppInv, AddListenerInv, WatchInv, OtherInv DEF Next, Watch, Fail

\* The inductive invariant of the lists and the MD5s.
THEOREM Invariant == Spec => []Inv
BY InitInv, NextInv, PTL DEF Spec

\* The types, for any constants: above all a key has a ListeningData exactly
\* while it has listeners (ClientWorker::addListener, clearDeleteList).
THEOREM TypeCorrect == Spec => []TypeOK
BY Invariant, PTL DEF Inv

\* The MD5 the watcher posts is that of the content every listener of the key
\* was called with last, or was added with if it has not been called, whatever
\* fails, and whatever adds and removals of a listener come in between
\* (ClientWorker::performWatch, addListener).
THEOREM PostedIsKnownHolds == Spec => []PostedIsKnown
BY Invariant, PTL DEF Inv

-----------------------------------------------------------------------------
(* References.  What the application has added and not removed, and the     *)
(* removals that wait, each hold one, up to the end, when the lists do.     *)

Ending == dtor \in {"cleaning", "done"}

Owes(l) == {p \in Keys \X Nat : p[2] \in 1..owed[p[1]][l]}
Pends(l) == {i \in 1..Len(deleteList) : deleteList[i][2] = l}
Lists(l) == {p \in Keys \X {1} : l \in listenerList[p[1]]}

Held(l) ==
    /\ IsFiniteSet(Owes(l)) /\ IsFiniteSet(Pends(l))
    /\ Cardinality(Owes(l)) + Cardinality(Pends(l)) <= refCount[l]

HeldAtEnd(l) ==
    /\ IsFiniteSet(Lists(l))
    /\ Cardinality(Lists(l)) <= refCount[l]

\* The application's side: one call on a listener at a time, none on a listener
\* that may have been deleted, and none once the destructor runs.
CallsInv ==
    /\ owed \in [Keys -> [Listeners -> Nat]]
    /\ \A a, b \in Apps : app[a] # Idle /\ app[b] # Idle /\ app[a].listener = app[b].listener => a = b
    /\ \A a \in Apps, l \in Listeners : app[a].stage = "add" /\ app[a].listener = l => Alive(l)
    /\ dtor # "no" => \A a \in Apps : app[a] = Idle

\* A listener that was never added, and one that has been deleted, has no references.
NoRefs(l) ==
    /\ l \notin used => refCount[l] = 0 /\ l \notin freed /\ \A k \in Keys : owed[k][l] = 0
    /\ l \in freed => refCount[l] = 0

\* Whoever is in a list owes it to an add or waits for its removal.
Accounted(l) ==
    \A k \in Keys :
        l \in listenerList[k] => owed[k][l] > 0 \/ \E i \in 1..Len(deleteList) : deleteList[i] = <<k, l>>

RefInv ==
    /\ CallsInv
    /\ \A l \in Listeners : NoRefs(l)
    /\ ~Ending => \A l \in Listeners : Held(l) /\ Accounted(l)
    /\ Ending => deleteList = <<>> /\ \A l \in Listeners : HeldAtEnd(l)

LEMMA OneMore ==
  ASSUME NEW S, IsFiniteSet(S), NEW x
  PROVE  /\ IsFiniteSet(S \cup {x}) /\ IsFiniteSet(S \ {x})
         /\ x \notin S => Cardinality(S \cup {x}) = Cardinality(S) + 1
         /\ x \in S => Cardinality(S \ {x}) = Cardinality(S) - 1
         /\ Cardinality(S) \in Nat
         /\ S # {} => Cardinality(S) > 0
<1>1. Cardinality(S) \in Nat /\ (Cardinality(S) = 0 <=> S = {})
  BY FS_CardinalityType, FS_EmptySet
<1>2. /\ IsFiniteSet(S \cup {x}) /\ IsFiniteSet(S \ {x})
      /\ Cardinality(S \cup {x}) = IF x \in S THEN Cardinality(S) ELSE Cardinality(S) + 1
      /\ Cardinality(S \ {x}) = IF x \in S THEN Cardinality(S) - 1 ELSE Cardinality(S)
  BY FS_AddElement, FS_RemoveElement
<1> QED
  BY <1>1, <1>2

\* An add, a removal, a removal that waits, and one that is worked off.
LEMMA OwesAdd ==
  ASSUME CallsInv, NEW k \in Keys, NEW l \in Listeners, owed' = [owed EXCEPT ![k][l] = @ + 1]
  PROVE  /\ Owes(l)' = Owes(l) \cup {<<k, owed[k][l] + 1>>}
         /\ <<k, owed[k][l] + 1>> \notin Owes(l)
         /\ \A m \in Listeners \ {l} : Owes(m)' = Owes(m)
<1>1. \A j \in Keys, m \in Listeners :
         /\ owed[j][m] \in Nat
         /\ owed'[j][m] = IF j = k /\ m = l THEN owed[k][l] + 1 ELSE owed[j][m]
  BY DEF CallsInv
<1> QED
  BY <1>1 DEF Owes

LEMMA OwesRemove ==
  ASSUME CallsInv, NEW k \in Keys, NEW l \in Listeners, owed[k][l] > 0,
         owed' = [owed EXCEPT ![k][l] = @ - 1]
  PROVE  /\ Owes(l)' = Owes(l) \ {<<k, owed[k][l]>>}
         /\ <<k, owed[k][l]>> \in Owes(l)
         /\ \A m \in Listeners \ {l} : Owes(m)' = Owes(m)
<1>1. \A j \in Keys, m \in Listeners :
         /\ owed[j][m] \in Nat
         /\ owed'[j][m] = IF j = k /\ m = l THEN owed[k][l] - 1 ELSE owed[j][m]
  BY DEF CallsInv
<1> QED
  BY <1>1 DEF Owes

LEMMA PendsAppend ==
  ASSUME TypeOK, NEW k \in Keys, NEW l \in Listeners, deleteList' = Append(deleteList, <<k, l>>)
  PROVE  /\ Pends(l)' = Pends(l) \cup {Len(deleteList) + 1}
         /\ Len(deleteList) + 1 \notin Pends(l)
         /\ \A m \in Listeners \ {l} : Pends(m)' = Pends(m)
         /\ \A i \in 1..Len(deleteList) : i \in 1..Len(deleteList') /\ deleteList'[i] = deleteList[i]
         /\ Len(deleteList) + 1 \in 1..Len(deleteList') /\ deleteList'[Len(deleteList) + 1] = <<k, l>>
<1>1. /\ Len(deleteList) \in Nat /\ Len(deleteList') = Len(deleteList) + 1
      /\ \A i \in 1..Len(deleteList) : deleteList'[i] = deleteList[i]
      /\ deleteList'[Len(deleteList) + 1] = <<k, l>>
  BY DEF TypeOK
<1> QED
  BY <1>1 DEF Pends

LEMMA PendsTail ==
  ASSUME TypeOK, deleteList # <<>>, deleteList' = Tail(deleteList),
         NEW m \in Listeners, IsFiniteSet(Pends(m))
  PROVE  /\ IsFiniteSet(Pends(m)')
         /\ Cardinality(Pends(m)') = Cardinality(Pends(m)) - (IF Head(deleteList)[2] = m THEN 1 ELSE 0)
         /\ \A i \in 1..Len(deleteList) :
                deleteList[i] # Head(deleteList) => \E j \in 1..Len(deleteList') : deleteList'[j] = deleteList[i]
<1>1. /\ Len(deleteList) \in Nat \ {0} /\ Len(deleteList') = Len(deleteList) - 1
      /\ \A i \in 1..Len(deleteList') : deleteList'[i] = deleteList[i + 1]
      /\ Head(deleteList) = deleteList[1]
  BY DEF TypeOK
<1> DEFINE S == Pends(m) \ {1}
           T == Pends(m)'
           f == [i \in S |-> i - 1]
<1>2. f \in Bijection(S, T)
  <2>1. \A i \in S : i - 1 \in T
    BY <1>1 DEF Pends
  <2>2. \A j \in T : j + 1 \in S
    BY <1>1 DEF Pends
  <2>3. \A i \in S : i \in Nat
    BY <1>1 DEF Pends
  <2>4. f \in [S -> T]
    BY <2>1
  <2>5. \A j \in T : j \in Nat
    BY <1>1 DEF Pends
  <2> HIDE DEF S, T
  <2>6. \A j \in T : \E i \in S : f[i] = j
    BY <2>2, <2>5
  <2>7. \A i, j \in S : f[i] = f[j] => i = j
    BY <2>3
  <2> HIDE DEF f
  <2> QED
    BY <2>4, <2>6, <2>7 DEF Bijection, Injection, Surjection, IsInjective
<1>3. IsFiniteSet(S) /\ Cardinality(S) = Cardinality(Pends(m)) - (IF 1 \in Pends(m) THEN 1 ELSE 0)
  <2>1. IsFiniteSet(S) /\ Cardinality(S) = IF 1 \in Pends(m) THEN Cardinality(Pends(m)) - 1 ELSE Cardinality(Pends(m))
    BY FS_RemoveElement
  <2>2. Cardinality(Pends(m)) \in Nat
    BY FS_CardinalityType
  <2> QED
    BY <2>1, <2>2
<1>4. 1 \in Pends(m) <=> Head(deleteList)[2] = m
  BY <1>1 DEF Pends
<1>5. IsFiniteSet(T) /\ Cardinality(T) = Cardinality(S)
  <2> HIDE DEF S, T, f
  <2>1. ExistsBijection(S, T)
    BY <1>2 DEF ExistsBijection
  <2> QED
    BY <1>3, <2>1, FS_Bijection
<1>6. \A i \in 1..Len(deleteList) :
          deleteList[i] # Head(deleteList) => \E j \in 1..Len(deleteList') : deleteList'[j] = deleteList[i]
  <2> SUFFICES ASSUME NEW i \in 1..Len(deleteList), deleteList[i] # Head(deleteList)
               PROVE  i - 1 \in 1..Len(deleteList') /\ deleteList'[i - 1] = deleteList[i]
    OBVIOUS
  <2> QED
    BY <1>1
<1> QED
  BY <1>3, <1>4, <1>5, <1>6

LEMMA InitRefs == Init => RefInv
<1> SUFFICES ASSUME Init PROVE RefInv
  OBVIOUS
<1>1. \A l \in Listeners : Owes(l) = {} /\ Pends(l) = {}
  BY DEF Init, Owes, Pends
<1>2. \A l \in Listeners : Held(l)
  <2> SUFFICES ASSUME NEW l \in Listeners PROVE Held(l)
    OBVIOUS
  <2>1. /\ IsFiniteSet(Owes(l)) /\ Cardinality(Owes(l)) = 0
        /\ IsFiniteSet(Pends(l)) /\ Cardinality(Pends(l)) = 0
    BY <1>1, FS_EmptySet, Zenon
  <2>2. refCount[l] = 0
    BY DEF Init
  <2> QED
    BY <2>1, <2>2 DEF Held
<1>3. ~Ending /\ CallsInv
  BY DEF Init, Ending, CallsInv, Idle, Alive
<1> QED
  BY <1>2, <1>3 DEF Init, RefInv, NoRefs, Accounted

\* What waits for its removal, or has been added and not removed, has a reference.
LEMMA HeldCounts ==
  ASSUME TypeOK, CallsInv, NEW l \in Listeners, Held(l), NoRefs(l)
  PROVE  /\ (\E k \in Keys : owed[k][l] > 0) => refCount[l] > 0 /\ l \notin freed /\ l \in used
         /\ Pending(l) => refCount[l] > 0 /\ l \notin freed /\ l \in used
<1>1. Cardinality(Owes(l)) \in Nat /\ Cardinality(Pends(l)) \in Nat
  BY FS_CardinalityType DEF Held
<1>2. ASSUME NEW k \in Keys, owed[k][l] > 0 PROVE Owes(l) # {}
  <2>1. owed[k][l] \in Nat
    BY DEF CallsInv
  <2>2. <<k, 1>> \in Owes(l)
    BY <1>2, <2>1 DEF Owes
  <2> QED
    BY <2>2
<1>3. Pending(l) => Pends(l) # {}
  BY DEF Pending, Pends
<1>4. /\ Owes(l) # {} => Cardinality(Owes(l)) > 0
      /\ Pends(l) # {} => Cardinality(Pends(l)) > 0
  BY OneMore DEF Held
<1>5. refCount[l] \in Int
  BY DEF TypeOK
<1>6. Owes(l) # {} \/ Pends(l) # {} => refCount[l] > 0
  BY <1>1, <1>4, <1>5 DEF Held
<1> QED
  BY <1>2, <1>3, <1>6 DEF NoRefs

\* A step that touches neither references nor lists nor what is owed.
LEMMA RefsUnchanged ==
  ASSUME RefInv, UNCHANGED <<listenerList, deleteList, refCount, freed, owed, used>>, CallsInv', Ending' <=> Ending
  PROVE  RefInv'
<1>1. \A l \in Listeners : Owes(l)' = Owes(l) /\ Pends(l)' = Pends(l) /\ Lists(l)' = Lists(l)
  BY DEF Owes, Pends, Lists
<1> QED
  BY <1>1 DEF RefInv, NoRefs, Held, HeldAtEnd, Accounted

LEMMA CallsUnchanged ==
  ASSUME RefInv, UNCHANGED <<app, owed, used>>, (dtor' # "no" => dtor # "no" \/ \A a \in Apps : app[a] = Idle)
  PROVE  CallsInv'
BY DEF RefInv, CallsInv, Alive

\* A removal from the delete list, by the watcher or at the end.
LEMMA ClearHeadRefs ==
  ASSUME Inv, RefInv, deleteList # <<>>, ClearHead, UNCHANGED <<app, dtor, owed, used>>
  PROVE  RefInv'
<1>1. CallsInv' /\ TypeOK /\ CallsInv /\ UNCHANGED Ending
  BY CallsUnchanged DEF RefInv, Inv, Ending
<1>2. ~Ending
  BY DEF RefInv
<1>3. PICK k \in Keys, l \in Listeners : Head(deleteList) = <<k, l>>
  BY DEF Inv, TypeOK
<1>4. deleteList' = Tail(deleteList) /\ \E i \in 1..Len(deleteList) : deleteList[i][2] = l
  <2>1. 1 \in 1..Len(deleteList) /\ deleteList[1] = <<k, l>>
    BY <1>1, <1>3 DEF TypeOK
  <2> QED
    BY <2>1 DEF ClearHead
<1>5. \A m \in Listeners :
         /\ Owes(m)' = Owes(m) /\ IsFiniteSet(Owes(m)) /\ Cardinality(Owes(m)) \in Nat
         /\ IsFiniteSet(Pends(m)') /\ Cardinality(Pends(m)) \in Nat
         /\ Cardinality(Pends(m)') = Cardinality(Pends(m)) - (IF l = m THEN 1 ELSE 0)
         /\ Cardinality(Owes(m)) + Cardinality(Pends(m)) <= refCount[m] /\ refCount[m] \in Int
  <2> SUFFICES ASSUME NEW m \in Listeners
               PROVE  /\ Owes(m)' = Owes(m) /\ IsFiniteSet(Owes(m)) /\ Cardinality(Owes(m)) \in Nat
                      /\ IsFiniteSet(Pends(m)') /\ Cardinality(Pends(m)) \in Nat
                      /\ Cardinality(Pends(m)') = Cardinality(Pends(m)) - (IF l = m THEN 1 ELSE 0)
                      /\ Cardinality(Owes(m)) + Cardinality(Pends(m)) <= refCount[m] /\ refCount[m] \in Int
    OBVIOUS
  <2>1. Held(m) /\ refCount[m] \in Int
    BY <1>1, <1>2 DEF RefInv, TypeOK
  <2>2. Owes(m)' = Owes(m)
    BY DEF Owes
  <2>3. Cardinality(Owes(m)) \in Nat /\ Cardinality(Pends(m)) \in Nat
    BY <2>1, FS_CardinalityType DEF Held
  <2> QED
    BY <1>1, <1>3, <1>4, <2>1, <2>2, <2>3, PendsTail DEF Held
<1>6. \A m \in Listeners : Accounted(m)
  BY <1>2 DEF RefInv
<1>7. \A i \in 1..Len(deleteList) :
          deleteList[i] # <<k, l>> => \E j \in 1..Len(deleteList') : deleteList'[j] = deleteList[i]
  BY <1>1, <1>2, <1>3, <1>4, PendsTail DEF RefInv, Held
<1>8. refCount[l] > 0 /\ l \notin freed /\ l \in used
  BY <1>1, <1>2, <1>4, HeldCounts DEF RefInv, Pending
<1>9. CASE k \notin listeningKeys
  <2>1. UNCHANGED <<listenerList, refCount, freed>> /\ listenerList[k] = {}
    BY <1>1, <1>3, <1>9 DEF ClearHead, slots, refs, TypeOK
  <2>2. \A m \in Listeners : Held(m)'
    BY <1>5, <2>1 DEF Held
  <2>3. \A m \in Listeners : Accounted(m)'
    <3> SUFFICES ASSUME NEW m \in Listeners, NEW j \in Keys, m \in listenerList[j], ~(owed[j][m] > 0)
                 PROVE  \E i \in 1..Len(deleteList') : deleteList'[i] = <<j, m>>
      BY <2>1 DEF Accounted
    <3>1. <<j, m>> # <<k, l>>
      BY <2>1
    <3>2. \E i \in 1..Len(deleteList) : deleteList[i] = <<j, m>>
      BY <1>6 DEF Accounted
    <3> QED
      BY <1>7, <3>1, <3>2
  <2> QED
    BY <1>1, <1>2, <2>1, <2>2, <2>3 DEF RefInv, NoRefs
<1>10. CASE k \in listeningKeys
  <2>1. Unlist(k, l) /\ Release(l)
    BY <1>3, <1>10 DEF ClearHead
  <2>2. \A j \in Keys : listenerList'[j] = IF j = k THEN listenerList[k] \ {l} ELSE listenerList[j]
    BY <1>1, <2>1 DEF Unlist, TypeOK
  <2>3. \A m \in Listeners : /\ refCount'[m] = refCount[m] - (IF m = l THEN 1 ELSE 0)
                             /\ m \in freed' <=> m \in freed \/ (m = l /\ refCount[l] = 1)
    BY <1>1, <2>1 DEF Release, TypeOK
  <2>4. \A m \in Listeners : Held(m)'
    BY <1>5, <2>3 DEF Held
  <2>5. \A m \in Listeners : NoRefs(m)'
    BY <1>5, <1>8, <2>3 DEF RefInv, NoRefs
  <2>6. \A m \in Listeners : Accounted(m)'
    <3> SUFFICES ASSUME NEW m \in Listeners, NEW j \in Keys, m \in listenerList'[j], ~(owed[j][m] > 0)
                 PROVE  \E i \in 1..Len(deleteList') : deleteList'[i] = <<j, m>>
      BY DEF Accounted
    <3>1. m \in listenerList[j] /\ <<j, m>> # <<k, l>>
      BY <2>2
    <3>2. \E i \in 1..Len(deleteList) : deleteList[i] = <<j, m>>
      BY <1>6, <3>1 DEF Accounted
    <3> QED
      BY <1>7, <3>1, <3>2
  <2> QED
    BY <1>1, <1>2, <2>4, <2>5, <2>6 DEF RefInv
<1> QED
  BY <1>9, <1>10

\* addListener(): one more is owed, and one more reference is held.
LEMMA AddListenerRefs ==
  ASSUME Inv, RefInv, NEW a \in Apps, AddListener(a)
  PROVE  RefInv'
<1>1. app[a] \in AddCall /\ app[a] # Idle /\ app[a].stage = "add"
  BY IdleFact DEF AddListener, Inv, CallsOK, Idle
<1> PICK k \in Keys, l \in Listeners : app[a].key = k /\ app[a].listener = l
  BY <1>1 DEF AddCall
<1>2. TypeOK /\ CallsInv /\ CallsOK
  BY DEF Inv, RefInv
<1>3. /\ listenerList' = [listenerList EXCEPT ![k] = @ \cup {l}]
      /\ refCount' = [refCount EXCEPT ![l] = @ + 1]
      /\ app' = [app EXCEPT ![a].stage = "start"]
      /\ owed' = [owed EXCEPT ![k][l] = @ + 1]
      /\ used' = used \cup {l}
      /\ UNCHANGED <<deleteList, freed, dtor>>
  BY DEF AddListener
<1>4. dtor = "no" /\ ~Ending /\ ~Ending'
  BY <1>1, <1>2, <1>3 DEF CallsInv, Ending
<1>5. \A j \in Keys, m \in Listeners :
         /\ owed[j][m] \in Nat
         /\ owed'[j][m] = IF j = k /\ m = l THEN owed[k][l] + 1 ELSE owed[j][m]
  BY <1>2, <1>3 DEF CallsInv
<1>6. CallsInv'
  <2>1. owed' \in [Keys -> [Listeners -> Nat]]
    BY <1>2, <1>3 DEF CallsInv
  <2>2. \A b \in Apps : /\ app'[b] # Idle => app[b] # Idle /\ app'[b].listener = app[b].listener
                        /\ app'[b].stage = "add" => b # a /\ app'[b] = app[b]
    <3>1. app'[a] = [app[a] EXCEPT !.stage = "start"] /\ \A b \in Apps : b # a => app'[b] = app[b]
      BY <1>2, <1>3 DEF CallsOK
    <3>2. app'[a].stage = "start" /\ app'[a].listener = app[a].listener
      BY <1>1, <3>1 DEF AddCall
    <3> QED
      BY <1>1, <3>1, <3>2
  <2>3. \A b \in Apps, m \in Listeners : app'[b].stage = "add" /\ app'[b].listener = m => Alive(m)'
    <3> SUFFICES ASSUME NEW b \in Apps, NEW m \in Listeners, app'[b].stage = "add", app'[b].listener = m
                 PROVE  Alive(m)'
      OBVIOUS
    <3>1. b # a /\ app'[b] = app[b] /\ app[b].stage = "add" /\ app[b] # Idle
      BY <2>2 DEF Idle
    <3>2. m # l
      BY <1>1, <1>2, <3>1 DEF CallsInv
    <3>3. Alive(m)
      BY <1>2, <3>1 DEF CallsInv
    <3> QED
      BY <1>3, <1>5, <3>2, <3>3 DEF Alive
  <2>4. dtor' = "no"
    BY <1>3, <1>4
  <2> QED
    BY <1>2, <2>1, <2>2, <2>3, <2>4 DEF CallsInv
<1>7. \A m \in Listeners : Pends(m)' = Pends(m) /\ refCount[m] \in Int
                           /\ refCount'[m] = refCount[m] + (IF m = l THEN 1 ELSE 0)
  BY <1>2, <1>3 DEF Pends, TypeOK
<1>8. \A m \in Listeners : Held(m)'
  <2> SUFFICES ASSUME NEW m \in Listeners PROVE Held(m)'
    OBVIOUS
  <2>1. Held(m)
    BY <1>4 DEF RefInv
  <2>2. Cardinality(Owes(m)) \in Nat /\ Cardinality(Pends(m)) \in Nat
    BY <2>1, FS_CardinalityType DEF Held
  <2>3. IsFiniteSet(Owes(m)') /\ Cardinality(Owes(m)') = Cardinality(Owes(m)) + (IF m = l THEN 1 ELSE 0)
    <3>1. CASE m = l
      <4>1. Owes(l)' = Owes(l) \cup {<<k, owed[k][l] + 1>>} /\ <<k, owed[k][l] + 1>> \notin Owes(l)
        BY <1>2, <1>3, OwesAdd
      <4>2. IsFiniteSet(Owes(l))
        BY <2>1, <3>1 DEF Held
      <4> QED
        BY <3>1, <4>1, <4>2, OneMore
    <3>2. CASE m # l
      <4>1. Owes(m)' = Owes(m)
        BY <1>2, <1>3, <3>2, OwesAdd
      <4> QED
        BY <2>1, <2>2, <3>2, <4>1 DEF Held
    <3> QED
      BY <3>1, <3>2
  <2> QED
    BY <1>7, <2>1, <2>2, <2>3 DEF Held
<1>9. l \notin freed
  <2>1. Alive(l)
    BY <1>1, <1>2 DEF CallsInv
  <2>2. Held(l) /\ NoRefs(l)
    BY <1>4 DEF RefInv
  <2> QED
    BY <1>2, <2>1, <2>2, HeldCounts DEF Alive, NoRefs
<1>10. \A m \in Listeners : NoRefs(m)'
  <2> SUFFICES ASSUME NEW m \in Listeners PROVE NoRefs(m)'
    OBVIOUS
  <2>1. NoRefs(m)
    BY DEF RefInv
  <2>2. CASE m = l
    BY <1>3, <1>9, <2>2 DEF NoRefs
  <2>3. CASE m # l
    BY <1>3, <1>5, <1>7, <2>1, <2>3 DEF NoRefs
  <2> QED
    BY <2>2, <2>3
<1>11. \A m \in Listeners : Accounted(m)'
  <2> SUFFICES ASSUME NEW m \in Listeners, NEW j \in Keys, m \in listenerList'[j]
               PROVE  owed'[j][m] > 0 \/ \E i \in 1..Len(deleteList) : deleteList[i] = <<j, m>>
    BY <1>3 DEF Accounted
  <2>1. CASE j = k /\ m = l
    BY <1>5, <2>1
  <2>2. CASE ~(j = k /\ m = l)
    <3>1. m \in listenerList[j]
      BY <1>2, <1>3, <2>2 DEF TypeOK
    <3>2. Accounted(m)
      BY <1>4 DEF RefInv
    <3> QED
      BY <1>5, <2>2, <3>1, <3>2 DEF Accounted
  <2> QED
    BY <2>1, <2>2
<1> QED
  BY <1>4, <1>6, <1>8, <1>10, <1>11 DEF RefInv

\* A call that gives back what the application added: no other call on the
\* listener is under way, so that the listeners of all calls stay alive.
LEMMA RemoveCalls ==
  ASSUME Inv, RefInv, NEW a \in Apps, NEW k \in Keys, NEW l \in Listeners, CanCall(a, l), owed[k][l] > 0,
         owed' = [owed EXCEPT ![k][l] = @ - 1], UNCHANGED <<app, dtor, used>>
  PROVE  CallsInv'
<1>1. CallsInv /\ CallsOK
  BY DEF Inv, RefInv
<1>2. \A j \in Keys, m \in Listeners :
         /\ owed[j][m] \in Nat
         /\ owed'[j][m] = IF j = k /\ m = l THEN owed[k][l] - 1 ELSE owed[j][m]
  BY <1>1 DEF CallsInv
<1>3. owed' \in [Keys -> [Listeners -> Nat]]
  BY <1>1, <1>2 DEF CallsInv
<1>4. ASSUME NEW b \in Apps, NEW m \in Listeners, app[b].stage = "add", app[b].listener = m PROVE Alive(m)'
  <2>1. app[b] # Idle
    BY <1>4 DEF Idle
  <2>2. m # l /\ Alive(m)
    BY <1>1, <1>4, <2>1 DEF CanCall, InCall, CallsInv
  <2> QED
    BY <1>2, <2>2 DEF Alive
<1> QED
  BY <1>1, <1>3, <1>4 DEF CallsInv

LEMMA RemoveListenerRefs ==
  ASSUME Inv, RefInv, NEW a \in Apps, NEW k \in Keys, NEW l \in Listeners, RemoveListener(a, k, l)
  PROVE  RefInv'
<1>1. /\ CanCall(a, l) /\ owed[k][l] > 0
      /\ deleteList' = Append(deleteList, <<k, l>>)
      /\ owed' = [owed EXCEPT ![k][l] = @ - 1]
      /\ UNCHANGED <<listenerList, refCount, freed, app, dtor, used>>
  BY DEF RemoveListener, slots, refs
<1>2. CallsInv' /\ CallsInv /\ TypeOK /\ ~Ending /\ ~Ending'
  BY <1>1, RemoveCalls DEF CanCall, RefInv, Inv, Ending
<1>3. \A j \in Keys, m \in Listeners :
         /\ owed[j][m] \in Nat
         /\ owed'[j][m] = IF j = k /\ m = l THEN owed[k][l] - 1 ELSE owed[j][m]
  BY <1>1, <1>2 DEF CallsInv
<1>4. \A m \in Listeners : Held(m)'
  <2> SUFFICES ASSUME NEW m \in Listeners PROVE Held(m)'
    OBVIOUS
  <2>1. Held(m)
    BY <1>2 DEF RefInv
  <2>2. Cardinality(Owes(m)) \in Nat /\ Cardinality(Pends(m)) \in Nat /\ refCount[m] \in Int
    BY <1>2, <2>1, FS_CardinalityType DEF Held, TypeOK
  <2>3. CASE m = l
    <3>1. IsFiniteSet(Owes(l)') /\ Cardinality(Owes(l)') = Cardinality(Owes(l)) - 1
      <4>1. Owes(l)' = Owes(l) \ {<<k, owed[k][l]>>} /\ <<k, owed[k][l]>> \in Owes(l)
        BY <1>1, <1>2, OwesRemove
      <4>2. IsFiniteSet(Owes(l))
        BY <2>1, <2>3 DEF Held
      <4> QED
        BY <4>1, <4>2, OneMore
    <3>2. IsFiniteSet(Pends(l)') /\ Cardinality(Pends(l)') = Cardinality(Pends(l)) + 1
      BY <1>1, <1>2, <2>1, <2>3, PendsAppend, OneMore DEF Held
    <3> QED
      BY <1>1, <2>1, <2>2, <2>3, <3>1, <3>2 DEF Held
  <2>4. CASE m # l
    <3>1. Owes(m)' = Owes(m) /\ Pends(m)' = Pends(m)
      BY <1>1, <1>2, <2>4, OwesRemove, PendsAppend
    <3> QED
      BY <1>1, <2>1, <3>1 DEF Held
  <2> QED
    BY <2>3, <2>4
<1>5. \A m \in Listeners : NoRefs(m)'
  BY <1>1, <1>3 DEF RefInv, NoRefs
<1>6. \A m \in Listeners : Accounted(m)'
  <2> SUFFICES ASSUME NEW m \in Listeners, NEW j \in Keys, m \in listenerList[j]
               PROVE  owed'[j][m] > 0 \/ \E i \in 1..Len(deleteList') : deleteList'[i] = <<j, m>>
    BY <1>1 DEF Accounted
  <2>1. Accounted(m)
    BY <1>2 DEF RefInv
  <2>2. /\ \A i \in 1..Len(deleteList) : i \in 1..Len(deleteList') /\ deleteList'[i] = deleteList[i]
        /\ Len(deleteList) + 1 \in 1..Len(deleteList') /\ deleteList'[Len(deleteList) + 1] = <<k, l>>
    BY <1>1, <1>2, PendsAppend
  <2>3. CASE j = k /\ m = l
    BY <2>2, <2>3
  <2>4. CASE ~(j = k /\ m = l)
    BY <1>3, <2>1, <2>2, <2>4 DEF Accounted
  <2> QED
    BY <2>3, <2>4
<1> QED
  BY <1>2, <1>4, <1>5, <1>6 DEF RefInv

LEMMA RemoveActivelyRefs ==
  ASSUME Inv, RefInv, NEW a \in Apps, NEW k \in Keys, NEW l \in Listeners, RemoveListenerActively(a, k, l)
  PROVE  RefInv'
<1>1. /\ CanCall(a, l) /\ owed[k][l] > 0
      /\ owed' = [owed EXCEPT ![k][l] = @ - 1]
      /\ UNCHANGED <<deleteList, app, dtor, used>>
  BY DEF RemoveListenerActively
<1>2. CallsInv' /\ CallsInv /\ TypeOK /\ ~Ending /\ ~Ending'
  BY <1>1, RemoveCalls DEF CanCall, RefInv, Inv, Ending
<1>3. \A j \in Keys, m \in Listeners :
         /\ owed[j][m] \in Nat
         /\ owed'[j][m] = IF j = k /\ m = l THEN owed[k][l] - 1 ELSE owed[j][m]
  BY <1>1, <1>2 DEF CallsInv
<1>4. \A j \in Keys, m \in Listeners : m \in listenerList'[j] => m \in listenerList[j] /\ ~(j = k /\ m = l)
  <2>1. CASE k \notin listeningKeys
    BY <1>2, <2>1 DEF RemoveListenerActively, slots, TypeOK
  <2>2. CASE k \in listeningKeys
    BY <1>2, <2>2 DEF RemoveListenerActively, Unlist, TypeOK
  <2> QED
    BY <2>1, <2>2
<1>5. Held(l) /\ NoRefs(l) /\ refCount[l] > 0 /\ l \notin freed /\ l \in used
  <2>1. Held(l) /\ NoRefs(l)
    BY <1>2 DEF RefInv
  <2> QED
    BY <1>1, <1>2, <2>1, HeldCounts
<1>6. /\ \A m \in Listeners : refCount[m] \in Int
      /\ \A m \in Listeners \ {l} : refCount'[m] = refCount[m] /\ (m \in freed' <=> m \in freed)
      /\ refCount'[l] \in {refCount[l], refCount[l] - 1}
      /\ l \in freed' => refCount'[l] = 0
  BY <1>2, <1>5 DEF RemoveListenerActively, Release, refs, TypeOK
<1>7. \A m \in Listeners : Held(m)'
  <2> SUFFICES ASSUME NEW m \in Listeners PROVE Held(m)'
    OBVIOUS
  <2>1. Held(m) /\ Pends(m)' = Pends(m)
    BY <1>1, <1>2 DEF RefInv, Pends
  <2>2. Cardinality(Owes(m)) \in Nat /\ Cardinality(Pends(m)) \in Nat
    BY <2>1, FS_CardinalityType DEF Held
  <2>3. CASE m = l
    <3>1. IsFiniteSet(Owes(l)') /\ Cardinality(Owes(l)') = Cardinality(Owes(l)) - 1
      <4>1. Owes(l)' = Owes(l) \ {<<k, owed[k][l]>>} /\ <<k, owed[k][l]>> \in Owes(l)
        BY <1>1, <1>2, OwesRemove
      <4>2. IsFiniteSet(Owes(l))
        BY <2>1, <2>3 DEF Held
      <4> QED
        BY <4>1, <4>2, OneMore
    <3> QED
      BY <1>6, <2>1, <2>2, <2>3, <3>1 DEF Held
  <2>4. CASE m # l
    <3>1. Owes(m)' = Owes(m)
      BY <1>1, <1>2, <2>4, OwesRemove
    <3> QED
      BY <1>6, <2>1, <2>4, <3>1 DEF Held
  <2> QED
    BY <2>3, <2>4
<1>8. \A m \in Listeners : NoRefs(m)'
  <2> SUFFICES ASSUME NEW m \in Listeners PROVE NoRefs(m)'
    OBVIOUS
  <2>1. NoRefs(m)
    BY DEF RefInv
  <2> QED
    BY <1>1, <1>3, <1>5, <1>6, <2>1 DEF NoRefs
<1>9. \A m \in Listeners : Accounted(m)'
  <2>1. \A m \in Listeners : Accounted(m)
    BY <1>2 DEF RefInv
  <2> SUFFICES ASSUME NEW m \in Listeners, NEW j \in Keys, m \in listenerList'[j]
               PROVE  owed'[j][m] > 0 \/ \E i \in 1..Len(deleteList) : deleteList[i] = <<j, m>>
    BY <1>1 DEF Accounted
  <2>2. m \in listenerList[j] /\ owed'[j][m] = owed[j][m]
    BY <1>3, <1>4
  <2> QED
    BY <2>1, <2>2 DEF Accounted
<1> QED
  BY <1>2, <1>7, <1>8, <1>9 DEF RefInv

\* The delete list is empty: what is listed is owed, so that the references
\* of the lists are among those of the adds.
LEMMA DrainDoneRefs ==
  ASSUME Inv, RefInv, DrainDone
  PROVE  RefInv'
<1>1. /\ deleteList = <<>> /\ ~Ending /\ Ending'
      /\ UNCHANGED <<listenerList, deleteList, refCount, freed, app, owed, used>>
  BY DEF DrainDone, Ending, slots, refs, ghosts
<1>2. CallsInv'
  BY CallsUnchanged DEF DrainDone, ghosts
<1>3. \A l \in Listeners : NoRefs(l)'
  BY <1>1 DEF RefInv, NoRefs
<1>4. \A l \in Listeners : HeldAtEnd(l)'
  <2> SUFFICES ASSUME NEW l \in Listeners PROVE HeldAtEnd(l)'
    OBVIOUS
  <2>1. Held(l) /\ Accounted(l) /\ refCount[l] \in Int
    BY <1>1 DEF RefInv, Inv, TypeOK
  <2>2. Lists(l) \subseteq Owes(l)
    <3> SUFFICES ASSUME NEW k \in Keys, l \in listenerList[k] PROVE <<k, 1>> \in Owes(l)
      BY DEF Lists
    <3>1. owed[k][l] > 0 /\ owed[k][l] \in Nat
      BY <1>1, <2>1 DEF Accounted, RefInv, CallsInv
    <3> QED
      BY <3>1 DEF Owes
  <2>3. IsFiniteSet(Lists(l)) /\ Cardinality(Lists(l)) <= Cardinality(Owes(l))
    BY <2>1, <2>2, FS_Subset DEF Held
  <2>4. Cardinality(Lists(l)) \in Nat /\ Cardinality(Owes(l)) \in Nat /\ Cardinality(Pends(l)) \in Nat
    BY <2>1, <2>3, FS_CardinalityType DEF Held
  <2>5. Lists(l)' = Lists(l)
    BY <1>1 DEF Lists
  <2> QED
    BY <1>1, <2>1, <2>3, <2>4, <2>5 DEF Held, HeldAtEnd
<1> QED
  BY <1>1, <1>2, <1>3, <1>4 DEF RefInv

LEMMA ClearListenerRefs ==
  ASSUME Inv, RefInv, NEW k \in Keys, NEW l \in Listeners, ClearListener(k, l)
  PROVE  RefInv'
<1>1. /\ Ending /\ Ending' /\ l \in listenerList[k] /\ Unlist(k, l) /\ Release(l)
      /\ UNCHANGED <<deleteList, app, dtor, owed, used>>
  BY DEF ClearListener, Ending, ghosts
<1>2. CallsInv'
  BY <1>1, CallsUnchanged
<1>3. \A j \in Keys : listenerList'[j] = IF j = k THEN listenerList[k] \ {l} ELSE listenerList[j]
  BY <1>1 DEF Unlist, Inv, TypeOK
<1>4. /\ Lists(l)' = Lists(l) \ {<<k, 1>>} /\ <<k, 1>> \in Lists(l)
      /\ \A m \in Listeners \ {l} : Lists(m)' = Lists(m)
  BY <1>1, <1>3 DEF Lists
<1>5. \A m \in Listeners : /\ refCount'[m] = refCount[m] - (IF m = l THEN 1 ELSE 0)
                           /\ refCount[m] \in Int
                           /\ m \in freed' <=> m \in freed \/ (m = l /\ refCount[l] = 1)
  BY <1>1 DEF Release, Inv, TypeOK
<1>6. HeldAtEnd(l) /\ NoRefs(l)
  BY <1>1 DEF RefInv
<1>7. /\ IsFiniteSet(Lists(l)') /\ Cardinality(Lists(l)') = Cardinality(Lists(l)) - 1
      /\ Cardinality(Lists(l)) > 0 /\ Cardinality(Lists(l)) \in Nat
  <2>1. IsFiniteSet(Lists(l)) /\ Lists(l) # {}
    BY <1>4, <1>6 DEF HeldAtEnd
  <2>2. /\ IsFiniteSet(Lists(l) \ {<<k, 1>>})
        /\ Cardinality(Lists(l) \ {<<k, 1>>}) = Cardinality(Lists(l)) - 1
    BY <1>4, <2>1, OneMore
  <2>3. Cardinality(Lists(l)) > 0 /\ Cardinality(Lists(l)) \in Nat
    BY <2>1, OneMore
  <2> QED
    BY <1>4, <2>2, <2>3
<1>8. refCount[l] > 0 /\ l \notin freed /\ l \in used
  BY <1>5, <1>6, <1>7 DEF HeldAtEnd, NoRefs
<1>9. \A m \in Listeners : HeldAtEnd(m)'
  <2>1. HeldAtEnd(l)'
    BY <1>5, <1>6, <1>7 DEF HeldAtEnd
  <2>2. \A m \in Listeners \ {l} : HeldAtEnd(m)'
    BY <1>1, <1>4, <1>5 DEF RefInv, HeldAtEnd
  <2> QED
    BY <2>1, <2>2
<1>10. \A m \in Listeners : NoRefs(m)'
  <2> SUFFICES ASSUME NEW m \in Listeners PROVE NoRefs(m)'
    OBVIOUS
  <2>1. NoRefs(m)
    BY DEF RefInv
  <2> QED
    BY <1>1, <1>5, <1>8, <2>1 DEF NoRefs
<1> QED
  BY <1>1, <1>2, <1>9, <1>10 DEF RefInv

\* The start and the end of addListener().
LEMMA CallRefs ==
  ASSUME Inv, RefInv, NEW a \in Apps,
         \/ \E k \in Keys, l \in Listeners, c \in Contents : BeginAdd(a, k, l, c)
         \/ StartListening(a)
  PROVE  RefInv'
<1>1. ASSUME NEW k \in Keys, NEW l \in Listeners, NEW c \in Contents, BeginAdd(a, k, l, c) PROVE RefInv'
  <2>1. /\ \A b \in Apps : app'[b] = IF b = a THEN [stage |-> "add", key |-> k, listener |-> l, content |-> c]
                                              ELSE app[b]
        /\ dtor = "no" /\ ~InCall(l) /\ Alive(l)
        /\ UNCHANGED <<listenerList, deleteList, refCount, freed, dtor, owed, used>>
    BY <1>1 DEF BeginAdd, CanCall, slots, refs, ghosts, Inv, CallsOK
  <2>2. CallsInv'
    <3>1. /\ app'[a].stage = "add" /\ app'[a].listener = l
          /\ \A b \in Apps : b # a => app'[b] = app[b] /\ (app[b] # Idle => app[b].listener # l)
      BY <2>1 DEF InCall
    <3>2. \A m \in Listeners : Alive(m)' <=> Alive(m)
      BY <2>1 DEF Alive
    <3>3. CallsInv
      BY DEF RefInv
    <3>4. \A b, d \in Apps : app'[b] # Idle /\ app'[d] # Idle /\ app'[b].listener = app'[d].listener => b = d
      BY <3>1, <3>3 DEF CallsInv
    <3>5. \A b \in Apps, m \in Listeners : app'[b].stage = "add" /\ app'[b].listener = m => Alive(m)'
      BY <2>1, <3>1, <3>2, <3>3 DEF CallsInv
    <3> QED
      BY <2>1, <3>3, <3>4, <3>5 DEF CallsInv
  <2> QED
    BY <2>1, <2>2, RefsUnchanged DEF Ending
<1>2. CASE StartListening(a)
  <2>1. /\ \A b \in Apps : app'[b] = IF b = a THEN Idle ELSE app[b]
        /\ UNCHANGED <<listenerList, deleteList, refCount, freed, dtor, owed, used>>
    BY <1>2 DEF StartListening, slots, refs, ghosts, Inv, CallsOK
  <2>2. CallsInv'
    BY <2>1 DEF RefInv, CallsInv, Alive, Idle
  <2> QED
    BY <2>1, <2>2, RefsUnchanged DEF Ending
<1> QED
  BY <1>1, <1>2

\* The watcher, the server and the other steps of the destructor.
LEMMA OtherRefs ==
  ASSUME Inv, RefInv,
         \/ ExitThread \/ Post \/ PollAnswer \/ PollFails \/ LockWatchList \/ BeginClear \/ EndClear
         \/ \E k \in Keys : SkipKey(k) \/ FetchAnswered(k) \/ FetchRefused(k) \/ FetchThrows(k)
         \/ \E k \in Keys, c \in Contents : Edit(k, c)
         \/ StopListening \/ JoinWatcher \/ CleanDone
         \/ UNCHANGED vars
  PROVE  RefInv'
<1>1. UNCHANGED <<listenerList, deleteList, refCount, freed, app, owed, used>>
  BY DEF ExitThread, Post, PollAnswer, PollFails, LockWatchList, BeginClear, EndClear, SkipKey, FetchAnswered,
     FetchRefused, Deliver, FetchThrows, Edit, StopListening, JoinWatcher, CleanDone, vars, slots, refs, ghosts
<1>2. /\ Ending' <=> Ending
      /\ dtor' # "no" => dtor # "no" \/ \A a \in Apps : app[a] = Idle
  BY DEF ExitThread, Post, PollAnswer, PollFails, LockWatchList, BeginClear, EndClear, SkipKey, FetchAnswered,
     FetchRefused, Deliver, FetchThrows, Edit, StopListening, JoinWatcher, CleanDone, vars, Ending
<1> QED
  BY <1>1, <1>2, CallsUnchanged, RefsUnchanged

LEMMA NextRefs == Inv /\ RefInv /\ [Next]_vars => RefInv'
<1> SUFFICES ASSUME Inv, RefInv, [Next]_vars PROVE RefInv'
  OBVIOUS
<1>1. CASE ClearItem \/ DrainItem
  BY <1>1, ClearHeadRefs DEF ClearItem, DrainItem, ghosts
<1> QED
  BY <1>1, AddListenerRefs, RemoveListenerRefs, RemoveActivelyRefs, DrainDoneRefs, ClearListenerRefs,
     CallRefs, OtherRefs DEF Next, Watch, Fail, Destroy

\* No listener is used after its deletion: what is in a list or waits for its
\* removal has a reference and is alive, whatever adds, repeated adds and
\* removals of both kinds, on whatever keys, by whatever threads, go on and
\* whatever the destructor finds (ClientWorker::addListener, clearDeleteList,
\* removeListenerActively, cleanUp).
THEOREM ListenerAliveHolds == Spec => []ListenerAlive
<1>1. Inv /\ RefInv => ListenerAlive
  <2> SUFFICES ASSUME Inv, RefInv, NEW l \in Listeners, Listed(l) \/ Pending(l)
               PROVE  refCount[l] > 0 /\ l \notin freed
    BY DEF ListenerAlive
  <2>1. TypeOK /\ CallsInv /\ NoRefs(l)
    BY DEF Inv, RefInv
  <2>2. CASE ~Ending
    <3>1. Held(l) /\ Accounted(l)
      BY <2>2 DEF RefInv
    <3>2. (\E k \in Keys : owed[k][l] > 0) \/ Pending(l)
      <4>1. CASE Listed(l)
        <5>1. PICK k \in Keys : l \in listenerList[k]
          BY <4>1 DEF Listed
        <5>2. owed[k][l] > 0 \/ \E i \in 1..Len(deleteList) : deleteList[i] = <<k, l>>
          BY <3>1, <5>1 DEF Accounted
        <5>3. \A i \in 1..Len(deleteList) : deleteList[i] = <<k, l>> => deleteList[i][2] = l
          OBVIOUS
        <5> QED
          BY <5>2, <5>3 DEF Pending
      <4> QED
        BY <4>1
    <3> QED
      BY <2>1, <3>1, <3>2, HeldCounts
  <2>3. CASE Ending
    <3>1. HeldAtEnd(l) /\ deleteList = <<>>
      BY <2>3 DEF RefInv
    <3>2. PICK k \in Keys : l \in listenerList[k]
      BY <3>1 DEF Listed, Pending
    <3>3. Lists(l) # {}
      <4>1. <<k, 1>> \in Lists(l)
        BY <3>2 DEF Lists
      <4> QED
        BY <4>1
    <3>4. Cardinality(Lists(l)) > 0 /\ Cardinality(Lists(l)) \in Nat
      BY <3>1, <3>3, OneMore DEF HeldAtEnd
    <3> QED
      BY <2>1, <3>1, <3>4 DEF HeldAtEnd, TypeOK, NoRefs
  <2> QED
    BY <2>2, <2>3
<1> QED
  BY <1>1, InitRefs, NextRefs, Invariant, PTL DEF Spec

-----------------------------------------------------------------------------
(* Leaks.  A listener that was never added to a key that listed it has      *)
(* exactly one reference for each list it is in.                            *)

Waits(k, l) == \E i \in 1..Len(deleteList) : deleteList[i] = <<k, l>>
WaitsOnce(k, l) ==
    \A i, j \in 1..Len(deleteList) : deleteList[i] = <<k, l>> /\ deleteList[j] = <<k, l>> => i = j

\* l is listed for k from its add until its removal has been worked off.
OnKey(k, l) ==
    /\ owed[k][l] \in {0, 1}
    /\ WaitsOnce(k, l)
    /\ Waits(k, l) => l \in listenerList[k] /\ owed[k][l] = 0
    /\ l \in listenerList[k] => owed[k][l] > 0 \/ Waits(k, l)
    /\ ~Ending /\ owed[k][l] > 0 => l \in listenerList[k]

Counted(l) ==
    /\ IsFiniteSet(Lists(l)) /\ refCount[l] = Cardinality(Lists(l))
    /\ l \in used => refCount[l] # 0 \/ l \in freed

LeakInv ==
    /\ \A l \in Listeners \ readded : Counted(l) /\ \A k \in Keys : OnKey(k, l)
    /\ used \in SUBSET Listeners
    /\ dtor = "done" => listeningKeys = {}

LEMMA WaitsAppend ==
  ASSUME TypeOK, NEW k \in Keys, NEW l \in Listeners, deleteList' = Append(deleteList, <<k, l>>)
  PROVE  \A j \in Keys, m \in Listeners :
             /\ Waits(j, m)' <=> Waits(j, m) \/ (j = k /\ m = l)
             /\ WaitsOnce(j, m) /\ ~(j = k /\ m = l /\ Waits(k, l)) => WaitsOnce(j, m)'
<1>1. /\ Len(deleteList) \in Nat /\ Len(deleteList') = Len(deleteList) + 1
      /\ \A i \in 1..Len(deleteList) : deleteList'[i] = deleteList[i]
      /\ deleteList'[Len(deleteList) + 1] = <<k, l>>
  BY DEF TypeOK
<1>2. PICK n \in Nat : n = Len(deleteList)
  BY <1>1
<1>3. 1..Len(deleteList') = 1..n \cup {n + 1} /\ 1..Len(deleteList) = 1..n /\ n + 1 \notin 1..n
  BY <1>1, <1>2
<1> SUFFICES ASSUME NEW j \in Keys, NEW m \in Listeners
             PROVE  /\ Waits(j, m)' <=> Waits(j, m) \/ (j = k /\ m = l)
                    /\ WaitsOnce(j, m) /\ ~(j = k /\ m = l /\ Waits(k, l)) => WaitsOnce(j, m)'
  OBVIOUS
<1>4. <<j, m>> = <<k, l>> <=> j = k /\ m = l
  OBVIOUS
<1>5. \A i \in 1..n : i # n + 1 /\ deleteList'[i] = deleteList[i]
  BY <1>1, <1>3
<1>6. deleteList'[n + 1] = <<k, l>>
  BY <1>1, <1>2
<1>7. Waits(j, m)' <=> Waits(j, m) \/ (j = k /\ m = l)
  BY <1>3, <1>4, <1>5, <1>6, Zenon DEF Waits
<1>8. ASSUME WaitsOnce(j, m), ~(j = k /\ m = l /\ Waits(k, l)) PROVE WaitsOnce(j, m)'
  <2>1. ASSUME j = k, m = l, NEW p \in 1..n, deleteList[p] = <<k, l>> PROVE FALSE
    BY <1>3, <1>8, <2>1, Zenon DEF Waits
  <2>2. ASSUME NEW p \in 1..n \cup {n + 1}, NEW q \in 1..n \cup {n + 1},
               deleteList'[p] = <<j, m>>, deleteList'[q] = <<j, m>>
        PROVE  p = q
    <3>1. CASE p \in 1..n /\ q \in 1..n
      BY <1>3, <1>5, <1>8, <2>2, <3>1, Zenon DEF WaitsOnce
    <3>2. CASE p = n + 1 \/ q = n + 1
      <4>1. j = k /\ m = l
        BY <1>4, <1>6, <2>2, <3>2
      <4> QED
        BY <1>5, <2>1, <2>2, <3>2, <4>1
    <3> QED
      BY <2>2, <3>1, <3>2, Zenon
  <2> QED
    BY <1>3, <2>2, Zenon DEF WaitsOnce
<1> QED
  BY <1>7, <1>8

LEMMA WaitsTail ==
  ASSUME TypeOK, deleteList # <<>>, NEW k \in Keys, NEW l \in Listeners, Head(deleteList) = <<k, l>>,
         deleteList' = Tail(deleteList)
  PROVE  /\ Waits(k, l)
         /\ WaitsOnce(k, l) => ~Waits(k, l)'
         /\ \A j \in Keys, m \in Listeners :
                /\ WaitsOnce(j, m) => WaitsOnce(j, m)'
                /\ ~(j = k /\ m = l) => (Waits(j, m)' <=> Waits(j, m))
<1>1. /\ Len(deleteList) \in Nat \ {0} /\ Len(deleteList') = Len(deleteList) - 1
      /\ \A i \in 1..Len(deleteList') : deleteList'[i] = deleteList[i + 1]
      /\ deleteList[1] = <<k, l>> /\ Len(deleteList') \in Nat
  BY DEF TypeOK
<1>2. PICK n \in Nat : n = Len(deleteList')
  BY <1>1
<1>3. /\ 1..Len(deleteList') = 1..n /\ 1..Len(deleteList) = 1..(n + 1)
      /\ \A i \in 1..n : deleteList'[i] = deleteList[i + 1] /\ i + 1 \in 1..(n + 1)
      /\ \A i \in 1..(n + 1) : i # 1 => i - 1 \in 1..n /\ deleteList'[i - 1] = deleteList[i]
  BY <1>1, <1>2
<1>4. Waits(k, l)
  <2>1. 1 \in 1..Len(deleteList)
    BY <1>1
  <2> QED
    BY <1>1, <2>1 DEF Waits
<1>5. ASSUME WaitsOnce(k, l), NEW i \in 1..n, deleteList'[i] = <<k, l>> PROVE FALSE
  <2>1. deleteList[i + 1] = <<k, l>>
    BY <1>3, <1>5
  <2>2. i + 1 \in 1..(n + 1) /\ 1 \in 1..(n + 1) /\ i + 1 # 1
    OBVIOUS
  <2> QED
    BY <1>1, <1>3, <1>5, <2>1, <2>2 DEF WaitsOnce
<1>6. ASSUME NEW j \in Keys, NEW m \in Listeners, WaitsOnce(j, m) PROVE WaitsOnce(j, m)'
  <2> SUFFICES ASSUME NEW p \in 1..n, NEW q \in 1..n, deleteList'[p] = <<j, m>>, deleteList'[q] = <<j, m>>
               PROVE  p = q
    BY <1>3 DEF WaitsOnce
  <2>1. p + 1 = q + 1
    BY <1>3, <1>6 DEF WaitsOnce
  <2> QED
    BY <2>1
<1>7. ASSUME NEW j \in Keys, NEW m \in Listeners, ~(j = k /\ m = l) PROVE Waits(j, m)' <=> Waits(j, m)
  <2>1. <<j, m>> # <<k, l>>
    BY <1>7
  <2>2. ASSUME NEW i \in 1..(n + 1), deleteList[i] = <<j, m>> PROVE Waits(j, m)'
    <3>1. i - 1 \in 1..n /\ deleteList'[i - 1] = <<j, m>>
      BY <1>1, <1>3, <2>1, <2>2
    <3> QED
      BY <1>3, <3>1 DEF Waits
  <2>3. ASSUME NEW i \in 1..n, deleteList'[i] = <<j, m>> PROVE Waits(j, m)
    BY <1>3, <2>3 DEF Waits
  <2> QED
    BY <1>3, <2>2, <2>3 DEF Waits
<1>8. WaitsOnce(k, l) => ~Waits(k, l)'
  BY <1>3, <1>5 DEF Waits
<1> QED
  BY <1>4, <1>6, <1>7, <1>8

\* A step that leaves l on k as it is.
LEMMA OnKeyKept ==
  ASSUME NEW k, NEW l, OnKey(k, l), owed'[k][l] = owed[k][l],
         l \in listenerList'[k] <=> l \in listenerList[k],
         Waits(k, l)' <=> Waits(k, l), WaitsOnce(k, l)', Ending => Ending'
  PROVE  OnKey(k, l)'
BY DEF OnKey

LEMMA WaitsKept ==
  ASSUME UNCHANGED deleteList
  PROVE  \A k, l : /\ Waits(k, l)' <=> Waits(k, l)
                   /\ WaitsOnce(k, l) => WaitsOnce(k, l)'
BY DEF Waits, WaitsOnce

\* A step that leaves the references of l and its lists as they are.
LEMMA CountedKept ==
  ASSUME NEW l, Counted(l), refCount'[l] = refCount[l], l \in freed => l \in freed',
         l \in used' => l \in used, \A k \in Keys : l \in listenerList'[k] <=> l \in listenerList[k]
  PROVE  Counted(l)'
<1>1. Lists(l)' = Lists(l)
  BY DEF Lists
<1> QED
  BY <1>1 DEF Counted

\* A list gives its reference back.
LEMMA UnlistCounted ==
  ASSUME Inv, NEW k \in Keys, NEW l \in Listeners, Unlist(k, l), Release(l), UNCHANGED used
  PROVE  /\ \A j \in Keys, m \in Listeners :
                m \in listenerList'[j] <=> m \in listenerList[j] /\ ~(j = k /\ m = l)
         /\ \A m \in Listeners \ {l} : Counted(m) => Counted(m)'
         /\ Counted(l) /\ l \in listenerList[k] => Counted(l)'
<1>1. \A j \in Keys, m \in Listeners :
          m \in listenerList'[j] <=> m \in listenerList[j] /\ ~(j = k /\ m = l)
  BY DEF Unlist, Inv, TypeOK
<1>2. /\ \A m \in Listeners : refCount[m] \in Int
      /\ \A m \in Listeners \ {l} : refCount'[m] = refCount[m] /\ (m \in freed' <=> m \in freed)
      /\ refCount'[l] = refCount[l] - 1
      /\ refCount[l] = 1 => l \in freed'
  BY DEF Release, Inv, TypeOK
<1>3. ASSUME NEW m \in Listeners \ {l}, Counted(m) PROVE Counted(m)'
  BY <1>1, <1>2, <1>3, CountedKept
<1>4. ASSUME Counted(l), l \in listenerList[k] PROVE Counted(l)'
  <2>1. Lists(l)' = Lists(l) \ {<<k, 1>>} /\ <<k, 1>> \in Lists(l)
    BY <1>1, <1>4 DEF Lists
  <2>2. IsFiniteSet(Lists(l)') /\ Cardinality(Lists(l)') = Cardinality(Lists(l)) - 1
    BY <1>4, <2>1, OneMore DEF Counted
  <2> QED
    BY <1>2, <1>4, <2>2 DEF Counted
<1> QED
  BY <1>1, <1>3, <1>4

LEMMA InitLeaks == Init => LeakInv
<1> SUFFICES ASSUME Init PROVE LeakInv
  OBVIOUS
<1>1. ASSUME NEW l \in Listeners PROVE Counted(l)
  <2>1. Lists(l) = {}
    BY DEF Init, Lists
  <2>2. IsFiniteSet(Lists(l)) /\ Cardinality(Lists(l)) = 0
    BY <2>1, FS_EmptySet, Zenon
  <2> QED
    BY <2>2 DEF Init, Counted
<1>2. ASSUME NEW k \in Keys, NEW l \in Listeners PROVE OnKey(k, l)
  BY DEF Init, OnKey, Waits, WaitsOnce
<1> QED
  BY <1>1, <1>2 DEF Init, LeakInv

\* A listener is added to a key that does not list it: it was removed from
\* the key, if ever added, and the removal has been worked off.
LEMMA AddListenerLeaks ==
  ASSUME Inv, RefInv, LeakInv, NEW a \in Apps, AddListener(a)
  PROVE  LeakInv'
<1>1. app[a] \in AddCall /\ app[a] # Idle
  BY IdleFact DEF AddListener, Inv, CallsOK, Idle
<1> PICK k \in Keys, l \in Listeners : app[a].key = k /\ app[a].listener = l
  BY <1>1 DEF AddCall
<1>2. /\ listenerList' = [listenerList EXCEPT ![k] = @ \cup {l}]
      /\ refCount' = [refCount EXCEPT ![l] = @ + 1]
      /\ owed' = [owed EXCEPT ![k][l] = @ + 1]
      /\ used' = used \cup {l}
      /\ readded' = IF l \in listenerList[k] THEN readded \cup {l} ELSE readded
      /\ UNCHANGED <<deleteList, freed, dtor>>
  BY DEF AddListener
<1>3. TypeOK /\ CallsInv /\ dtor = "no" /\ ~Ending
  BY <1>1 DEF Inv, RefInv, CallsInv, Ending
<1>4. \A j \in Keys, m \in Listeners :
         /\ owed[j][m] \in Nat
         /\ owed'[j][m] = IF j = k /\ m = l THEN owed[k][l] + 1 ELSE owed[j][m]
         /\ m \in listenerList'[j] <=> m \in listenerList[j] \/ (j = k /\ m = l)
  BY <1>2, <1>3 DEF CallsInv, TypeOK
<1>5. \A m \in Listeners : refCount[m] \in Int /\ refCount'[m] = refCount[m] + (IF m = l THEN 1 ELSE 0)
  BY <1>2, <1>3 DEF TypeOK
<1> SUFFICES ASSUME NEW m \in Listeners, m \notin readded'
             PROVE  Counted(m)' /\ \A j \in Keys : OnKey(j, m)'
  BY <1>2, <1>3 DEF LeakInv
<1>6. Counted(m) /\ \A j \in Keys : OnKey(j, m)
  BY <1>2 DEF LeakInv
<1>7. m = l => m \notin listenerList[k]
  BY <1>2
<1>8. ASSUME NEW j \in Keys PROVE OnKey(j, m)'
  <2>1. CASE j = k /\ m = l
    <3>1. owed[k][l] = 0 /\ ~Waits(k, l)
      BY <1>3, <1>4, <1>6, <1>7, <2>1 DEF OnKey
    <3> QED
      BY <1>2, <1>4, <1>6, <2>1, <3>1, WaitsKept DEF OnKey
  <2>2. CASE ~(j = k /\ m = l)
    <3>1. WaitsOnce(j, m)' /\ (Waits(j, m)' <=> Waits(j, m))
      BY <1>2, <1>6, WaitsKept DEF OnKey
    <3> QED
      BY <1>3, <1>4, <1>6, <2>2, <3>1, OnKeyKept
  <2> QED
    BY <2>1, <2>2
<1>9. Counted(m)'
  <2>1. CASE m = l
    <3>1. Lists(l)' = Lists(l) \cup {<<k, 1>>} /\ <<k, 1>> \notin Lists(l)
      BY <1>4, <1>7, <2>1 DEF Lists
    <3>2. IsFiniteSet(Lists(l))
      BY <1>6, <2>1 DEF Counted
    <3>3. /\ IsFiniteSet(Lists(l)') /\ Cardinality(Lists(l)') = Cardinality(Lists(l)) + 1
          /\ Cardinality(Lists(l)) \in Nat
      <4>1. /\ IsFiniteSet(Lists(l) \cup {<<k, 1>>}) /\ Cardinality(Lists(l)) \in Nat
            /\ Cardinality(Lists(l) \cup {<<k, 1>>}) = Cardinality(Lists(l)) + 1
        BY <3>1, <3>2, OneMore
      <4> QED
        BY <3>1, <4>1, Zenon
    <3> QED
      BY <1>5, <1>6, <2>1, <3>3 DEF Counted
  <2>2. CASE m # l
    BY <1>2, <1>4, <1>5, <1>6, <2>2, CountedKept
  <2> QED
    BY <2>1, <2>2
<1> QED
  BY <1>8, <1>9

LEMMA RemoveListenerLeaks ==
  ASSUME Inv, RefInv, LeakInv, NEW a \in Apps, NEW k \in Keys, NEW l \in Listeners, RemoveListener(a, k, l)
  PROVE  LeakInv'
<1>1. /\ dtor = "no" /\ owed[k][l] > 0
      /\ deleteList' = Append(deleteList, <<k, l>>)
      /\ owed' = [owed EXCEPT ![k][l] = @ - 1]
      /\ UNCHANGED <<listenerList, refCount, freed, dtor, used, readded>>
  BY DEF RemoveListener, CanCall, slots, refs
<1>2. TypeOK /\ CallsInv /\ ~Ending
  BY <1>1 DEF Inv, RefInv, Ending
<1>3. \A j \in Keys, m \in Listeners :
         /\ owed[j][m] \in Nat
         /\ owed'[j][m] = IF j = k /\ m = l THEN owed[k][l] - 1 ELSE owed[j][m]
  BY <1>1, <1>2 DEF CallsInv
<1>4. \A j \in Keys, m \in Listeners :
          /\ Waits(j, m)' <=> Waits(j, m) \/ (j = k /\ m = l)
          /\ WaitsOnce(j, m) /\ ~(j = k /\ m = l /\ Waits(k, l)) => WaitsOnce(j, m)'
  BY <1>1, <1>2, WaitsAppend
<1> SUFFICES ASSUME NEW m \in Listeners, m \notin readded
             PROVE  Counted(m)' /\ \A j \in Keys : OnKey(j, m)'
  BY <1>1 DEF LeakInv
<1>5. Counted(m) /\ \A j \in Keys : OnKey(j, m)
  BY DEF LeakInv
<1>6. Counted(m)'
  BY <1>1, <1>5, CountedKept
<1>7. ASSUME NEW j \in Keys PROVE OnKey(j, m)'
  <2>1. OnKey(j, m)
    BY <1>5
  <2>2. CASE j = k /\ m = l
    <3>1. owed[k][l] = 1 /\ ~Waits(k, l) /\ l \in listenerList[k]
      BY <1>1, <1>2, <2>1, <2>2 DEF OnKey
    <3> QED
      BY <1>1, <1>3, <1>4, <2>1, <2>2, <3>1 DEF OnKey
  <2>3. CASE ~(j = k /\ m = l)
    <3>1. WaitsOnce(j, m)' /\ (Waits(j, m)' <=> Waits(j, m))
      BY <1>4, <2>1, <2>3 DEF OnKey
    <3>2. owed'[j][m] = owed[j][m]
      BY <1>3, <2>3
    <3> QED
      BY <1>1, <1>2, <2>1, <3>1, <3>2, OnKeyKept
  <2> QED
    BY <2>2, <2>3
<1> QED
  BY <1>6, <1>7

LEMMA RemoveActivelyLeaks ==
  ASSUME Inv, RefInv, LeakInv, NEW a \in Apps, NEW k \in Keys, NEW l \in Listeners,
         RemoveListenerActively(a, k, l)
  PROVE  LeakInv'
<1>1. /\ dtor = "no" /\ owed[k][l] > 0
      /\ owed' = [owed EXCEPT ![k][l] = @ - 1]
      /\ UNCHANGED <<deleteList, dtor, used, readded>>
  BY DEF RemoveListenerActively, CanCall
<1>2. TypeOK /\ CallsInv /\ ~Ending
  BY <1>1 DEF Inv, RefInv, Ending
<1>3. \A j \in Keys, m \in Listeners :
         /\ owed[j][m] \in Nat
         /\ owed'[j][m] = IF j = k /\ m = l THEN owed[k][l] - 1 ELSE owed[j][m]
  BY <1>1, <1>2 DEF CallsInv
<1>4. \A j \in Keys, m \in Listeners :
          m \in listenerList'[j] <=> m \in listenerList[j] /\ ~(j = k /\ m = l)
  <2>1. CASE k \notin listeningKeys
    BY <1>2, <2>1 DEF RemoveListenerActively, slots, TypeOK
  <2>2. CASE k \in listeningKeys
    BY <1>2, <2>2 DEF RemoveListenerActively, Unlist, TypeOK
  <2> QED
    BY <2>1, <2>2
<1>5. \A m \in Listeners \ {l} : refCount'[m] = refCount[m] /\ (m \in freed => m \in freed')
  BY <1>2 DEF RemoveListenerActively, Release, refs, TypeOK
<1> SUFFICES ASSUME NEW m \in Listeners, m \notin readded
             PROVE  Counted(m)' /\ \A j \in Keys : OnKey(j, m)'
  BY <1>1 DEF LeakInv
<1>6. Counted(m) /\ \A j \in Keys : OnKey(j, m)
  BY DEF LeakInv
<1>7. Counted(m)'
  <2>1. CASE m = l
    <3>1. l \in listenerList[k] /\ k \in listeningKeys
      BY <1>1, <1>2, <1>6, <2>1 DEF OnKey, TypeOK
    <3>2. Unlist(k, l) /\ Release(l)
      BY <3>1 DEF RemoveListenerActively
    <3> QED
      BY <1>1, <1>6, <2>1, <3>1, <3>2, UnlistCounted
  <2>2. CASE m # l
    <3>1. \A j \in Keys : m \in listenerList'[j] <=> m \in listenerList[j]
      BY <1>4, <2>2
    <3> QED
      BY <1>1, <1>5, <1>6, <2>2, <3>1, CountedKept
  <2> QED
    BY <2>1, <2>2
<1>8. ASSUME NEW j \in Keys PROVE OnKey(j, m)'
  <2>1. OnKey(j, m) /\ WaitsOnce(j, m)' /\ (Waits(j, m)' <=> Waits(j, m))
    BY <1>1, <1>6, WaitsKept DEF OnKey
  <2>2. CASE j = k /\ m = l
    <3>1. owed[k][l] = 1 /\ ~Waits(k, l)
      BY <1>1, <2>1, <2>2 DEF OnKey
    <3> QED
      BY <1>3, <1>4, <2>1, <2>2, <3>1 DEF OnKey
  <2>3. CASE ~(j = k /\ m = l)
    <3>1. owed'[j][m] = owed[j][m] /\ (m \in listenerList'[j] <=> m \in listenerList[j])
      BY <1>3, <1>4, <2>3
    <3> QED
      BY <1>2, <2>1, <3>1, OnKeyKept
  <2> QED
    BY <2>2, <2>3
<1> QED
  BY <1>7, <1>8

\* A removal that is worked off was asked for once, and its listener is still
\* listed.
LEMMA ClearHeadLeaks ==
  ASSUME Inv, RefInv, LeakInv, deleteList # <<>>, ClearHead, UNCHANGED <<dtor, owed, used, readded>>
  PROVE  LeakInv'
<1>1. TypeOK /\ ~Ending /\ ~Ending' /\ dtor' # "done"
  BY DEF RefInv, Inv, Ending
<1>2. PICK k \in Keys, l \in Listeners : Head(deleteList) = <<k, l>>
  BY <1>1 DEF TypeOK
<1>3. deleteList' = Tail(deleteList)
  BY DEF ClearHead
<1>4. /\ Waits(k, l)
      /\ WaitsOnce(k, l) => ~Waits(k, l)'
      /\ \A j \in Keys, m \in Listeners :
             /\ WaitsOnce(j, m) => WaitsOnce(j, m)'
             /\ ~(j = k /\ m = l) => (Waits(j, m)' <=> Waits(j, m))
  BY <1>1, <1>2, <1>3, WaitsTail
<1> SUFFICES ASSUME NEW m \in Listeners, m \notin readded
             PROVE  Counted(m)' /\ \A j \in Keys : OnKey(j, m)'
  BY <1>1 DEF LeakInv
<1>5. Counted(m) /\ \A j \in Keys : OnKey(j, m)
  BY DEF LeakInv
<1>6. m = l => l \in listenerList[k] /\ k \in listeningKeys
  BY <1>1, <1>4, <1>5 DEF OnKey, TypeOK
<1>7. CASE k \notin listeningKeys
  <2>1. m # l /\ UNCHANGED <<listenerList, refCount, freed>>
    BY <1>2, <1>6, <1>7 DEF ClearHead, slots, refs
  <2>2. ASSUME NEW j \in Keys PROVE OnKey(j, m)'
    <3>1. OnKey(j, m) /\ WaitsOnce(j, m)' /\ (Waits(j, m)' <=> Waits(j, m))
      BY <1>4, <1>5, <2>1 DEF OnKey
    <3> QED
      BY <1>1, <2>1, <3>1, OnKeyKept
  <2> QED
    BY <1>5, <2>1, <2>2, CountedKept
<1>8. CASE k \in listeningKeys
  <2>1. Unlist(k, l) /\ Release(l)
    BY <1>2, <1>8 DEF ClearHead
  <2>2. Counted(m)'
    BY <1>5, <1>6, <2>1, UnlistCounted
  <2>3. \A j \in Keys : m \in listenerList'[j] <=> m \in listenerList[j] /\ ~(j = k /\ m = l)
    BY <2>1, UnlistCounted
  <2>4. ASSUME NEW j \in Keys PROVE OnKey(j, m)'
    <3>1. OnKey(j, m) /\ WaitsOnce(j, m)'
      BY <1>4, <1>5 DEF OnKey
    <3>2. CASE j = k /\ m = l
      <4>1. owed[k][l] = 0 /\ ~Waits(k, l)'
        BY <1>4, <3>1, <3>2 DEF OnKey
      <4> QED
        BY <2>3, <3>1, <3>2, <4>1 DEF OnKey
    <3>3. CASE ~(j = k /\ m = l)
      <4>1. (Waits(j, m)' <=> Waits(j, m)) /\ (m \in listenerList'[j] <=> m \in listenerList[j])
        BY <1>4, <2>3, <3>3
      <4> QED
        BY <1>1, <3>1, <4>1, OnKeyKept
    <3> QED
      BY <3>2, <3>3
  <2> QED
    BY <2>2, <2>4
<1> QED
  BY <1>7, <1>8

LEMMA ClearListenerLeaks ==
  ASSUME Inv, RefInv, LeakInv, NEW k \in Keys, NEW l \in Listeners, ClearListener(k, l)
  PROVE  LeakInv'
<1>1. /\ dtor = "cleaning" /\ Ending' /\ l \in listenerList[k] /\ Unlist(k, l) /\ Release(l)
      /\ UNCHANGED <<deleteList, dtor, owed, used, readded>>
  BY DEF ClearListener, Ending, ghosts
<1>2. \A j \in Keys, m \in Listeners : ~Waits(j, m)
  BY <1>1 DEF RefInv, Ending, Waits
<1> SUFFICES ASSUME NEW m \in Listeners, m \notin readded
             PROVE  Counted(m)' /\ \A j \in Keys : OnKey(j, m)'
  BY <1>1 DEF LeakInv
<1>3. Counted(m) /\ \A j \in Keys : OnKey(j, m)
  BY DEF LeakInv
<1>4. Counted(m)'
  BY <1>1, <1>3, UnlistCounted
<1>5. \A j \in Keys : m \in listenerList'[j] => m \in listenerList[j]
  BY <1>1, UnlistCounted
<1>6. \A j \in Keys : OnKey(j, m)'
  BY <1>1, <1>2, <1>3, <1>5, WaitsKept DEF OnKey
<1> QED
  BY <1>4, <1>6

\* Every other step.
LEMMA OtherLeaks ==
  ASSUME Inv, RefInv, LeakInv,
         \/ \E a \in Apps, k \in Keys, l \in Listeners, c \in Contents : BeginAdd(a, k, l, c)
         \/ \E a \in Apps : StartListening(a)
         \/ ExitThread \/ Post \/ PollAnswer \/ PollFails \/ LockWatchList \/ BeginClear \/ EndClear
         \/ \E k \in Keys : SkipKey(k) \/ FetchAnswered(k) \/ FetchRefused(k) \/ FetchThrows(k)
         \/ \E k \in Keys, c \in Contents : Edit(k, c)
         \/ StopListening \/ JoinWatcher \/ DrainDone \/ CleanDone
         \/ UNCHANGED vars
  PROVE  LeakInv'
<1>1. UNCHANGED <<listeningKeys, listenerList, deleteList, refCount, freed, owed, used, readded>>
  BY DEF BeginAdd, StartListening, ExitThread, Post, PollAnswer, PollFails, LockWatchList, BeginClear, EndClear,
     SkipKey, FetchAnswered, FetchRefused, Deliver, FetchThrows, Edit, StopListening, JoinWatcher, DrainDone,
     CleanDone, vars, slots, refs, ghosts
<1>2. (Ending => Ending') /\ (dtor' = "done" => dtor = "done" \/ listeningKeys = {})
  BY DEF BeginAdd, StartListening, ExitThread, Post, PollAnswer, PollFails, LockWatchList, BeginClear, EndClear,
     SkipKey, FetchAnswered, FetchRefused, Deliver, FetchThrows, Edit, StopListening, JoinWatcher, DrainDone,
     CleanDone, vars, Ending
<1> SUFFICES ASSUME NEW m \in Listeners, m \notin readded
             PROVE  Counted(m)' /\ \A j \in Keys : OnKey(j, m)'
  BY <1>1, <1>2 DEF LeakInv
<1>3. Counted(m) /\ \A j \in Keys : OnKey(j, m)
  BY DEF LeakInv
<1>4. Counted(m)'
  BY <1>1, <1>3, CountedKept
<1>5. ASSUME NEW j \in Keys PROVE OnKey(j, m)'
  <2>1. OnKey(j, m) /\ WaitsOnce(j, m)' /\ (Waits(j, m)' <=> Waits(j, m))
    BY <1>1, <1>3, WaitsKept DEF OnKey
  <2> QED
    BY <1>1, <1>2, <2>1, OnKeyKept
<1> QED
  BY <1>4, <1>5

LEMMA NextLeaks == Inv /\ RefInv /\ LeakInv /\ [Next]_vars => LeakInv'
<1> SUFFICES ASSUME Inv, RefInv, LeakInv, [Next]_vars PROVE LeakInv'
  OBVIOUS
<1>1. CASE ClearItem \/ DrainItem
  BY <1>1, ClearHeadLeaks DEF ClearItem, DrainItem, ghosts
<1> QED
  BY <1>1, AddListenerLeaks, RemoveListenerLeaks, RemoveActivelyLeaks, ClearListenerLeaks, OtherLeaks
  DEF Next, Watch, Fail, Destroy

\* No listener leaks: one that the application has removed everywhere and that
\* is still there waits for the watcher, and the destructor leaves none, in
\* whatever order adds, removals of both kinds, the limit of clearDeleteList()
\* and the destructor meet, but for a listener that was added to a key that
\* listed it (ClientWorker::addListener, clearDeleteList, cleanUp).
THEOREM NothingLeaksHolds == Spec => []NothingLeaks
<1>1. Inv /\ RefInv /\ LeakInv => NothingLeaks
  <2> SUFFICES ASSUME Inv, RefInv, LeakInv, NEW l \in used \ (freed \cup readded)
               PROVE  dtor # "done" /\ (GivenBack(l) => Pending(l))
    BY DEF NothingLeaks
  <2>1. Counted(l) /\ \A k \in Keys : OnKey(k, l)
    BY DEF LeakInv
  <2>2. Lists(l) # {}
    <3>1. Lists(l) = {} => Cardinality(Lists(l)) = 0
      BY FS_EmptySet, Zenon
    <3> QED
      BY <2>1, <3>1 DEF Counted
  <2>3. PICK k \in Keys : l \in listenerList[k]
    BY <2>2 DEF Lists
  <2>4. dtor # "done"
    BY <2>3 DEF LeakInv, Inv, TypeOK
  <2>5. ASSUME GivenBack(l) PROVE Pending(l)
    <3>1. owed[k][l] = 0
      BY <2>5 DEF GivenBack
    <3>2. Waits(k, l)
      BY <2>1, <2>3, <3>1 DEF OnKey
    <3>3. \A i \in 1..Len(deleteList) : deleteList[i] = <<k, l>> => deleteList[i][2] = l
      OBVIOUS
    <3> QED
      BY <3>2, <3>3 DEF Waits, Pending
  <2> QED
    BY <2>4, <2>5
<1> QED
  BY <1>1, InitRefs, InitLeaks, NextRefs, NextLeaks, Invariant, PTL DEF Spec
================================================================================
