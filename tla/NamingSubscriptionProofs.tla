------------------------ MODULE NamingSubscriptionProofs ------------------------
(***************************************************************************)
(* Proofs, for any services, listeners, threads of the application, sets   *)
(* of instances and bounds: the types, that a listener has one reference   *)
(* for each list and each notification that holds it, that the destructor  *)
(* deletes all listeners, that a service with listeners is polled, and     *)
(* that a stored change is told unless its thread still has it in hand.    *)
(***************************************************************************)
EXTENDS NamingSubscription, FiniteSetTheorems, TLAPS

-----------------------------------------------------------------------------
(* Types. *)

Works == [stage : {"got", "changed", "calling"}, key : Keys, info : Reactor!Infos]
AppCalls == [stage : {"poll", "unpoll"}, key : Keys, listener : Listeners]

LEMMA WorkFact == \A h \in {None} \cup Works : h.stage # "none" => h \in Works
BY DEF Works, None

LEMMA IdleFact == \A c \in {Idle} \cup AppCalls : c.stage # "idle" => c \in AppCalls
BY DEF AppCalls, Idle

LEMMA InfoFact ==
  /\ Reactor!NoEntry \in Reactor!Infos
  /\ \A h \in Hosts, n \in 1..MaxTime : [hosts |-> h, time |-> n] \in Reactor!Infos
BY ConstantsAssumption DEF Reactor!NoEntry, Reactor!Infos

\* TypeOK without the references, and with them.
RestTypeOK ==
    /\ Reactor!ReactorTypeOK
    /\ server \in [Keys -> Hosts] /\ now \in 1..MaxTime
    /\ pushes \in SUBSET (Keys \X Reactor!Infos)
    /\ pollingList \in SUBSET Keys
    /\ poller \in {"top", "scan", "exited"} /\ copiedList \in SUBSET Keys
    /\ udp \in {"check", "recv", "exited"}
    /\ handling \in [Notifiers -> {None} \cup Works]
    /\ app \in [Apps -> {Idle} \cup AppCalls]
    /\ dtor \in {"no", "poller", "udp", "purge", "done", "aborted"}
    /\ used \in SUBSET Listeners
    /\ calls \in 0..MaxCalls /\ packets \in 0..MaxPackets

LEMMA TypesAreTypes == DispatcherTypeOK /\ RestTypeOK => TypeOK
BY DEF TypeOK, RestTypeOK, Works, AppCalls

LEMMA RestInit == Init => RestTypeOK
BY ConstantsAssumption, InfoFact
DEF Init, RestTypeOK, Reactor!ReactorInit, Reactor!ReactorTypeOK

LEMMA CallTypes ==
  ASSUME RestTypeOK, NEW a \in Apps, Call(a) \/ Return(a)
  PROVE  RestTypeOK'
<1>1. ASSUME NEW k \in Keys, NEW l \in Listeners, Subscribe(a, k, l) PROVE RestTypeOK'
  <2>1. [stage |-> "poll", key |-> k, listener |-> l] \in AppCalls
    BY DEF AppCalls
  <2>2. app' \in [Apps -> {Idle} \cup AppCalls]
    BY <1>1, <2>1 DEF Subscribe, RestTypeOK
  <2>3. calls' \in 0..MaxCalls
    BY <1>1, ConstantsAssumption DEF Subscribe, CanCall, RestTypeOK
  <2> QED
    BY <1>1, <2>2, <2>3 DEF Subscribe, RestTypeOK, external, threads, Reactor!ReactorTypeOK
<1>2. ASSUME NEW k \in Keys, NEW l \in Listeners, Unsubscribe(a, k, l) PROVE RestTypeOK'
  <2>1. [stage |-> "unpoll", key |-> k, listener |-> l] \in AppCalls
    BY DEF AppCalls
  <2>2. app' \in [Apps -> {Idle} \cup AppCalls]
    BY <1>2, <2>1 DEF Unsubscribe, RestTypeOK
  <2>3. calls' \in 0..MaxCalls
    BY <1>2, ConstantsAssumption DEF Unsubscribe, CanCall, RestTypeOK
  <2> QED
    BY <1>2, <2>2, <2>3 DEF Unsubscribe, RestTypeOK, external, threads, Reactor!ReactorTypeOK
<1>3. CASE Return(a)
  <2>1. app[a] \in AppCalls
    BY <1>3, IdleFact DEF Return, AddPollItem, RemovePollItem, RestTypeOK
  <2>2. app[a].key \in Keys
    BY <2>1 DEF AppCalls
  <2> QED
    BY <1>3, <2>2 DEF Return, AddPollItem, RemovePollItem, RestTypeOK, external, threads, ghosts, bounds,
       Reactor!ReactorTypeOK
<1> QED
  BY <1>1, <1>2, <1>3 DEF Call

LEMMA HandleTypes ==
  ASSUME RestTypeOK, NEW t \in Notifiers, NEW k \in Keys, NEW info \in Reactor!Infos, Handle(t, k, info)
  PROVE  handling' \in [Notifiers -> {None} \cup Works]
BY DEF Handle, RestTypeOK, Works

LEMMA ThreadTypes ==
  ASSUME RestTypeOK, Poll \/ BeginReceive \/ Datagram \/ ReceiveFails
  PROVE  RestTypeOK'
<1>0. "poller" \in Notifiers /\ "udp" \in Notifiers
  BY ConstantsAssumption
<1>1. ASSUME NEW k \in Keys, QueryAnswered(k) PROVE RestTypeOK'
  <2>1. [hosts |-> server[k], time |-> now] \in Reactor!Infos
    BY InfoFact DEF RestTypeOK
  <2>2. handling' \in [Notifiers -> {None} \cup Works]
    BY <1>0, <1>1, <2>1, HandleTypes DEF QueryAnswered
  <2> QED
    BY <1>1, <2>2 DEF QueryAnswered, RestTypeOK, external, threads, ghosts, bounds, Reactor!ReactorTypeOK
<1>2. ASSUME NEW k \in Keys, NEW info \in Reactor!Infos, Receive(k, info) PROVE RestTypeOK'
  <2>1. handling' \in [Notifiers -> {None} \cup Works]
    BY <1>0, <1>2, HandleTypes DEF Receive
  <2>2. packets' \in 0..MaxPackets
    BY <1>2, ConstantsAssumption DEF Receive, RestTypeOK
  <2> QED
    BY <1>2, <2>1, <2>2 DEF Receive, RestTypeOK, external, threads, ghosts, bounds, Reactor!ReactorTypeOK
<1>3. CASE \/ CopyPollingList \/ \E k \in Keys : QueryFails(k)
           \/ EndScan \/ ExitPoller \/ BeginReceive \/ ReceiveFails
  BY <1>3 DEF CopyPollingList, QueryFails, EndScan, ExitPoller, BeginReceive, ReceiveFails, RestTypeOK,
     external, threads, ghosts, bounds, Reactor!ReactorTypeOK
<1> QED
  BY <1>1, <1>2, <1>3 DEF Poll, Datagram

LEMMA ProcessTypes ==
  ASSUME RestTypeOK, NEW t \in Notifiers, Process(t)
  PROVE  RestTypeOK'
<1>1. handling[t] \in Works
  BY WorkFact DEF Process, StoreInfo, BeginNotify, Notify, RestTypeOK
<1>2. /\ handling[t].key \in Keys /\ handling[t].info \in Reactor!Infos
      /\ [handling[t] EXCEPT !.stage = "changed"] \in Works
      /\ [handling[t] EXCEPT !.stage = "calling"] \in Works
  BY <1>1 DEF Works
<1>3. handling' \in [Notifiers -> {None} \cup Works]
  BY <1>2 DEF Process, StoreInfo, BeginNotify, Notify, RestTypeOK
<1>4. Reactor!ReactorTypeOK'
  BY <1>2 DEF Process, StoreInfo, BeginNotify, Notify, RestTypeOK, Reactor!Store, Reactor!ReactorTypeOK
<1> QED
  BY <1>3, <1>4 DEF Process, StoreInfo, BeginNotify, Notify, RestTypeOK, external, threads, ghosts, bounds

LEMMA OtherTypes ==
  ASSUME RestTypeOK,
         \/ \E k \in Keys, h \in Hosts : Change(k, h)
         \/ Destroy
         \/ UNCHANGED vars
  PROVE  RestTypeOK'
<1>1. ASSUME NEW k \in Keys, NEW h \in Hosts, Change(k, h) PROVE RestTypeOK'
  <2>1. now' \in 1..MaxTime /\ now' = now + 1
    BY <1>1, ConstantsAssumption DEF Change, RestTypeOK
  <2>2. [hosts |-> h, time |-> now + 1] \in Reactor!Infos
    BY <2>1, InfoFact
  <2> QED
    BY <1>1, <2>1, <2>2 DEF Change, RestTypeOK, threads, ghosts, bounds, Reactor!ReactorTypeOK
<1>2. CASE Destroy
  BY <1>2 DEF Destroy, StopPoller, StopListener, PurgeAllListeners, RestTypeOK, external, threads, ghosts,
     bounds, Reactor!ReactorTypeOK
<1>3. CASE UNCHANGED vars
  BY <1>3 DEF vars, RestTypeOK, external, threads, ghosts, bounds, Reactor!ReactorTypeOK
<1> QED
  BY <1>1, <1>2, <1>3

LEMMA NextTypes == RestTypeOK /\ [Next]_vars => RestTypeOK'
BY CallTypes, ThreadTypes, ProcessTypes, OtherTypes DEF Next

-----------------------------------------------------------------------------
(* References. *)

Observed(l) == {k \in Keys : l \in observerMap[k]}
Callers(l) == {t \in Notifiers : l \in calling[t]}

Counted(l) ==
    /\ IsFiniteSet(Observed(l)) /\ IsFiniteSet(Callers(l))
    /\ refCount[l] = Cardinality(Observed(l)) + Cardinality(Callers(l))

\* A listener without references has never been subscribed, or been deleted.
DeletedLast(l) ==
    /\ l \in deleted => refCount[l] = 0
    /\ l \in used /\ refCount[l] = 0 => l \in deleted
    /\ l \notin used => refCount[l] = 0 /\ l \notin deleted

\* The list of calls is empty outside notifyDirectly().
CallingInv == \A t \in Notifiers : handling[t].stage # "calling" => calling[t] = {}

\* A thread that asks for an answer has none to process; the poller is joined
\* before the UDP thread is stopped.
ThreadInv ==
    /\ dtor \in {"udp", "done", "aborted"} => poller = "exited"
    /\ poller # "scan" => handling["poller"] = None
    /\ udp = "recv" => handling["udp"] = None
    /\ dtor = "done" => used \subseteq deleted

RefInv ==
    /\ DispatcherTypeOK
    /\ \A l \in Listeners : Counted(l) /\ DeletedLast(l)
    /\ CallingInv
    /\ ThreadInv

Inv == RestTypeOK /\ RefInv

LEMMA HoldersAre ==
  ASSUME NEW l
  PROVE  /\ ListsOf(l) = Cardinality(Observed(l))
         /\ Holders(l) = Cardinality(Observed(l)) + Cardinality(Callers(l))
BY DEF ListsOf, Holders, Observed, Callers

LEMMA OneMore ==
  ASSUME NEW S, IsFiniteSet(S), NEW x
  PROVE  /\ IsFiniteSet(S \cup {x}) /\ IsFiniteSet(S \ {x})
         /\ x \notin S => Cardinality(S \cup {x}) = Cardinality(S) + 1
         /\ x \in S => Cardinality(S \ {x}) = Cardinality(S) - 1
         /\ Cardinality(S) \in Nat
         /\ S # {} <=> Cardinality(S) > 0
<1>1. Cardinality(S) \in Nat /\ (Cardinality(S) = 0 <=> S = {})
  BY FS_CardinalityType, FS_EmptySet
<1>2. /\ IsFiniteSet(S \cup {x}) /\ IsFiniteSet(S \ {x})
      /\ Cardinality(S \cup {x}) = IF x \in S THEN Cardinality(S) ELSE Cardinality(S) + 1
      /\ Cardinality(S \ {x}) = IF x \in S THEN Cardinality(S) - 1 ELSE Cardinality(S)
  BY FS_AddElement, FS_RemoveElement
<1> QED
  BY <1>1, <1>2

LEMMA InitRefs == Init => RefInv
<1> SUFFICES ASSUME Init PROVE RefInv
  OBVIOUS
<1>1. \A l \in Listeners : Counted(l)
  <2> SUFFICES ASSUME NEW l \in Listeners PROVE Counted(l)
    OBVIOUS
  <2>1. Observed(l) = {} /\ Callers(l) = {}
    BY DEF Init, DispatcherInit, Observed, Callers
  <2>2. /\ IsFiniteSet(Observed(l)) /\ Cardinality(Observed(l)) = 0
        /\ IsFiniteSet(Callers(l)) /\ Cardinality(Callers(l)) = 0
    BY <2>1, FS_EmptySet, Zenon
  <2>3. refCount[l] = 0
    BY DEF Init, DispatcherInit
  <2> QED
    BY <2>2, <2>3 DEF Counted
<1>2. DispatcherTypeOK
  BY DEF Init, DispatcherInit, DispatcherTypeOK
<1>3. "poller" \in Notifiers
  BY ConstantsAssumption
<1> QED
  BY <1>1, <1>2, <1>3 DEF Init, DispatcherInit, RefInv, DeletedLast, CallingInv, ThreadInv

\* What is observed or called is alive.
LEMMA CountedAlive ==
  ASSUME DispatcherTypeOK, NEW l \in Listeners, Counted(l), DeletedLast(l)
  PROVE  /\ Observed(l) # {} \/ Callers(l) # {} => refCount[l] > 0 /\ l \notin deleted /\ l \in used
         /\ Cardinality(Observed(l)) \in Nat /\ Cardinality(Callers(l)) \in Nat
<1>1. /\ Cardinality(Observed(l)) \in Nat /\ Cardinality(Callers(l)) \in Nat
      /\ Observed(l) # {} => Cardinality(Observed(l)) > 0
      /\ Callers(l) # {} => Cardinality(Callers(l)) > 0
  BY OneMore DEF Counted
<1>2. Observed(l) # {} \/ Callers(l) # {} => refCount[l] > 0
  BY <1>1 DEF Counted
<1> QED
  BY <1>1, <1>2 DEF DeletedLast

\* A reference more, and one less.
LEMMA AddListenerRefs ==
  ASSUME RefInv, NEW k \in Keys, NEW l \in Listeners, AddListener(k, l), used' = used \cup {l},
         l \notin used \/ ListsOf(l) > 0
  PROVE  DispatcherTypeOK' /\ \A m \in Listeners : Counted(m)' /\ DeletedLast(m)'
<1>1. /\ l \notin observerMap[k] /\ UNCHANGED <<deleted, calling>>
      /\ \A m \in Listeners : /\ refCount'[m] = refCount[m] + (IF m = l THEN 1 ELSE 0)
                              /\ refCount[m] \in Nat
      /\ \A j \in Keys : observerMap'[j] = IF j = k THEN observerMap[k] \cup {l} ELSE observerMap[j]
  BY DEF AddListener, RefInv, DispatcherTypeOK
<1>2. DispatcherTypeOK'
  BY DEF AddListener, RefInv, DispatcherTypeOK
<1>3. ASSUME NEW m \in Listeners PROVE Counted(m)'
  <2>1. Counted(m) /\ Callers(m)' = Callers(m)
    BY <1>1 DEF RefInv, Callers
  <2>2. CASE m = l
    <3>1. Observed(l)' = Observed(l) \cup {k} /\ k \notin Observed(l)
      BY <1>1 DEF Observed
    <3>2. IsFiniteSet(Observed(l)') /\ Cardinality(Observed(l)') = Cardinality(Observed(l)) + 1
      <4>1. IsFiniteSet(Observed(l))
        BY <2>1, <2>2 DEF Counted
      <4> QED
        BY <3>1, <4>1, OneMore
    <3>3. Cardinality(Observed(l)) \in Nat /\ Cardinality(Callers(l)) \in Nat
      BY <2>1, <2>2, FS_CardinalityType DEF Counted
    <3> QED
      BY <1>1, <2>1, <2>2, <3>2, <3>3 DEF Counted
  <2>3. CASE m # l
    <3>1. Observed(m)' = Observed(m)
      BY <1>1, <2>3 DEF Observed
    <3> QED
      BY <1>1, <2>1, <2>3, <3>1 DEF Counted
  <2> QED
    BY <2>2, <2>3
<1>4. l \notin deleted
  <2>1. Counted(l) /\ DeletedLast(l) /\ DispatcherTypeOK
    BY DEF RefInv
  <2>2. ListsOf(l) > 0 => Observed(l) # {}
    BY <2>1, HoldersAre, OneMore DEF Counted
  <2> QED
    BY <2>1, <2>2, CountedAlive DEF DeletedLast
<1>5. ASSUME NEW m \in Listeners PROVE DeletedLast(m)'
  <2>1. DeletedLast(m)
    BY DEF RefInv
  <2> QED
    BY <1>1, <1>4, <2>1 DEF DeletedLast
<1> QED
  BY <1>2, <1>3, <1>5

LEMMA GiveBackRefs ==
  ASSUME RefInv, NEW l \in Listeners, GiveBack(l), UNCHANGED used,
         \/ \E k \in Keys : /\ l \in observerMap[k] /\ observerMap' = [observerMap EXCEPT ![k] = @ \ {l}]
                            /\ UNCHANGED calling
         \/ \E t \in Notifiers : /\ l \in calling[t] /\ calling' = [calling EXCEPT ![t] = @ \ {l}]
                                 /\ UNCHANGED observerMap
  PROVE  DispatcherTypeOK' /\ \A m \in Listeners : Counted(m)' /\ DeletedLast(m)'
<1>1. Counted(l) /\ DeletedLast(l) /\ DispatcherTypeOK
  BY DEF RefInv
<1>2. Observed(l) # {} \/ Callers(l) # {}
  BY DEF Observed, Callers
<1>3. refCount[l] > 0 /\ l \notin deleted /\ l \in used
  BY <1>1, <1>2, CountedAlive
<1>4. \A m \in Listeners : /\ refCount'[m] = refCount[m] - (IF m = l THEN 1 ELSE 0) /\ refCount[m] \in Nat
                           /\ m \in deleted' <=> m \in deleted \/ (m = l /\ refCount[l] = 1)
  BY <1>1 DEF GiveBack, DispatcherTypeOK
<1>5. refCount' \in [Listeners -> Nat] /\ deleted' \in SUBSET Listeners
  BY <1>1, <1>3 DEF GiveBack, DispatcherTypeOK
<1>6. DispatcherTypeOK'
  BY <1>1, <1>5 DEF DispatcherTypeOK
<1>7. ASSUME NEW m \in Listeners PROVE DeletedLast(m)'
  <2>1. DeletedLast(m)
    BY DEF RefInv
  <2> QED
    BY <1>3, <1>4, <2>1 DEF DeletedLast
<1>8. ASSUME NEW m \in Listeners \ {l} PROVE Counted(m)'
  <2>1. Counted(m)
    BY DEF RefInv
  <2>2. Observed(m)' = Observed(m) /\ Callers(m)' = Callers(m)
    BY <1>1 DEF Observed, Callers, DispatcherTypeOK
  <2> QED
    BY <1>4, <2>1, <2>2 DEF Counted
<1>9. Cardinality(Observed(l)) \in Nat /\ Cardinality(Callers(l)) \in Nat
  BY <1>1, CountedAlive
<1>10. ASSUME NEW k \in Keys, l \in observerMap[k], observerMap' = [observerMap EXCEPT ![k] = @ \ {l}],
              UNCHANGED calling
       PROVE  Counted(l)'
  <2>1. Observed(l)' = Observed(l) \ {k} /\ k \in Observed(l) /\ Callers(l)' = Callers(l)
    BY <1>1, <1>10 DEF Observed, Callers, DispatcherTypeOK
  <2>2. IsFiniteSet(Observed(l)') /\ Cardinality(Observed(l)') = Cardinality(Observed(l)) - 1
    <3>1. IsFiniteSet(Observed(l))
      BY <1>1 DEF Counted
    <3> QED
      BY <2>1, <3>1, OneMore
  <2> QED
    BY <1>1, <1>4, <1>9, <2>1, <2>2 DEF Counted
<1>11. ASSUME NEW t \in Notifiers, l \in calling[t], calling' = [calling EXCEPT ![t] = @ \ {l}],
              UNCHANGED observerMap
       PROVE  Counted(l)'
  <2>1. Callers(l)' = Callers(l) \ {t} /\ t \in Callers(l) /\ Observed(l)' = Observed(l)
    BY <1>1, <1>11 DEF Observed, Callers, DispatcherTypeOK
  <2>2. IsFiniteSet(Callers(l)') /\ Cardinality(Callers(l)') = Cardinality(Callers(l)) - 1
    <3>1. IsFiniteSet(Callers(l))
      BY <1>1 DEF Counted
    <3> QED
      BY <2>1, <3>1, OneMore
  <2> QED
    BY <1>1, <1>4, <1>9, <2>1, <2>2 DEF Counted
<1> QED
  BY <1>6, <1>7, <1>8, <1>10, <1>11

\* notifyDirectly() takes a reference to each listener it copies.
LEMMA CopyRefs ==
  ASSUME RefInv, NEW t \in Notifiers, NEW k \in Keys, calling[t] = {}, CopyListeners(t, k), UNCHANGED used
  PROVE  DispatcherTypeOK' /\ \A m \in Listeners : Counted(m)' /\ DeletedLast(m)'
<1>1. DispatcherTypeOK /\ DispatcherTypeOK'
  BY DEF RefInv, CopyListeners, DispatcherTypeOK
<1>2. /\ UNCHANGED <<observerMap, deleted>>
      /\ \A m \in Listeners : /\ refCount[m] \in Nat
                              /\ refCount'[m] = refCount[m] + (IF m \in observerMap[k] THEN 1 ELSE 0)
      /\ \A u \in Notifiers : calling'[u] = IF u = t THEN observerMap[k] ELSE calling[u]
  BY <1>1 DEF CopyListeners, DispatcherTypeOK
<1>3. ASSUME NEW m \in Listeners PROVE Counted(m)' /\ DeletedLast(m)'
  <2>1. Counted(m) /\ DeletedLast(m) /\ Observed(m)' = Observed(m)
    BY <1>2 DEF RefInv, Observed
  <2>2. CASE m \in observerMap[k]
    <3>1. Callers(m)' = Callers(m) \cup {t} /\ t \notin Callers(m) /\ Observed(m) # {}
      BY <1>2, <2>2 DEF Callers, Observed
    <3>2. IsFiniteSet(Callers(m)') /\ Cardinality(Callers(m)') = Cardinality(Callers(m)) + 1
      <4>1. IsFiniteSet(Callers(m))
        BY <2>1 DEF Counted
      <4> QED
        BY <3>1, <4>1, OneMore
    <3>3. /\ Cardinality(Observed(m)) \in Nat /\ Cardinality(Callers(m)) \in Nat
          /\ m \notin deleted /\ m \in used
      BY <1>1, <2>1, <3>1, CountedAlive
    <3>4. Counted(m)'
      BY <1>2, <2>1, <2>2, <3>2, <3>3 DEF Counted
    <3> QED
      BY <1>2, <2>2, <3>3, <3>4 DEF DeletedLast
  <2>3. CASE m \notin observerMap[k]
    <3>1. Callers(m)' = Callers(m)
      BY <1>2, <2>3 DEF Callers
    <3> QED
      BY <1>2, <2>1, <2>3, <3>1 DEF Counted, DeletedLast
  <2> QED
    BY <2>2, <2>3
<1> QED
  BY <1>1, <1>3

\* purgeAllListeners() gives back what the lists hold.
LEMMA PurgeRefs ==
  ASSUME RefInv, Purge, UNCHANGED used
  PROVE  /\ DispatcherTypeOK' /\ \A m \in Listeners : Counted(m)' /\ DeletedLast(m)'
         /\ \A m \in Listeners : Callers(m) = {} /\ m \in used => m \in deleted'
<1>1. DispatcherTypeOK /\ UNCHANGED calling /\ deleted' = deleted \cup Purged
  BY DEF RefInv, Purge
<1>2. ASSUME NEW m \in Listeners
      PROVE  /\ refCount'[m] \in Nat /\ Counted(m)' /\ DeletedLast(m)'
             /\ Callers(m) = {} /\ m \in used => m \in deleted'
  <2>1. Counted(m) /\ DeletedLast(m)
    BY DEF RefInv
  <2>2. /\ Cardinality(Observed(m)) \in Nat /\ Cardinality(Callers(m)) \in Nat
        /\ refCount[m] = Cardinality(Observed(m)) + Cardinality(Callers(m))
    BY <1>1, <2>1, CountedAlive DEF Counted
  <2>3. /\ refCount'[m] = refCount[m] - Cardinality(Observed(m))
        /\ m \in Purged <=> Cardinality(Observed(m)) > 0 /\ refCount[m] = Cardinality(Observed(m))
    BY HoldersAre DEF Purge, Purged
  <2>4. Observed(m)' = {} /\ Callers(m)' = Callers(m)
    BY <1>1 DEF Purge, Observed, Callers
  <2>5. IsFiniteSet(Observed(m)') /\ Cardinality(Observed(m)') = 0
    BY <2>4, FS_EmptySet, Zenon
  <2>6. Counted(m)'
    BY <2>1, <2>2, <2>3, <2>4, <2>5 DEF Counted
  <2>7. DeletedLast(m)'
    BY <1>1, <2>1, <2>2, <2>3 DEF DeletedLast
  <2>8. Callers(m) = {} => Cardinality(Callers(m)) = 0
    BY FS_EmptySet
  <2>9. Callers(m) = {} /\ m \in used => m \in deleted'
    BY <1>1, <2>1, <2>2, <2>3, <2>8 DEF DeletedLast
  <2> QED
    BY <2>2, <2>3, <2>6, <2>7, <2>9
<1>3. refCount' = [m \in Listeners |-> refCount[m] - ListsOf(m)] /\ observerMap' \in [Keys -> SUBSET Listeners]
  BY DEF Purge
<1>4. refCount' \in [Listeners -> Nat]
  BY <1>2, <1>3
<1>5. deleted' \in SUBSET Listeners
  BY <1>1 DEF Purged, DispatcherTypeOK
<1>6. DispatcherTypeOK'
  BY <1>1, <1>3, <1>4, <1>5 DEF DispatcherTypeOK
<1> QED
  BY <1>2, <1>6

LEMMA DispatcherUnchanged ==
  ASSUME RefInv, UNCHANGED <<dispatcher, used>>
  PROVE  DispatcherTypeOK' /\ \A m \in Listeners : Counted(m)' /\ DeletedLast(m)'
BY DEF RefInv, dispatcher, DispatcherTypeOK, Counted, DeletedLast, Observed, Callers

\* The calls of the application: none once the destructor runs.
LEMMA CallRefs ==
  ASSUME Inv, NEW a \in Apps, Call(a) \/ Return(a)
  PROVE  RefInv'
<1>1. ASSUME NEW k \in Keys, NEW l \in Listeners, Subscribe(a, k, l) PROVE RefInv'
  <2>1. DispatcherTypeOK' /\ \A m \in Listeners : Counted(m)' /\ DeletedLast(m)'
    BY <1>1, AddListenerRefs DEF Subscribe, Inv
  <2>2. CallingInv' /\ ThreadInv'
    BY <1>1 DEF Subscribe, CanCall, AddListener, threads, Inv, RefInv, CallingInv, ThreadInv
  <2> QED
    BY <2>1, <2>2 DEF RefInv
<1>2. ASSUME NEW k \in Keys, NEW l \in Listeners, Unsubscribe(a, k, l) PROVE RefInv'
  <2>1. DispatcherTypeOK' /\ \A m \in Listeners : Counted(m)' /\ DeletedLast(m)'
    BY <1>2, GiveBackRefs DEF Unsubscribe, RemoveListener, Inv
  <2>2. CallingInv' /\ ThreadInv'
    BY <1>2 DEF Unsubscribe, CanCall, RemoveListener, GiveBack, threads, Inv, RefInv, CallingInv, ThreadInv
  <2> QED
    BY <2>1, <2>2 DEF RefInv
<1>3. CASE Return(a)
  <2>1. DispatcherTypeOK' /\ \A m \in Listeners : Counted(m)' /\ DeletedLast(m)'
    BY <1>3, DispatcherUnchanged DEF Return, AddPollItem, RemovePollItem, ghosts, Inv
  <2>2. CallingInv' /\ ThreadInv'
    BY <1>3 DEF Return, AddPollItem, RemovePollItem, threads, ghosts, dispatcher, Inv, RefInv, CallingInv, ThreadInv
  <2> QED
    BY <2>1, <2>2 DEF RefInv
<1> QED
  BY <1>1, <1>2, <1>3 DEF Call

\* The threads fetch answers.
LEMMA ThreadRefs ==
  ASSUME Inv, Poll \/ BeginReceive \/ Datagram \/ ReceiveFails
  PROVE  RefInv'
<1>0. /\ "poller" \in Notifiers /\ "udp" \in Notifiers /\ None.stage = "none"
      /\ handling \in [Notifiers -> {None} \cup Works]
  BY ConstantsAssumption DEF None, Inv, RestTypeOK
<1>1. DispatcherTypeOK' /\ \A m \in Listeners : Counted(m)' /\ DeletedLast(m)'
  BY DispatcherUnchanged DEF Poll, CopyPollingList, QueryAnswered, QueryFails, EndScan, ExitPoller, BeginReceive,
     Datagram, Receive, ReceiveFails, ghosts, Inv
<1>2. UNCHANGED <<calling, dtor, deleted, used>>
  BY DEF Poll, CopyPollingList, QueryAnswered, QueryFails, EndScan, ExitPoller, BeginReceive, Datagram, Receive,
     ReceiveFails, ghosts, dispatcher
<1>3. ASSUME NEW t \in Notifiers, NEW k, NEW info, Handle(t, k, info), handling[t] = None PROVE CallingInv'
  <2>1. handling'[t].stage = "got" /\ \A u \in Notifiers : u # t => handling'[u] = handling[u]
    BY <1>0, <1>3 DEF Handle
  <2>2. calling[t] = {}
    BY <1>0, <1>3 DEF Inv, RefInv, CallingInv
  <2> QED
    BY <1>2, <2>1, <2>2 DEF Inv, RefInv, CallingInv
<1>4. ASSUME NEW k \in Keys, QueryAnswered(k) PROVE CallingInv' /\ ThreadInv'
  <2>1. CallingInv'
    BY <1>0, <1>3, <1>4 DEF QueryAnswered
  <2>2. poller' = "scan" /\ poller = "scan" /\ udp' = udp /\ handling'["udp"] = handling["udp"]
    BY <1>0, <1>4 DEF QueryAnswered, Handle
  <2> QED
    BY <1>2, <2>1, <2>2 DEF Inv, RefInv, ThreadInv
<1>5. ASSUME NEW k \in Keys, NEW info, Receive(k, info), handling["udp"] = None PROVE CallingInv' /\ ThreadInv'
  <2>1. CallingInv'
    BY <1>0, <1>3, <1>5 DEF Receive
  <2>2. poller' = poller /\ handling'["poller"] = handling["poller"] /\ udp' = "check"
    BY <1>0, <1>5 DEF Receive, Handle
  <2> QED
    BY <1>2, <2>1, <2>2 DEF Inv, RefInv, ThreadInv
<1>6. CASE \/ CopyPollingList \/ \E k \in Keys : QueryFails(k)
           \/ EndScan \/ ExitPoller \/ BeginReceive \/ ReceiveFails
  <2>1. UNCHANGED handling
    BY <1>6 DEF CopyPollingList, QueryFails, EndScan, ExitPoller, BeginReceive, ReceiveFails
  <2>2. CallingInv'
    BY <1>2, <2>1 DEF Inv, RefInv, CallingInv
  <2>3. /\ poller' # "scan" => poller # "scan" \/ handling["poller"] = None
        /\ poller = "exited" => poller' = "exited"
        /\ udp' = "recv" => udp = "recv" \/ handling["udp"] = None
    BY <1>0, <1>6 DEF CopyPollingList, QueryFails, EndScan, ExitPoller, BeginReceive, ReceiveFails, Inv, RefInv, ThreadInv
  <2>4. ThreadInv'
    BY <1>2, <2>1, <2>3 DEF Inv, RefInv, ThreadInv
  <2> QED
    BY <1>1, <2>2, <2>4 DEF RefInv
<1>7. \A k \in Keys, info \in Reactor!Infos : Receive(k, info) => handling["udp"] = None
  BY DEF Receive, Inv, RefInv, ThreadInv
<1> QED
  BY <1>1, <1>4, <1>5, <1>6, <1>7 DEF RefInv, Poll, Datagram

\* They process them.
LEMMA ProcessRefs ==
  ASSUME Inv, NEW t \in Notifiers, Process(t)
  PROVE  RefInv'
<1>0. /\ handling \in [Notifiers -> {None} \cup Works] /\ handling[t] \in Works
      /\ Notifiers = {"poller", "udp"}
  BY WorkFact, ConstantsAssumption DEF Process, StoreInfo, BeginNotify, Notify, Inv, RestTypeOK
<1>1. handling[t] # None
  BY <1>0 DEF Works, None
<1>2. /\ UNCHANGED <<poller, udp, dtor, used>>
      /\ \A u \in Notifiers : u # t => handling'[u] = handling[u]
      /\ deleted \subseteq deleted'
  <2>1. CASE StoreInfo(t)
    <3>1. /\ \E w : handling' = [handling EXCEPT ![t] = w]
          /\ UNCHANGED <<dispatcher, threads, dtor, used>>
      BY <2>1 DEF StoreInfo
    <3> QED
      BY <1>0, <3>1 DEF dispatcher, threads
  <2>2. CASE BeginNotify(t)
    <3>1. /\ \E w : handling' = [handling EXCEPT ![t] = w]
          /\ UNCHANGED <<threads, dtor, ghosts, deleted>>
      BY <2>2 DEF BeginNotify, CopyListeners
    <3> QED
      BY <1>0, <3>1 DEF ghosts, threads
  <2>3. ASSUME NEW l \in Listeners, Notify(t, l)
        PROVE  /\ UNCHANGED <<poller, udp, dtor, used>>
               /\ \A u \in Notifiers : u # t => handling'[u] = handling[u]
               /\ deleted \subseteq deleted'
    BY <1>0, <2>3 DEF Notify, CallListener, GiveBack, threads
  <2> QED
    BY <2>1, <2>2, <2>3 DEF Process
<1>3. ThreadInv'
  BY <1>0, <1>1, <1>2 DEF Inv, RefInv, ThreadInv
<1>4. CASE StoreInfo(t)
  <2>1. DispatcherTypeOK' /\ \A m \in Listeners : Counted(m)' /\ DeletedLast(m)'
    BY <1>4, DispatcherUnchanged DEF StoreInfo, Inv
  <2>2. calling[t] = {} /\ UNCHANGED calling
    BY <1>4 DEF StoreInfo, dispatcher, Inv, RefInv, CallingInv
  <2>3. CallingInv'
    BY <1>2, <2>2 DEF Inv, RefInv, CallingInv
  <2> QED
    BY <1>3, <2>1, <2>3 DEF RefInv
<1>5. CASE BeginNotify(t)
  <2> DEFINE k == handling[t].key
  <2>1. k \in Keys /\ calling[t] = {} /\ CopyListeners(t, k)
    BY <1>0, <1>5 DEF BeginNotify, Works, Inv, RefInv, CallingInv
  <2>2. DispatcherTypeOK' /\ \A m \in Listeners : Counted(m)' /\ DeletedLast(m)'
    <3> HIDE DEF k
    <3> QED
      BY <1>2, <2>1, CopyRefs DEF Inv
  <2>3. calling \in [Notifiers -> SUBSET Listeners]
    BY DEF Inv, RefInv, DispatcherTypeOK
  <2>4. handling'[t].stage # "calling" => calling'[t] = {}
    <3>1. CASE observerMap[k] = {}
      BY <2>1, <2>3, <3>1 DEF CopyListeners
    <3>2. CASE observerMap[k] # {}
      <4>1. handling'[t] = [handling[t] EXCEPT !.stage = "calling"]
        BY <1>0, <1>5, <3>2 DEF BeginNotify
      <4> QED
        BY <1>0, <4>1 DEF Works
    <3> QED
      BY <3>1, <3>2
  <2>5. \A u \in Notifiers : u # t => calling'[u] = calling[u]
    BY <2>1, <2>3 DEF CopyListeners
  <2>6. CallingInv'
    BY <1>2, <2>4, <2>5 DEF Inv, RefInv, CallingInv
  <2> QED
    BY <1>3, <2>2, <2>6 DEF RefInv
<1>6. ASSUME NEW l \in Listeners, Notify(t, l) PROVE RefInv'
  <2>1. CallListener(t, l)
    BY <1>6 DEF Notify
  <2>2. DispatcherTypeOK' /\ \A m \in Listeners : Counted(m)' /\ DeletedLast(m)'
    BY <1>2, <2>1, GiveBackRefs DEF CallListener, Inv
  <2>3. calling \in [Notifiers -> SUBSET Listeners]
    BY DEF Inv, RefInv, DispatcherTypeOK
  <2>4. /\ calling'[t] = calling[t] \ {l} /\ \A u \in Notifiers : u # t => calling'[u] = calling[u]
        /\ handling[t].stage = "calling"
        /\ calling[t] # {l} => handling'[t] = handling[t]
    BY <1>6, <2>1, <2>3 DEF CallListener, Notify
  <2>5. CallingInv'
    BY <1>2, <2>4 DEF Inv, RefInv, CallingInv
  <2> QED
    BY <1>3, <2>2, <2>5 DEF RefInv
<1> QED
  BY <1>4, <1>5, <1>6 DEF Process

\* The destructor: when it purges no thread has a notification under way, so
\* that the lists hold all references there are.
LEMMA DestroyRefs ==
  ASSUME Inv, Destroy
  PROVE  RefInv'
<1>0. Notifiers = {"poller", "udp"} /\ None.stage = "none"
  BY ConstantsAssumption DEF None
<1>1. CASE StopPoller \/ StopListener
  <2>1. DispatcherTypeOK' /\ \A m \in Listeners : Counted(m)' /\ DeletedLast(m)'
    BY <1>1, DispatcherUnchanged DEF StopPoller, StopListener, ghosts, Inv
  <2>2. CallingInv' /\ ThreadInv'
    BY <1>0, <1>1 DEF StopPoller, StopListener, dispatcher, threads, ghosts, Inv, RefInv, CallingInv, ThreadInv
  <2> QED
    BY <2>1, <2>2 DEF RefInv
<1>2. CASE PurgeAllListeners
  <2>1. /\ Purge /\ UNCHANGED <<used, handling, poller, udp>> /\ dtor' \in {"aborted", "done"}
        /\ dtor = "udp" /\ handling["udp"] = None
    BY <1>2 DEF PurgeAllListeners, ghosts, threads
  <2>2. poller = "exited" /\ handling["poller"] = None
    BY <2>1 DEF Inv, RefInv, ThreadInv
  <2>3. \A m \in Listeners : Callers(m) = {}
    BY <1>0, <2>1, <2>2 DEF Inv, RefInv, CallingInv, Callers
  <2>4. /\ DispatcherTypeOK' /\ \A m \in Listeners : Counted(m)' /\ DeletedLast(m)'
        /\ used' \subseteq deleted'
    BY <2>1, <2>3, PurgeRefs DEF Inv, RestTypeOK
  <2>5. CallingInv'
    BY <2>1 DEF Purge, Inv, RefInv, CallingInv
  <2>6. ThreadInv'
    BY <2>1, <2>2, <2>4 DEF ThreadInv
  <2> QED
    BY <2>4, <2>5, <2>6 DEF RefInv
<1> QED
  BY <1>1, <1>2 DEF Destroy

LEMMA InitInv == Init => Inv
BY RestInit, InitRefs DEF Inv

LEMMA NextInv == Inv /\ [Next]_vars => Inv'
<1> SUFFICES ASSUME Inv, [Next]_vars PROVE Inv'
  OBVIOUS
<1>1. RestTypeOK'
  BY NextTypes DEF Inv
<1>2. ASSUME \/ \E k \in Keys, h \in Hosts : Change(k, h)
             \/ UNCHANGED vars
      PROVE  RefInv'
  <2>1. UNCHANGED <<dispatcher, handling, poller, udp, dtor, used>>
    BY <1>2 DEF Change, vars, threads, ghosts
  <2>2. DispatcherTypeOK' /\ \A m \in Listeners : Counted(m)' /\ DeletedLast(m)'
    BY <2>1, DispatcherUnchanged DEF Inv
  <2> QED
    BY <2>1, <2>2 DEF dispatcher, Inv, RefInv, CallingInv, ThreadInv
<1>3. RefInv'
  BY <1>2, CallRefs, ThreadRefs, ProcessRefs, DestroyRefs DEF Next
<1> QED
  BY <1>1, <1>3 DEF Inv

\* The inductive invariant.
THEOREM Invariant == Spec => []Inv
BY InitInv, NextInv, PTL DEF Spec

\* The types, for any constants: above all no reference count goes below zero.
THEOREM TypeCorrect == Spec => []TypeOK
<1>1. Inv => TypeOK
  BY TypesAreTypes DEF Inv, RefInv
<1> QED
  BY <1>1, Invariant, PTL

\* A listener has one reference for each list and each notification that holds
\* it, and is deleted when nothing does, whatever subscriptions, notifications
\* of the two threads and destruction go on at once (addListener,
\* removeListenerHelper, notifyDirectly, purgeAllListeners).
THEOREM ReferencesHeldHolds == Spec => []ReferencesHeld
<1>1. Inv => ReferencesHeld
  <2> SUFFICES ASSUME Inv, NEW l \in Listeners
               PROVE  refCount[l] = Holders(l) /\ (l \in deleted => Holders(l) = 0)
    BY DEF ReferencesHeld
  <2>1. Counted(l) /\ DeletedLast(l)
    BY DEF Inv, RefInv
  <2> QED
    BY <2>1, HoldersAre DEF Counted, DeletedLast
<1> QED
  BY <1>1, Invariant, PTL

\* A destruction that gets to its end has deleted every listener that was ever
\* subscribed (~NacosNamingService, purgeAllListeners).
THEOREM PurgeDeletesAllHolds == Spec => []PurgeDeletesAll
<1>1. Inv => PurgeDeletesAll
  BY DEF Inv, RefInv, ThreadInv, PurgeDeletesAll
<1> QED
  BY <1>1, Invariant, PTL

-----------------------------------------------------------------------------
(* The polling list. *)

\* The application does not subscribe to a service while it is half way through
\* the call that has unsubscribed the service's last listener.
NoCrossing ==
    \A a, b \in Apps :
        app[a].stage = "unpoll" /\ app[b].stage = "poll" => app[a].key # app[b].key

\* What is listened to is polled or about to be; what is about to be removed
\* from the polling list has no listener.
PollInv ==
    /\ dtor = "no" => \A k \in Keys : observerMap[k] # {} =>
           k \in pollingList \/ \E a \in Apps : app[a].stage = "poll" /\ app[a].key = k
    /\ \A a \in Apps : app[a].stage = "unpoll" => observerMap[app[a].key] = {}

LEMMA CallPolls ==
  ASSUME RestTypeOK, DispatcherTypeOK, PollInv, NoCrossing', NEW a \in Apps, Call(a) \/ Return(a)
  PROVE  PollInv'
<1>0. app \in [Apps -> {Idle} \cup AppCalls] /\ observerMap \in [Keys -> SUBSET Listeners] /\ Idle.stage = "idle"
  BY DEF RestTypeOK, DispatcherTypeOK, Idle
<1>1. ASSUME NEW k \in Keys, NEW l \in Listeners, Subscribe(a, k, l) PROVE PollInv'
  <2>1. /\ app'[a].stage = "poll" /\ app'[a].key = k /\ app[a] = Idle
        /\ \A b \in Apps \ {a} : app'[b] = app[b]
        /\ UNCHANGED <<pollingList, dtor>>
        /\ \A j \in Keys \ {k} : observerMap'[j] = observerMap[j]
    BY <1>0, <1>1 DEF Subscribe, CanCall, AddListener
  <2>2. ASSUME NEW b \in Apps, app'[b].stage = "unpoll" PROVE observerMap'[app'[b].key] = {}
    <3>1. b # a /\ app'[b] = app[b] /\ app[b] \in AppCalls
      BY <1>0, <2>1, <2>2, IdleFact
    <3>2. app[b].key \in Keys \ {k}
      BY <2>1, <2>2, <3>1 DEF NoCrossing, AppCalls
    <3> QED
      BY <2>1, <2>2, <3>1, <3>2 DEF PollInv
  <2>3. ASSUME dtor = "no", NEW j \in Keys, observerMap'[j] # {}
        PROVE  j \in pollingList \/ \E b \in Apps : app'[b].stage = "poll" /\ app'[b].key = j
    <3>1. CASE j = k
      BY <2>1, <3>1
    <3>2. CASE j # k
      <4>1. \A b \in Apps : app[b].stage = "poll" => app'[b] = app[b]
        BY <1>0, <2>1
      <4> QED
        BY <2>1, <2>3, <3>2, <4>1 DEF PollInv
    <3> QED
      BY <3>1, <3>2
  <2> QED
    BY <2>1, <2>2, <2>3 DEF PollInv
<1>2. ASSUME NEW k \in Keys, NEW l \in Listeners, Unsubscribe(a, k, l) PROVE PollInv'
  <2>1. /\ app[a] = Idle
        /\ \A b \in Apps \ {a} : app'[b] = app[b]
        /\ app'[a] = Idle \/ (app'[a].key = k /\ app'[a].stage = "unpoll" /\ observerMap[k] = {l})
        /\ UNCHANGED <<pollingList, dtor>>
        /\ observerMap'[k] = observerMap[k] \ {l}
        /\ \A j \in Keys \ {k} : observerMap'[j] = observerMap[j]
    BY <1>0, <1>2 DEF Unsubscribe, CanCall, RemoveListener
  <2>2. ASSUME NEW b \in Apps, app'[b].stage = "unpoll" PROVE observerMap'[app'[b].key] = {}
    <3>1. CASE b = a
      BY <1>0, <2>1, <2>2, <3>1
    <3>2. CASE b # a
      <4>1. app'[b] = app[b] /\ app[b] \in AppCalls
        BY <1>0, <2>1, <2>2, <3>2, IdleFact
      <4>2. app[b].key \in Keys /\ observerMap[app[b].key] = {}
        BY <2>2, <4>1 DEF AppCalls, PollInv
      <4> QED
        BY <2>1, <4>1, <4>2
    <3> QED
      BY <3>1, <3>2
  <2>3. \A b \in Apps : app[b].stage = "poll" => app'[b] = app[b]
    BY <1>0, <2>1
  <2>4. \A j \in Keys : observerMap'[j] # {} => observerMap[j] # {}
    BY <2>1
  <2> QED
    BY <2>1, <2>2, <2>3, <2>4 DEF PollInv
<1>3. CASE AddPollItem(a)
  <2>1. /\ app'[a] = Idle /\ \A b \in Apps \ {a} : app'[b] = app[b]
        /\ pollingList' = pollingList \cup {app[a].key} /\ UNCHANGED <<observerMap, dtor>>
    BY <1>0, <1>3 DEF AddPollItem, dispatcher
  <2> QED
    BY <1>0, <2>1 DEF PollInv
<1>4. CASE RemovePollItem(a)
  <2>1. /\ app'[a] = Idle /\ \A b \in Apps \ {a} : app'[b] = app[b]
        /\ app[a].stage = "unpoll"
        /\ pollingList' = pollingList \ {app[a].key} /\ UNCHANGED <<observerMap, dtor>>
    BY <1>0, <1>4 DEF RemovePollItem, dispatcher
  <2>2. observerMap[app[a].key] = {}
    BY <2>1 DEF PollInv
  <2> QED
    BY <1>0, <2>1, <2>2 DEF PollInv
<1> QED
  BY <1>1, <1>2, <1>3, <1>4 DEF Call, Return

LEMMA NextPolls == Inv /\ PollInv /\ NoCrossing' /\ [Next]_vars => PollInv'
<1> SUFFICES ASSUME Inv, PollInv, NoCrossing', [Next]_vars PROVE PollInv'
  OBVIOUS
<1>1. RestTypeOK /\ DispatcherTypeOK
  BY DEF Inv, RefInv
<1>2. CASE \E a \in Apps : Call(a) \/ Return(a)
  BY <1>1, <1>2, CallPolls
<1>3. CASE UNCHANGED <<observerMap, app, pollingList, dtor>>
  BY <1>3 DEF PollInv
<1>4. CASE Destroy
  <2>1. CASE StopPoller \/ StopListener
    BY <2>1 DEF StopPoller, StopListener, dispatcher, PollInv
  <2>2. CASE PurgeAllListeners
    <3>1. /\ observerMap' = [k \in Keys |-> {}] /\ UNCHANGED app /\ dtor' # "no"
      BY <2>2 DEF PurgeAllListeners, Purge
    <3>2. \A a \in Apps : app[a].stage = "unpoll" => app[a].key \in Keys
      BY <1>1, IdleFact DEF RestTypeOK, AppCalls
    <3> QED
      BY <3>1, <3>2 DEF PollInv
  <2> QED
    BY <1>4, <2>1, <2>2 DEF Destroy
<1>5. ASSUME NEW t \in Notifiers, Process(t) PROVE UNCHANGED <<observerMap, app, pollingList, dtor>>
  BY <1>5 DEF Process, StoreInfo, BeginNotify, Notify, CopyListeners, CallListener, GiveBack, dispatcher
<1>6. ASSUME \/ \E k \in Keys, h \in Hosts : Change(k, h)
             \/ Poll \/ BeginReceive \/ Datagram \/ ReceiveFails
             \/ UNCHANGED vars
      PROVE  UNCHANGED <<observerMap, app, pollingList, dtor>>
  BY <1>6 DEF Change, Poll, CopyPollingList, QueryAnswered, QueryFails, EndScan, ExitPoller, BeginReceive,
     Datagram, Receive, ReceiveFails, vars, dispatcher
<1> QED
  BY <1>2, <1>3, <1>4, <1>5, <1>6 DEF Next

\* A service that somebody listens to, and that no call is half way through, is
\* polled, unless the application subscribes to a service while it is half way
\* through the unsubscription of its last listener (subscribe, unsubscribe,
\* addPollItem, removePollItem).
THEOREM ListenedIsPolledHolds == Spec /\ []NoCrossing => []ListenedIsPolled
<1>1. Init => PollInv
  BY DEF Init, DispatcherInit, Idle, PollInv
<1>2. PollInv => ListenedIsPolled
  BY DEF PollInv, ListenedIsPolled, Idle
<1> QED
  BY <1>1, <1>2, NextPolls, Invariant, PTL DEF Spec

\* One thread that subscribes and unsubscribes does not cross itself.
THEOREM OneThreadIsPolled ==
  ASSUME \A a, b \in Apps : a = b
  PROVE  Spec => []ListenedIsPolled
<1>1. NoCrossing
  BY DEF NoCrossing
<1> QED
  BY <1>1, ListenedIsPolledHolds, PTL

-----------------------------------------------------------------------------
(* Changes that are to be told. *)

Times == [Keys -> [Listeners -> Nat]]

DueInv == due \in Times /\ heard \in Times /\ ChangeInHand

\* A change stays in hand while its thread keeps to it.
LEMMA InHandKept ==
  ASSUME NEW t, NEW k, NEW l, InHand(t, k, l), handling'[t] = handling[t], due'[k][l] = due[k][l],
         calling'[t] = calling[t]
  PROVE  InHand(t, k, l)'
BY DEF InHand

\* A step that neither stores nor tells, of a thread that holds nothing.
LEMMA DueKept ==
  ASSUME DueInv, NEW t \in Notifiers, UNCHANGED <<due, heard, observerMap, calling>>,
         handling[t].stage \notin {"changed", "calling"} \/ handling'[t] = handling[t],
         \A u \in Notifiers \ {t} : handling'[u] = handling[u]
  PROVE  DueInv'
<1>1. ASSUME NEW k \in Keys, NEW l \in Listeners, NEW u \in Notifiers, InHand(u, k, l) PROVE InHand(u, k, l)'
  BY <1>1, InHandKept DEF InHand
<1> QED
  BY <1>1 DEF DueInv, ChangeInHand

LEMMA CallDue ==
  ASSUME Inv, DueInv, NEW a \in Apps, Call(a) \/ Return(a)
  PROVE  DueInv'
<1>0. observerMap \in [Keys -> SUBSET Listeners] /\ due \in Times /\ heard \in Times
  BY DEF Inv, RefInv, DispatcherTypeOK, DueInv
<1>1. ASSUME NEW k \in Keys, NEW l \in Listeners, Subscribe(a, k, l) PROVE DueInv'
  <2>1. UNCHANGED <<due, heard, calling, handling>> /\ \A j \in Keys : observerMap[j] \subseteq observerMap'[j]
    BY <1>0, <1>1 DEF Subscribe, AddListener
  <2>2. ASSUME NEW j \in Keys, NEW m \in Listeners, NEW t \in Notifiers, InHand(t, j, m) PROVE InHand(t, j, m)'
    BY <2>1, <2>2, InHandKept
  <2> QED
    BY <2>1, <2>2 DEF DueInv, ChangeInHand
<1>2. ASSUME NEW k \in Keys, NEW l \in Listeners, Unsubscribe(a, k, l) PROVE DueInv'
  <2>1. /\ UNCHANGED <<heard, calling, handling>> /\ due' = [due EXCEPT ![k][l] = 0]
        /\ \A j \in Keys, m \in Listeners : <<j, m>> # <<k, l>> /\ m \in observerMap[j] => m \in observerMap'[j]
    BY <1>0, <1>2 DEF Unsubscribe, RemoveListener, GiveBack
  <2>2. due' \in Times /\ due'[k][l] = 0
        /\ \A j \in Keys, m \in Listeners : <<j, m>> # <<k, l>> => due'[j][m] = due[j][m]
    BY <1>0, <2>1 DEF Times
  <2>3. ASSUME NEW j \in Keys, NEW m \in Listeners, due'[j][m] > heard'[j][m]
        PROVE  m \in observerMap'[j] /\ \E t \in Notifiers : InHand(t, j, m)'
    <3>1. <<j, m>> # <<k, l>>
      BY <1>0, <2>1, <2>2, <2>3 DEF Times
    <3>2. m \in observerMap[j] /\ \E t \in Notifiers : InHand(t, j, m)
      BY <2>1, <2>2, <2>3, <3>1 DEF DueInv, ChangeInHand
    <3> QED
      BY <2>1, <2>2, <3>1, <3>2, InHandKept
  <2> QED
    BY <1>0, <2>1, <2>2, <2>3 DEF DueInv, ChangeInHand
<1>3. CASE Return(a)
  <2>1. UNCHANGED <<due, heard, observerMap, calling, handling>> /\ Notifiers # {}
    BY <1>3, ConstantsAssumption DEF Return, AddPollItem, RemovePollItem, dispatcher, ghosts
  <2> QED
    BY <2>1, DueKept
<1> QED
  BY <1>1, <1>2, <1>3 DEF Call

LEMMA ThreadDue ==
  ASSUME Inv, DueInv,
         \/ Poll \/ BeginReceive \/ Datagram \/ ReceiveFails
         \/ \E k \in Keys, h \in Hosts : Change(k, h)
         \/ StopPoller \/ StopListener
         \/ UNCHANGED vars
  PROVE  DueInv'
<1>1. /\ "poller" \in Notifiers /\ "udp" \in Notifiers /\ None.stage = "none"
      /\ handling \in [Notifiers -> {None} \cup Works]
  BY ConstantsAssumption DEF Inv, RestTypeOK, None
<1>2. UNCHANGED <<due, heard, observerMap, calling>>
  BY DEF Poll, CopyPollingList, QueryAnswered, QueryFails, EndScan, ExitPoller, BeginReceive, Datagram, Receive,
     ReceiveFails, Change, StopPoller, StopListener, vars, dispatcher, ghosts
<1>3. ASSUME NEW t \in Notifiers, NEW k, NEW info, Handle(t, k, info), handling[t] = None PROVE DueInv'
  <2>1. \A u \in Notifiers \ {t} : handling'[u] = handling[u]
    BY <1>1, <1>3 DEF Handle
  <2> QED
    BY <1>1, <1>2, <1>3, <2>1, DueKept
<1>4. ASSUME NEW k \in Keys, QueryAnswered(k) PROVE DueInv'
  BY <1>1, <1>3, <1>4 DEF QueryAnswered
<1>5. ASSUME NEW k \in Keys, NEW info \in Reactor!Infos, Receive(k, info) PROVE DueInv'
  <2>1. handling["udp"] = None
    BY <1>5 DEF Receive, Inv, RefInv, ThreadInv
  <2> QED
    BY <1>1, <1>3, <1>5, <2>1 DEF Receive
<1>6. ASSUME UNCHANGED handling PROVE DueInv'
  BY <1>1, <1>2, <1>6, DueKept
<1>7. ASSUME \/ CopyPollingList \/ \E k \in Keys : QueryFails(k)
             \/ EndScan \/ ExitPoller \/ BeginReceive \/ ReceiveFails
             \/ \E k \in Keys, h \in Hosts : Change(k, h)
             \/ StopPoller \/ StopListener
             \/ UNCHANGED vars
      PROVE  UNCHANGED handling
  BY <1>7 DEF CopyPollingList, QueryFails, EndScan, ExitPoller, BeginReceive, ReceiveFails, Change,
     StopPoller, StopListener, vars
<1> QED
  BY <1>4, <1>5, <1>6, <1>7 DEF Poll, Datagram

\* Whoever stores a change takes it in hand for all who observe the service.
LEMMA StoreDue ==
  ASSUME Inv, DueInv, NEW t \in Notifiers, StoreInfo(t)
  PROVE  DueInv'
<1>0. /\ handling[t] \in Works /\ handling[t].stage = "got"
      /\ handling \in [Notifiers -> {None} \cup Works]
      /\ observerMap \in [Keys -> SUBSET Listeners] /\ due \in Times /\ heard \in Times
  BY WorkFact DEF StoreInfo, Inv, RestTypeOK, RefInv, DispatcherTypeOK, DueInv
<1>1. PICK k, new, old : k = handling[t].key /\ new = handling[t].info /\ old = serviceInfoMap[k]
  OBVIOUS
<1>2. k \in Keys /\ new \in Reactor!Infos /\ new.time \in Nat
  BY <1>0, <1>1, ConstantsAssumption DEF Works, Reactor!Infos
<1>3. /\ UNCHANGED <<observerMap, calling, heard>>
      /\ \A u \in Notifiers \ {t} : handling'[u] = handling[u]
  BY <1>0 DEF StoreInfo, dispatcher
<1>4. ASSUME NEW j \in Keys, NEW l \in Listeners, NEW u \in Notifiers, InHand(u, j, l), due'[j][l] = due[j][l]
      PROVE  InHand(u, j, l)'
  <2>1. u # t
    BY <1>0, <1>4 DEF InHand
  <2> QED
    BY <1>3, <1>4, <2>1, InHandKept
<1>5. CASE Reactor!Ignored(old, new) \/ old.hosts = new.hosts
  <2>1. due' = due
    BY <1>1, <1>5 DEF StoreInfo
  <2> QED
    BY <1>3, <1>4, <2>1 DEF DueInv, ChangeInHand
<1>6. CASE ~Reactor!Ignored(old, new) /\ old.hosts # new.hosts
  <2>1. due' = [due EXCEPT ![k] = [l \in Listeners |-> IF l \in observerMap[k] THEN new.time ELSE due[k][l]]]
    BY <1>1, <1>6 DEF StoreInfo
  <2>2. /\ due' \in Times
        /\ \A j \in Keys, l \in Listeners :
              due'[j][l] = IF j = k /\ l \in observerMap[k] THEN new.time ELSE due[j][l]
    BY <1>0, <1>2, <2>1 DEF Times
  <2>3. handling' = [handling EXCEPT ![t] = [handling[t] EXCEPT !.stage = "changed"]]
    BY <1>1, <1>6 DEF StoreInfo, Reactor!Changed
  <2>4. handling'[t].stage = "changed" /\ handling'[t].key = k /\ handling'[t].info = new
    BY <1>0, <1>1, <2>3 DEF Works
  <2>5. ASSUME NEW j \in Keys, NEW l \in Listeners, due'[j][l] > heard'[j][l]
        PROVE  l \in observerMap'[j] /\ \E u \in Notifiers : InHand(u, j, l)'
    <3>1. CASE j = k /\ l \in observerMap[k]
      BY <1>3, <2>2, <2>4, <3>1 DEF InHand
    <3>2. CASE ~(j = k /\ l \in observerMap[k])
      <4>1. due'[j][l] = due[j][l]
        BY <2>2, <3>2
      <4> QED
        BY <1>3, <1>4, <2>5, <4>1 DEF DueInv, ChangeInHand
    <3> QED
      BY <3>1, <3>2
  <2> QED
    BY <1>0, <1>3, <2>2, <2>5 DEF DueInv, ChangeInHand
<1> QED
  BY <1>5, <1>6

\* The copy has everybody the change is due for.
LEMMA BeginDue ==
  ASSUME Inv, DueInv, NEW t \in Notifiers, BeginNotify(t)
  PROVE  DueInv'
<1>0. /\ handling[t] \in Works /\ handling[t].stage = "changed"
      /\ handling \in [Notifiers -> {None} \cup Works]
      /\ calling \in [Notifiers -> SUBSET Listeners]
  BY WorkFact DEF BeginNotify, Inv, RestTypeOK, RefInv, DispatcherTypeOK
<1>1. PICK k : k = handling[t].key
  OBVIOUS
<1>2. /\ UNCHANGED <<observerMap, due, heard>>
      /\ \A u \in Notifiers \ {t} : handling'[u] = handling[u] /\ calling'[u] = calling[u]
      /\ calling'[t] = observerMap[k]
      /\ observerMap[k] # {} => handling'[t] = [handling[t] EXCEPT !.stage = "calling"]
  BY <1>0, <1>1 DEF BeginNotify, CopyListeners, ghosts
<1>3. observerMap[k] # {} => /\ handling'[t].stage = "calling" /\ handling'[t].key = k
                             /\ handling'[t].info = handling[t].info
  BY <1>0, <1>1, <1>2 DEF Works
<1>4. ASSUME NEW j \in Keys, NEW l \in Listeners, NEW u \in Notifiers, InHand(u, j, l), l \in observerMap[j]
      PROVE  InHand(u, j, l)'
  <2>1. CASE u = t
    BY <1>1, <1>2, <1>3, <1>4, <2>1 DEF InHand
  <2>2. CASE u # t
    BY <1>2, <1>4, <2>2, InHandKept
  <2> QED
    BY <2>1, <2>2
<1> QED
  BY <1>2, <1>4 DEF DueInv, ChangeInHand

\* Who has been told has heard of everything this thread had in hand for it.
LEMMA NotifyDue ==
  ASSUME Inv, DueInv, NEW t \in Notifiers, NEW l \in Listeners, Notify(t, l)
  PROVE  DueInv'
<1>0. /\ handling[t] \in Works /\ handling[t].stage = "calling"
      /\ handling \in [Notifiers -> {None} \cup Works]
      /\ calling \in [Notifiers -> SUBSET Listeners] /\ due \in Times /\ heard \in Times
  BY WorkFact DEF Notify, Inv, RestTypeOK, RefInv, DispatcherTypeOK, DueInv
<1>1. PICK k, time : k = handling[t].key /\ time = handling[t].info.time
  OBVIOUS
<1>2. k \in Keys /\ time \in Nat
  BY <1>0, <1>1, ConstantsAssumption DEF Works, Reactor!Infos
<1>3. /\ UNCHANGED <<observerMap, due>>
      /\ \A u \in Notifiers \ {t} : handling'[u] = handling[u] /\ calling'[u] = calling[u]
      /\ calling'[t] = calling[t] \ {l} /\ (calling[t] # {l} => handling'[t] = handling[t])
      /\ heard' = [heard EXCEPT ![k][l] = IF time > @ THEN time ELSE @]
  BY <1>0, <1>1 DEF Notify, CallListener, GiveBack
<1>4. /\ heard' \in Times /\ heard'[k][l] >= time
      /\ \A j \in Keys, m \in Listeners : heard'[j][m] >= heard[j][m]
  BY <1>0, <1>2, <1>3 DEF Times
<1>5. ASSUME NEW j \in Keys, NEW m \in Listeners, due[j][m] > heard'[j][m]
      PROVE  m \in observerMap[j] /\ \E u \in Notifiers : InHand(u, j, m)'
  <2>1. /\ due[j][m] > heard[j][m] /\ due[j][m] \in Nat /\ heard[j][m] \in Nat /\ heard'[j][m] \in Nat
        /\ heard'[k][l] \in Nat
    BY <1>0, <1>2, <1>4, <1>5 DEF Times
  <2>2. PICK u \in Notifiers : InHand(u, j, m)
    BY <2>1 DEF DueInv, ChangeInHand
  <2>3. InHand(u, j, m)'
    <3>1. CASE u = t
      <4>1. j = k /\ m \in calling[t] /\ time = due[j][m]
        BY <1>0, <1>1, <2>2, <3>1 DEF InHand
      <4>2. m # l
        BY <1>2, <1>4, <1>5, <2>1, <4>1
      <4> QED
        BY <1>3, <2>2, <3>1, <4>1, <4>2 DEF InHand
    <3>2. CASE u # t
      BY <1>3, <2>2, <3>2, InHandKept
    <3> QED
      BY <3>1, <3>2
  <2> QED
    BY <2>1, <2>3 DEF DueInv, ChangeInHand
<1> QED
  BY <1>0, <1>3, <1>4, <1>5 DEF DueInv, ChangeInHand

\* When the destructor purges no change is in hand any more, so that none is due.
LEMMA PurgeDue ==
  ASSUME Inv, DueInv, PurgeAllListeners
  PROVE  DueInv'
<1>1. UNCHANGED <<due, heard>> /\ handling["udp"] = None /\ dtor = "udp"
  BY DEF PurgeAllListeners, ghosts
<1>2. \A t \in Notifiers : handling[t] = None
  BY <1>1, ConstantsAssumption DEF Inv, RefInv, ThreadInv
<1>3. \A k \in Keys, l \in Listeners : ~(due[k][l] > heard[k][l])
  BY <1>2 DEF DueInv, ChangeInHand, InHand, None
<1> QED
  BY <1>1, <1>3 DEF DueInv, ChangeInHand

LEMMA NextDue == Inv /\ DueInv /\ [Next]_vars => DueInv'
BY CallDue, ThreadDue, StoreDue, BeginDue, NotifyDue, PurgeDue DEF Next, Process, Destroy

\* A stored change that a listener has still to be told is in the hands of the
\* thread that stored it, whatever the other thread, subscriptions,
\* unsubscriptions and the destruction do meanwhile (processServiceJson,
\* notifyDirectly).
THEOREM ChangeInHandHolds == Spec => []ChangeInHand
<1>1. Init => DueInv
  BY DEF Init, DueInv, Times, ChangeInHand
<1>2. DueInv => ChangeInHand
  BY DEF DueInv
<1> QED
  BY <1>1, <1>2, NextDue, Invariant, PTL DEF Spec
================================================================================
