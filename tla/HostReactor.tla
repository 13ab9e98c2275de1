------------------------------ MODULE HostReactor ------------------------------
(***************************************************************************)
(* HostReactor::processServiceJson and ChangeAdvice::compareChange: what   *)
(* the client knows of each service, and which answers of the server       *)
(* change it.  An answer is [hosts, time]: hosts stands for the instances  *)
(* with all their attributes, 0 for none at all, and time is lastRefTime.  *)
(***************************************************************************)
EXTENDS Integers

CONSTANTS
    ServiceKeys,  \* grouped service name and clusters
    Hosts,        \* the sets of instances a service can have; 0: none
    MaxTime       \* lastRefTime is in 1..MaxTime

VARIABLE serviceInfoMap

NoEntry == [hosts |-> 0, time |-> 0]
Infos == [hosts : Hosts, time : 0..MaxTime]

ReactorTypeOK == serviceInfoMap \in [ServiceKeys -> Infos]
ReactorInit == serviceInfoMap = [k \in ServiceKeys |-> NoEntry]

\* What processServiceJson() does not store: an empty service it does not
\* know, and an answer that is not newer than what it has.
Ignored(old, new) == IF old = NoEntry THEN new.hosts = 0 ELSE old.time >= new.time

\* Mutant: an instance that was removed is no change.
Changed_NotRemoved(old, new) == old.hosts # new.hosts /\ new.hosts # 0

\* A new service, or one compareChange() finds modified, added or removed.
Changed(old, new) == old = NoEntry \/ old.hosts # new.hosts

Store(k, new) == serviceInfoMap' = [serviceInfoMap EXCEPT ![k] = new]
================================================================================
