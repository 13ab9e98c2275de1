----------------------------- MODULE RequestsProofs -----------------------------
(***************************************************************************)
(* Proofs, for any servers, lists, threads and bounds: the types, and that *)
(* neither a request nor a login gives up before it has asked each server. *)
(***************************************************************************)
EXTENDS Requests, TLAPS

-----------------------------------------------------------------------------
(* A walk round a list.  Of the servers, numbered from 0, n are left, from *)
(* first on; after the last comes the first.                               *)

Left(servers, first, n, p) ==
    p \in first..(first + n - 1) \/ p + Len(servers) \in first..(first + n - 1)

\* The servers of the set S that the list has are all left.
AllLeft(servers, S, first, n) ==
    \A p \in 0..(Len(servers) - 1) : servers[p + 1] \in S => Left(servers, first, n, p)

NextPlace(servers, first) == IF first + 1 = Len(servers) THEN 0 ELSE first + 1

\* What % does to less than two rounds.
LEMMA Round ==
  ASSUME NEW n \in Nat \ {0}, NEW i \in 0..(2 * n - 1)
  PROVE  i % n = IF i < n THEN i ELSE i - n
<1>1. CASE i < n
  <2>1. i % n = i
    BY <1>1
  <2> QED
    BY <1>1, <2>1
<1>2. CASE i >= n
  <2>1. i = 1 * n + (i - n) /\ 0 <= i - n /\ i - n < n
    BY <1>2
  <2>2. i % n = i - n
    BY <2>1
  <2> QED
    BY <1>2, <2>2
<1> QED
  BY <1>1, <1>2

LEMMA ListFact ==
  ASSUME NEW s \in Lists
  PROVE  Len(s) \in Nat \ {0} /\ s \in [1..Len(s) -> Addresses]
BY DEF Lists

LEMMA AllLeftAtFirst ==
  ASSUME NEW s \in Lists, NEW S, NEW first \in 0..(Len(s) - 1)
  PROVE  AllLeft(s, S, first, Len(s))
BY ListFact DEF AllLeft, Left

LEMMA OneLess ==
  ASSUME NEW s \in Lists, NEW S, NEW first \in 0..(Len(s) - 1), NEW n \in 1..Len(s),
         AllLeft(s, S, first, n), s[first + 1] \notin S
  PROVE  AllLeft(s, S, NextPlace(s, first), n - 1)
BY ListFact DEF AllLeft, Left, NextPlace

LEMMA NoneLeft ==
  ASSUME NEW s \in Lists, NEW S, NEW first \in 0..(Len(s) - 1), AllLeft(s, S, first, 0)
  PROVE  Range(s) \cap S = {}
<1> SUFFICES ASSUME NEW i \in 1..Len(s), s[i] \in S PROVE FALSE
  BY ListFact DEF Range
<1>1. i - 1 \in 0..(Len(s) - 1) /\ (i - 1) + 1 = i
  BY ListFact
<1>2. Left(s, first, 0, i - 1)
  BY <1>1 DEF AllLeft
<1> QED
  BY <1>1, <1>2, ListFact DEF Left

LEMMA FewerLeft ==
  ASSUME NEW s, NEW S, NEW T, NEW first, NEW n, AllLeft(s, S, first, n), T \subseteq S
  PROVE  AllLeft(s, T, first, n)
BY DEF AllLeft

-----------------------------------------------------------------------------
(* Types. *)

Kinds == {"older", "current", "expired"}
Pulling == [state : {"none", "send", "wait", "sleep", "ended"}]
Pulled == [state : {"compare", "write"}, list : Lists]
Logins == [state : {"try"}, servers : Lists, start : Nat, tries : Nat, steady : SUBSET Servers]
Copies == [state : {"copied"}, servers : Lists, steady : SUBSET Servers]
Sends == [state : {"send", "wait", "failed", "noServer"}, servers : Lists, at : Nat,
          tries : Nat, tokens : SUBSET Kinds, steady : SUBSET Servers]

\* TypeOK without the requests, and with them.
RestTypeOK ==
    /\ up \in SUBSET Servers /\ page \in Pages
    /\ serverList \in Lists /\ domain \in Addresses
    /\ puller \in Pulling \cup Pulled
    /\ token \in {"none", "current", "expired"}
    /\ login \in {Off} \cup Logins
    /\ refresher \in {"none", "ttl", "login", "pause", "ended"}
    /\ client \in {"new", "failed", "up", "stopping", "pulling", "stopped", "aborted"}
    /\ outages \in 0..MaxOutages /\ pages \in 0..MaxPages

RequestTypeOK == request \in [Threads -> {Idle} \cup Copies \cup Sends]

\* There is a token once the service is up, and there are requests only then.
TokenInv ==
    /\ client \notin {"new", "failed", "aborted"} => token # "none"
    /\ \A t \in Threads : request[t] # Idle => client \in {"up", "aborted"}

Types == RestTypeOK /\ RequestTypeOK /\ TokenInv

LEMMA TypesAreTypes == Types => TypeOK
BY DEF Types, RestTypeOK, RequestTypeOK, TypeOK, Pulling, Pulled, Logins, Copies, Sends, Kinds

LEMMA PageFact == Pages \subseteq Lists
BY ConstantsAssumption DEF Lists, Addresses

LEMMA PullerFact ==
  \A p \in Pulling \cup Pulled : p.state \in {"compare", "write"} => p \in Pulled /\ p.list \in Lists
BY DEF Pulling, Pulled

LEMMA LoginFact ==
  /\ Off \notin Logins
  /\ \A l \in Logins : /\ l.servers \in Lists /\ l.start \in Nat /\ l.tries \in Nat /\ l.steady \subseteq Servers
BY DEF Off, Logins

LEMMA RequestFact ==
  \A r \in {Idle} \cup Copies \cup Sends :
    /\ r.state = "idle" <=> r = Idle
    /\ r.state = "copied" <=> r \in Copies
    /\ r.state \notin {"idle", "copied"} <=> r \in Sends
BY DEF Idle, Copies, Sends

LEMMA TypesInit == Init => Types
BY PageFact, ListFact, ConstantsAssumption
DEF Init, Types, RestTypeOK, RequestTypeOK, TokenInv, Pulling, Addresses, Lists

\* The servers and the address server.
LEMMA WorldTypes ==
  ASSUME Types, \/ \E s \in Servers : GoDown(s) \/ ComeUp(s)
                \/ \E p \in Pages : ChangePage(p)
  PROVE  Types'
<1>1. ASSUME NEW s \in Servers, GoDown(s) PROVE Types'
  <2>1. login' \in {Off} \cup Logins
    BY <1>1, LoginFact DEF GoDown, Types, RestTypeOK, Logins
  <2>2. RequestTypeOK' /\ \A t \in Threads : request[t] = Idle => request'[t] = Idle
    <3> SUFFICES ASSUME NEW t \in Threads, request[t] # Idle
                 PROVE  [request[t] EXCEPT !.steady = @ \ {s}] \in Copies \cup Sends
      BY <1>1 DEF GoDown, Types, RequestTypeOK
    <3>1. CASE request[t] \in Copies
      BY <3>1 DEF Copies
    <3>2. CASE request[t] \in Sends
      BY <3>2 DEF Sends
    <3> QED
      BY <3>1, <3>2 DEF Types, RequestTypeOK
  <2> QED
    BY <1>1, <2>1, <2>2, ConstantsAssumption DEF GoDown, Types, RestTypeOK, TokenInv
<1>2. ASSUME NEW s \in Servers, ComeUp(s) PROVE Types'
  BY <1>2 DEF ComeUp, Types, RestTypeOK, RequestTypeOK, TokenInv
<1>3. ASSUME NEW p \in Pages, ChangePage(p) PROVE Types'
  BY <1>3, ConstantsAssumption DEF ChangePage, Types, RestTypeOK, RequestTypeOK, TokenInv
<1> QED
  BY <1>1, <1>2, <1>3

\* Tokens grow old; who has none gets none.
LEMMA TokensTypes ==
  ASSUME Types, NEW f \in [Kinds -> Kinds], Tokens(f)
  PROVE  /\ RequestTypeOK'
         /\ \A t \in Threads : /\ request[t] = Idle => request'[t] = Idle
                               /\ request[t] \notin Sends => request'[t] = request[t]
                               /\ request[t] \in Sends =>
                                    /\ request'[t] \in Sends
                                    /\ request'[t] = [request[t] EXCEPT !.tokens = {f[k] : k \in @}]
<1>1. ASSUME NEW t \in Threads, request[t] \in Sends
      PROVE  [request[t] EXCEPT !.tokens = {f[k] : k \in @}] \in Sends
  <2>1. {f[k] : k \in request[t].tokens} \in SUBSET Kinds
    BY <1>1 DEF Sends
  <2> QED
    BY <1>1, <2>1 DEF Sends
<1>2. \A t \in Threads : /\ request[t] \notin Sends => request'[t] = request[t]
                         /\ request[t] \in Sends =>
                              request'[t] = [request[t] EXCEPT !.tokens = {f[k] : k \in @}]
  BY RequestFact DEF Tokens, Types, RequestTypeOK
<1>3. Idle \notin Sends
  BY DEF Idle, Sends
<1> QED
  BY <1>1, <1>2, <1>3 DEF Tokens, Types, RequestTypeOK

\* The three changes the tokens of a request go through.
Expired == [k \in {"older", "current", "expired"} |-> "expired"]
OlderExpired == [older |-> "expired", current |-> "current", expired |-> "expired"]
CurrentOlder == [older |-> "older", current |-> "older", expired |-> "expired"]

LEMMA Ageing ==
  \A f \in {Expired, OlderExpired, CurrentOlder} : f \in [Kinds -> Kinds] /\ f["expired"] = "expired"
BY DEF Expired, OlderExpired, CurrentOlder, Kinds

LEMMA ExpireTypes ==
  ASSUME Types, Expire
  PROVE  Types'
<1>1. /\ RequestTypeOK'
      /\ \A t \in Threads : request'[t] # Idle => request[t] # Idle
  <2>1. Tokens(Expired) \/ Tokens(OlderExpired)
    BY DEF Expire, Expired, OlderExpired
  <2> QED
    BY <2>1, Ageing, TokensTypes
<1> QED
  BY <1>1 DEF Expire, world, Types, RestTypeOK, TokenInv

LEMMA SecurityTypes ==
  ASSUME Types, Security
  PROVE  Types'
<1>1. CASE BeginLogin
  <2>1. ASSUME NEW start \in 0..(Len(serverList) - 1)
        PROVE  [state |-> "try", servers |-> serverList, start |-> start, tries |-> 0,
                steady |-> up \cap Range(serverList)] \in Logins
    BY ListFact DEF Types, RestTypeOK, Logins
  <2> QED
    BY <1>1, <2>1 DEF BeginLogin, world, Types, RestTypeOK, RequestTypeOK, TokenInv
<1>2. CASE LoginSucceeds
  <2>1. RequestTypeOK' /\ \A t \in Threads : request'[t] # Idle => request[t] # Idle
    <3>1. Tokens(CurrentOlder)
      BY <1>2 DEF LoginSucceeds, CurrentOlder
    <3> QED
      BY <3>1, Ageing, TokensTypes
  <2> QED
    BY <1>2, <2>1 DEF LoginSucceeds, world, Types, RestTypeOK, TokenInv
<1>3. CASE LoginFails
  <2>1. login' \in Logins
    BY <1>3, LoginFact DEF LoginFails, Locked, Types, RestTypeOK, Logins
  <2> QED
    BY <1>3, <2>1 DEF LoginFails, world, Types, RestTypeOK, RequestTypeOK, TokenInv
<1>4. CASE LoginGivesUp \/ Wake \/ EndPause
  BY <1>4 DEF LoginGivesUp, Wake, EndPause, world, Types, RestTypeOK, RequestTypeOK, TokenInv
<1> QED
  BY <1>1, <1>2, <1>3, <1>4 DEF Security

LEMMA PullTypes ==
  ASSUME Types, PullSend \/ Pull \/ PullFails \/ Destroy \/ StopPuller \/ Stopped
  PROVE  Types'
<1>1. CASE PullSend \/ PullFails \/ Destroy \/ StopPuller \/ Stopped \/ PullAgain
  BY <1>1 DEF PullSend, PullFails, Destroy, StopPuller, Stopped, PullAgain, world, Types, RestTypeOK, RequestTypeOK,
     TokenInv, Pulling
<1>2. CASE PullAnswer
  <2>1. puller' \in Pulled
    BY <1>2, PageFact DEF PullAnswer, Explode, Pulled, Types, RestTypeOK
  <2> QED
    BY <1>2, <2>1 DEF PullAnswer, world, Types, RestTypeOK, RequestTypeOK, TokenInv
<1>3. CASE PullCompare
  <2>1. puller' \in Pulling \cup Pulled
    <3>1. puller \in Pulled
      BY <1>3, PullerFact DEF PullCompare, Types, RestTypeOK
    <3> QED
      BY <1>3, <3>1 DEF PullCompare, Pulling, Pulled
  <2> QED
    BY <1>3, <2>1 DEF PullCompare, world, Types, RestTypeOK, RequestTypeOK, TokenInv
<1>4. CASE PullWrite
  BY <1>4, PullerFact DEF PullWrite, world, Types, RestTypeOK, RequestTypeOK, TokenInv, Pulling
<1> QED
  BY <1>1, <1>2, <1>3, <1>4 DEF Pull

LEMMA TriesFact ==
  ASSUME NEW servers \in Lists, NEW start \in Nat, NEW steady \in SUBSET Servers
  PROVE  Tries(servers, start, steady) \in Sends
BY DEF Tries, Sends

LEMMA MoveTypes ==
  ASSUME Types, NEW t \in Threads, NEW r \in {Idle} \cup Copies \cup Sends, Move(t, r),
         r = Idle \/ client \in {"up", "aborted"}
  PROVE  Types'
BY DEF Move, world, Types, RestTypeOK, RequestTypeOK, TokenInv

LEMMA TryFact ==
  ASSUME NEW r \in Sends, NEW state \in {"failed", "send"}, NEW at \in Nat, NEW tries \in Nat
  PROVE  [r EXCEPT !.state = state, !.at = at, !.tries = tries] \in Sends
BY DEF Sends

\* A request whose list is empty cannot be: a page has a line at least.
LEMMA CountMoves ==
  ASSUME Types, NEW t \in Threads, Count(t)
  PROVE  /\ request[t] \in Copies
         /\ \E random \in 0..Len(request[t].servers) :
                LET first == random % Len(request[t].servers)
                IN  /\ first \in 0..(Len(request[t].servers) - 1)
                    /\ Move(t, Tries(request[t].servers, first, request[t].steady))
<1>1. request[t] \in Copies
  BY RequestFact DEF Count, Types, RequestTypeOK
<1>2. request[t].servers \in Lists /\ Len(request[t].servers) \in Nat \ {0}
  BY <1>1, ListFact DEF Copies
<1>3. serverList # <<>>
  BY DEF Types, RestTypeOK, Lists
<1>4. PICK random \in 0..Len(request[t].servers) :
         Move(t, Tries(request[t].servers, random % Len(request[t].servers), request[t].steady))
  BY <1>2, <1>3 DEF Count
<1>5. random % Len(request[t].servers) \in 0..(Len(request[t].servers) - 1)
  <2> DEFINE n == Len(request[t].servers)
  <2>1. n \in Nat \ {0} /\ random \in 0..n
    BY <1>2
  <2> HIDE DEF n
  <2>2. random \in 0..(2 * n - 1)
    BY <2>1
  <2>3. random % n = IF random < n THEN random ELSE random - n
    BY <2>1, <2>2, Round
  <2>4. random % n \in 0..(n - 1)
    BY <2>1, <2>3
  <2> QED
    BY <2>4 DEF n
<1> QED
  BY <1>1, <1>4, <1>5

LEMMA RequestTypes ==
  ASSUME Types, NEW t \in Threads, client # "aborted",
         NamingRequest(t) \/ ConfigRequest(t) \/ Send(t) \/ Progress(t)
  PROVE  Types'
<1>0. request[t] \in {Idle} \cup Copies \cup Sends /\ (request[t] # Idle => client = "up" /\ token # "none")
  BY DEF Types, RequestTypeOK, TokenInv
<1>1. CASE NamingRequest(t)
  <2>1. [state |-> "copied", servers |-> serverList, steady |-> up \cap Range(serverList)] \in Copies
    BY DEF Copies, Types, RestTypeOK
  <2> QED
    BY <1>1, <2>1, MoveTypes DEF NamingRequest
<1>2. CASE ConfigRequest(t)
  <2>1. PICK s \in CurrentServerAddr : Move(t, Tries(<<s>>, 0, up \cap {s}))
    BY <1>2 DEF ConfigRequest
  <2>2. <<s>> \in Lists
    <3>1. s \in Addresses
      BY ListFact DEF CurrentServerAddr, Types, RestTypeOK
    <3> QED
      BY <3>1 DEF Lists
  <2>3. Tries(<<s>>, 0, up \cap {s}) \in Sends
    BY <2>2, TriesFact DEF Types, RestTypeOK
  <2> QED
    BY <1>2, <2>1, <2>3, MoveTypes DEF ConfigRequest
<1>3. CASE Send(t)
  <2>1. request[t] \in Sends /\ client = "up"
    BY <1>0, <1>3, RequestFact DEF Send, Idle
  <2>2. token \in Kinds
    BY <1>0, <2>1 DEF Sends, Idle, Kinds, Types, RestTypeOK
  <2>3. [request[t] EXCEPT !.state = "wait", !.tokens = @ \cup {token}] \in Sends
    BY <2>1, <2>2 DEF Sends
  <2> QED
    BY <1>3, <2>1, <2>3, MoveTypes DEF Send
<1>4. CASE Count(t)
  <2>1. request[t] \in Copies /\ client = "up"
    BY <1>0, <1>4, CountMoves, RequestFact DEF Count, Idle
  <2>2. PICK first \in Nat : Move(t, Tries(request[t].servers, first, request[t].steady))
    <3>1. \A n \in Nat : 0..(n - 1) \subseteq Nat
      OBVIOUS
    <3> QED
      BY <1>4, CountMoves, <2>1, <3>1, ListFact DEF Copies
  <2>3. Tries(request[t].servers, first, request[t].steady) \in Sends
    BY <2>1, <2>2, TriesFact DEF Copies
  <2> QED
    BY <2>1, <2>2, <2>3, MoveTypes
<1>5. CASE Answer(t) \/ Throw(t)
  BY <1>5, MoveTypes DEF Answer, Throw
<1>6. CASE TryFails(t)
  <2> DEFINE r == request[t]
             q == [r EXCEPT !.state = IF r.tries + 1 = Len(r.servers) THEN "failed" ELSE "send",
                            !.at = (@ + 1) % Len(r.servers), !.tries = @ + 1]
  <2>1. r \in Sends /\ client = "up"
    BY <1>0, <1>6, RequestFact DEF TryFails, Idle
  <2>2. (r.at + 1) % Len(r.servers) \in Nat
    BY <2>1, ListFact DEF Sends
  <2>3. q \in Sends
    <3>1. r.tries + 1 \in Nat
      BY <2>1 DEF Sends
    <3>2. (IF r.tries + 1 = Len(r.servers) THEN "failed" ELSE "send") \in {"failed", "send"}
      OBVIOUS
    <3> QED
      BY <2>1, <2>2, <3>1, <3>2, TryFact
  <2>4. Move(t, q)
    BY <1>6 DEF TryFails
  <2> QED
    BY <2>1, <2>3, <2>4, MoveTypes
<1> QED
  BY <1>1, <1>2, <1>3, <1>4, <1>5, <1>6 DEF Progress

LEMMA NextTypes == Types /\ [Next]_vars => Types'
<1>1. Types /\ UNCHANGED vars => Types'
  BY DEF vars, Types, RestTypeOK, RequestTypeOK, TokenInv
<1> QED
  BY <1>1, WorldTypes, ExpireTypes, SecurityTypes, PullTypes, RequestTypes DEF Next

-----------------------------------------------------------------------------
(* The walks of logins and requests: of the servers of the list that have  *)
(* been up all the time, all are left.                                     *)

LoginPlace == (login.tries + login.start) % Len(login.servers)

LoginInv ==
    Locked =>
        /\ login.start \in 0..(Len(login.servers) - 1)
        /\ login.tries \in 0..Len(login.servers)
        /\ login.steady \subseteq up
        /\ AllLeft(login.servers, login.steady, LoginPlace, Len(login.servers) - login.tries)

\* The request r, while the servers U are up.  A token that has expired makes a
\* server refuse that has been up.
Walk(r) ==
    /\ r.at \in 0..(Len(r.servers) - 1)
    /\ r.tries \in 0..Len(r.servers)
    /\ r.state = "failed" <=> r.tries = Len(r.servers)
    /\ "expired" \notin r.tokens => AllLeft(r.servers, r.steady, r.at, Len(r.servers) - r.tries)

Good(r, U) ==
    /\ r.state # "idle" => r.steady \subseteq U
    /\ r.state \in {"send", "wait", "failed"} => Walk(r)

RequestInv == \A t \in Threads : Good(request[t], up)

Inv == Types /\ LoginInv /\ RequestInv

LEMMA InvInit == Init => Inv
<1> SUFFICES ASSUME Init PROVE Inv
  OBVIOUS
<1>1. LoginInv
  BY DEF Init, LoginInv, Locked
<1>2. RequestInv
  BY DEF Init, RequestInv, Good, Idle
<1> QED
  BY <1>1, <1>2, TypesInit DEF Inv

LEMMA LoginType ==
  ASSUME Types, Locked
  PROVE  /\ login \in Logins /\ login.servers \in Lists /\ login.start \in Nat /\ login.tries \in Nat
         /\ Len(login.servers) \in Nat \ {0}
BY ListFact, LoginFact DEF Types, RestTypeOK, Locked

LEMMA WorldLogin ==
  ASSUME Inv, \E s \in Servers : GoDown(s) \/ ComeUp(s)
  PROVE  LoginInv'
<1> SUFFICES ASSUME Locked' PROVE LoginInv'
  BY DEF LoginInv
<1>0. PICK s \in Servers : GoDown(s) \/ ComeUp(s)
  OBVIOUS
<1>1. Locked /\ login \in Logins
  <2>1. Locked
    BY <1>0 DEF Locked, GoDown, ComeUp, Off
  <2> QED
    BY <2>1, LoginType DEF Inv
<1>2. /\ login'.servers = login.servers /\ login'.start = login.start /\ login'.tries = login.tries
      /\ login'.steady \subseteq login.steady
      /\ login'.steady \subseteq up'
  <2>1. CASE GoDown(s)
    BY <1>1, <2>1 DEF GoDown, Logins, Locked, Inv, LoginInv
  <2>2. CASE ComeUp(s)
    BY <1>1, <2>2 DEF ComeUp, Inv, LoginInv
  <2> QED
    BY <1>0, <2>1, <2>2
<1>3. LoginPlace' = LoginPlace
  BY <1>2 DEF LoginPlace
<1>4. AllLeft(login.servers, login'.steady, LoginPlace, Len(login.servers) - login.tries)
  BY <1>1, <1>2, FewerLeft DEF Inv, LoginInv
<1> QED
  BY <1>1, <1>2, <1>3, <1>4 DEF Inv, LoginInv

LEMMA PlaceFact ==
  ASSUME NEW s \in Lists, NEW start \in 0..(Len(s) - 1), NEW tries \in 0..(Len(s) - 1)
  PROVE  LET first == (tries + start) % Len(s)
         IN  /\ first \in 0..(Len(s) - 1)
             /\ (tries + 1 + start) % Len(s) = NextPlace(s, first)
<1> DEFINE n == Len(s)
<1>1. n \in Nat \ {0} /\ start \in 0..(n - 1) /\ tries \in 0..(n - 1)
  BY ListFact
<1> HIDE DEF n
<1>2. PICK i, j : i = tries + start /\ j = tries + 1 + start
  OBVIOUS
<1>3. i \in 0..(2 * n - 1) /\ j \in 0..(2 * n - 1) /\ j = i + 1
  BY <1>1, <1>2
<1>4. /\ i % n = IF i < n THEN i ELSE i - n
      /\ j % n = IF j < n THEN j ELSE j - n
  BY <1>1, <1>3, Round
<1>5. /\ i % n \in 0..(n - 1)
      /\ j % n = IF (i % n) + 1 = n THEN 0 ELSE (i % n) + 1
  BY <1>1, <1>3, <1>4
<1> QED
  BY <1>2, <1>5 DEF n, NextPlace

LEMMA SecurityLogin ==
  ASSUME Inv, Security
  PROVE  LoginInv'
<1>1. CASE BeginLogin
  <2>1. PICK start \in 0..(Len(serverList) - 1) :
           login' = [state |-> "try", servers |-> serverList, start |-> start, tries |-> 0,
                     steady |-> up \cap Range(serverList)]
    BY <1>1 DEF BeginLogin
  <2>2. serverList \in Lists /\ Len(serverList) \in Nat \ {0} /\ UNCHANGED up
    BY <1>1, ListFact DEF BeginLogin, world, Inv, Types, RestTypeOK
  <2>3. LoginPlace' = start
    <3> DEFINE n == Len(serverList)
    <3>1. n \in Nat \ {0} /\ start \in 0..(n - 1) /\ LoginPlace' = (0 + start) % n
      BY <2>1, <2>2 DEF LoginPlace
    <3> HIDE DEF n
    <3>2. 0 + start = start /\ start \in 0..(2 * n - 1) /\ start < n
      BY <3>1
    <3> QED
      BY <3>1, <3>2, Round
  <2>4. AllLeft(serverList, up \cap Range(serverList), start, Len(serverList))
    BY <2>2, AllLeftAtFirst
  <2> QED
    BY <2>1, <2>2, <2>3, <2>4 DEF LoginInv
<1>2. CASE LoginFails
  <2> DEFINE s == login.servers
  <2>1. /\ login \in Logins /\ s \in Lists /\ Len(s) \in Nat \ {0} /\ Locked /\ UNCHANGED up
        /\ login' = [login EXCEPT !.tries = @ + 1]
    BY <1>2, LoginType DEF LoginFails, world, Inv
  <2>2. /\ login.start \in 0..(Len(s) - 1) /\ login.tries \in 0..(Len(s) - 1) /\ login.steady \subseteq up
        /\ AllLeft(s, login.steady, LoginPlace, Len(s) - login.tries)
    BY <1>2, <2>1 DEF LoginFails, Tried, Inv, LoginInv
  <2>3. login'.servers = s /\ login'.start = login.start /\ login'.tries = login.tries + 1
        /\ login'.steady = login.steady
    BY <2>1 DEF Logins
  <2>4. LoginPlace \in 0..(Len(s) - 1) /\ LoginPlace' = NextPlace(s, LoginPlace)
    <3>1. LoginPlace' = (login.tries + 1 + login.start) % Len(s)
      BY <2>3 DEF LoginPlace
    <3> QED
      BY <2>1, <2>2, <3>1, PlaceFact DEF LoginPlace
  <2>5. s[LoginPlace + 1] \notin login.steady
    BY <1>2, <2>2 DEF LoginFails, LoginServer, LoginPlace
  <2>6. /\ Len(s) - login.tries \in 1..Len(s)
        /\ Len(s) - (login.tries + 1) = (Len(s) - login.tries) - 1 /\ login.tries + 1 \in 0..Len(s)
    BY <2>1, <2>2
  <2>7. AllLeft(s, login.steady, LoginPlace', Len(s) - (login.tries + 1))
    BY <2>1, <2>2, <2>4, <2>5, <2>6, OneLess
  <2> QED
    BY <2>1, <2>2, <2>3, <2>6, <2>7 DEF LoginInv
<1>3. CASE LoginSucceeds \/ LoginGivesUp
  BY <1>3 DEF LoginSucceeds, LoginGivesUp, LoginInv, Locked
<1>4. CASE Wake \/ EndPause
  BY <1>4 DEF Wake, EndPause, world, Inv, LoginInv, Locked, LoginPlace
<1> QED
  BY <1>1, <1>2, <1>3, <1>4 DEF Security

LEMMA NextLogin == Inv /\ [Next]_vars => LoginInv'
<1> SUFFICES ASSUME Inv, [Next]_vars PROVE LoginInv'
  OBVIOUS
<1>1. ASSUME UNCHANGED <<login, up>> PROVE LoginInv'
  BY <1>1 DEF Inv, LoginInv, Locked, LoginPlace
<1>2. CASE \/ UNCHANGED vars
           \/ \E p \in Pages : ChangePage(p)
           \/ Expire
           \/ PullSend \/ Pull \/ PullFails
           \/ Destroy \/ StopPuller \/ Stopped
  BY <1>1, <1>2 DEF vars, ChangePage, Expire, PullSend, Pull, PullAnswer, PullCompare, PullWrite, PullAgain, PullFails,
     Destroy, StopPuller, Stopped, world
<1>3. CASE \E t \in Threads : NamingRequest(t) \/ ConfigRequest(t) \/ Send(t) \/ Progress(t)
  <2>1. ASSUME NEW t, NEW r, Move(t, r) PROVE UNCHANGED <<login, up>>
    BY <2>1 DEF Move, world
  <2>2. UNCHANGED <<login, up>>
    <3>1. PICK t \in Threads : NamingRequest(t) \/ ConfigRequest(t) \/ Send(t) \/ Progress(t)
      BY <1>3
    <3>2. CASE Count(t)
      BY <2>1, <3>2, CountMoves DEF Inv
    <3> QED
      BY <2>1, <3>1, <3>2 DEF NamingRequest, ConfigRequest, Send, Progress, Answer, TryFails, Throw
  <2> QED
    BY <1>1, <2>2
<1> QED
  BY <1>2, <1>3, WorldLogin, SecurityLogin DEF Next

-----------------------------------------------------------------------------
(* Requests. *)

LEMMA RequestType ==
  ASSUME Types, NEW t \in Threads
  PROVE  /\ request[t] \in {Idle} \cup Copies \cup Sends
         /\ request[t].state \in {"send", "wait", "failed", "noServer"} <=> request[t] \in Sends
         /\ request[t].state = "idle" <=> request[t] = Idle
BY RequestFact DEF Types, RequestTypeOK, Sends, Idle, Copies

\* A request's walk when servers come up or go down, or its tokens grow old.
LEMMA GoodKept ==
  ASSUME NEW r \in Sends, NEW q \in Sends, NEW U, NEW V, Good(r, U),
         q.state = r.state, q.servers = r.servers, q.at = r.at, q.tries = r.tries,
         "expired" \in r.tokens => "expired" \in q.tokens,
         q.steady \subseteq r.steady, q.steady \subseteq V
  PROVE  Good(q, V)
BY FewerLeft DEF Good, Walk

LEMMA WorldGood ==
  ASSUME Inv, Types', \E s \in Servers : GoDown(s) \/ ComeUp(s)
  PROVE  RequestInv'
<1> SUFFICES ASSUME NEW t \in Threads PROVE Good(request'[t], up')
  BY DEF RequestInv
<1>0. PICK s \in Servers : GoDown(s) \/ ComeUp(s)
  OBVIOUS
<1> DEFINE r == request[t]
           q == request'[t]
<1>1. /\ r \in {Idle} \cup Copies \cup Sends /\ Good(r, up)
  BY RequestType DEF Inv, RequestInv
<1>2. CASE GoDown(s)
  <2>1. CASE r = Idle
    BY <1>2, <2>1 DEF GoDown, Good, Idle
  <2>2. CASE r \in Copies
    <3>1. q = [r EXCEPT !.steady = @ \ {s}] /\ up' = up \ {s}
      BY <1>2, <2>2 DEF GoDown, Copies, Idle
    <3> QED
      BY <1>1, <2>2, <3>1 DEF Good, Copies
  <2>3. CASE r \in Sends
    <3>1. q = [r EXCEPT !.steady = @ \ {s}] /\ up' = up \ {s}
      BY <1>2, <2>3 DEF GoDown, Sends, Idle
    <3>2. /\ q \in Sends /\ q.state = r.state /\ q.servers = r.servers /\ q.at = r.at /\ q.tries = r.tries
          /\ q.tokens = r.tokens /\ q.steady = r.steady \ {s}
      BY <2>3, <3>1 DEF Sends
    <3>3. r.steady \subseteq up
      BY <1>1, <2>3 DEF Good, Sends
    <3>4. q.steady \subseteq r.steady /\ q.steady \subseteq up'
      BY <3>1, <3>2, <3>3
    <3>5. Good(r, up)
      BY <1>1
    <3> HIDE DEF r, q
    <3>6. Good(q, up')
      BY <2>3, <3>2, <3>4, <3>5, GoodKept
    <3> QED
      BY <3>6 DEF q
  <2> QED
    BY <1>1, <2>1, <2>2, <2>3
<1>3. CASE ComeUp(s)
  BY <1>1, <1>3 DEF ComeUp, Good
<1> QED
  BY <1>0, <1>2, <1>3

LEMMA AgeingGood ==
  ASSUME Inv, NEW f \in {Expired, OlderExpired, CurrentOlder}, Tokens(f), UNCHANGED up
  PROVE  RequestInv'
<1> SUFFICES ASSUME NEW t \in Threads PROVE Good(request'[t], up)
  BY DEF RequestInv
<1>1. f \in [Kinds -> Kinds] /\ f["expired"] = "expired"
  BY Ageing
<1>2. Good(request[t], up)
  BY DEF Inv, RequestInv
<1>3. CASE request[t] \notin Sends
  BY <1>1, <1>2, <1>3, TokensTypes DEF Inv
<1>4. CASE request[t] \in Sends
  <2>1. request'[t] \in Sends /\ request'[t] = [request[t] EXCEPT !.tokens = {f[k] : k \in @}]
    BY <1>1, <1>4, TokensTypes DEF Inv
  <2>2. /\ request'[t].state = request[t].state /\ request'[t].servers = request[t].servers
        /\ request'[t].at = request[t].at /\ request'[t].tries = request[t].tries
        /\ request'[t].steady = request[t].steady
        /\ request'[t].tokens = {f[k] : k \in request[t].tokens}
    BY <1>4, <2>1 DEF Sends
  <2>3. request[t].steady \subseteq up
    BY <1>2, <1>4 DEF Good, Sends
  <2> QED
    BY <1>1, <1>2, <1>4, <2>1, <2>2, <2>3, GoodKept
<1> QED
  BY <1>3, <1>4

LEMMA MoveGood ==
  ASSUME Inv, NEW t \in Threads, NEW r, Move(t, r), Good(r, up)
  PROVE  RequestInv'
BY DEF Move, world, Inv, Types, RequestTypeOK, RequestInv

LEMMA StartGood ==
  ASSUME NEW servers \in Lists, NEW first \in 0..(Len(servers) - 1), NEW steady, steady \subseteq up
  PROVE  Good(Tries(servers, first, steady), up)
<1>1. Len(servers) \in Nat \ {0} /\ Len(servers) - 0 = Len(servers)
  BY ListFact
<1>2. AllLeft(servers, steady, first, Len(servers))
  BY AllLeftAtFirst
<1> DEFINE r == Tries(servers, first, steady)
<1>3. /\ r.state = "send" /\ r.servers = servers /\ r.at = first /\ r.tries = 0 /\ r.steady = steady
  BY DEF Tries
<1> HIDE DEF r
<1>4. Walk(r)
  BY <1>1, <1>2, <1>3 DEF Walk
<1> QED
  BY <1>3, <1>4 DEF Good, r

\* A try fails: if all tokens so far were good, the server has been down.
LEMMA TryFailsGood ==
  ASSUME Inv, NEW t \in Threads, TryFails(t)
  PROVE  RequestInv'
<1> DEFINE r == request[t]
           n == Len(r.servers)
           q == [r EXCEPT !.state = IF r.tries + 1 = n THEN "failed" ELSE "send",
                          !.at = (@ + 1) % n, !.tries = @ + 1]
<1>1. /\ r \in Sends /\ r.state = "wait" /\ r.servers \in Lists /\ n \in Nat \ {0} /\ Move(t, q)
      /\ r.servers[r.at + 1] \notin up \/ "expired" \in r.tokens
  BY RequestType, ListFact DEF TryFails, Server, Inv, Sends
<1>2. r.steady \subseteq up /\ Walk(r)
  BY <1>1 DEF Inv, RequestInv, Good
<1>3. r.at \in 0..(n - 1) /\ r.tries \in 0..(n - 1)
  BY <1>1, <1>2 DEF Walk
<1>4. (r.at + 1) % n = NextPlace(r.servers, r.at) /\ NextPlace(r.servers, r.at) \in 0..(n - 1)
  <2> HIDE DEF n
  <2>1. PICK i : i = r.at + 1
    OBVIOUS
  <2>2. i \in 0..(2 * n - 1)
    BY <1>1, <1>3, <2>1
  <2>3. i % n = IF i < n THEN i ELSE i - n
    BY <1>1, <2>2, Round
  <2> QED
    BY <1>1, <1>3, <2>1, <2>3 DEF NextPlace, n
<1>5. /\ q.servers = r.servers /\ q.at = NextPlace(r.servers, r.at) /\ q.tries = r.tries + 1
      /\ q.tokens = r.tokens /\ q.steady = r.steady
      /\ q.state = IF r.tries + 1 = n THEN "failed" ELSE "send"
  BY <1>1, <1>4 DEF Sends
<1>6. ASSUME "expired" \notin r.tokens PROVE AllLeft(r.servers, r.steady, q.at, n - q.tries)
  <2>1. AllLeft(r.servers, r.steady, r.at, n - r.tries) /\ r.servers[r.at + 1] \notin r.steady
    BY <1>1, <1>2, <1>6 DEF Walk
  <2>2. n - r.tries \in 1..n /\ n - q.tries = (n - r.tries) - 1
    BY <1>1, <1>3, <1>5
  <2> QED
    BY <1>1, <1>3, <1>5, <2>1, <2>2, OneLess
<1> HIDE DEF q
<1>7. Walk(q)
  BY <1>1, <1>3, <1>4, <1>5, <1>6 DEF Walk
<1>8. Good(q, up)
  BY <1>2, <1>5, <1>7 DEF Good
<1> QED
  BY <1>1, <1>8, MoveGood

LEMMA ThreadGood ==
  ASSUME Inv, NEW t \in Threads, NamingRequest(t) \/ ConfigRequest(t) \/ Send(t) \/ Progress(t)
  PROVE  RequestInv'
<1>0. request[t] \in {Idle} \cup Copies \cup Sends /\ Good(request[t], up)
  BY RequestType DEF Inv, RequestInv
<1>1. CASE NamingRequest(t)
  <2>1. Good([state |-> "copied", servers |-> serverList, steady |-> up \cap Range(serverList)], up)
    BY DEF Good
  <2> QED
    BY <1>1, <2>1, MoveGood DEF NamingRequest
<1>2. CASE ConfigRequest(t)
  <2>1. PICK s \in CurrentServerAddr : Move(t, Tries(<<s>>, 0, up \cap {s}))
    BY <1>2 DEF ConfigRequest
  <2>2. <<s>> \in Lists
    <3>1. s \in Addresses
      BY ListFact DEF CurrentServerAddr, Inv, Types, RestTypeOK
    <3> QED
      BY <3>1 DEF Lists
  <2>3. 0 \in 0..(Len(<<s>>) - 1) /\ up \cap {s} \subseteq up
    OBVIOUS
  <2> QED
    BY <2>1, <2>2, <2>3, StartGood, MoveGood
<1>3. CASE Send(t)
  <2> DEFINE r == request[t]
             q == [r EXCEPT !.state = "wait", !.tokens = @ \cup {token}]
  <2>1. r \in Sends /\ r.state = "send" /\ Move(t, q)
    BY <1>3, RequestType DEF Send, Inv
  <2>2. /\ q.state = "wait" /\ q.servers = r.servers /\ q.at = r.at /\ q.tries = r.tries
        /\ r.tokens \subseteq q.tokens /\ q.steady = r.steady
    BY <2>1 DEF Sends
  <2> HIDE DEF q
  <2>3. Good(q, up)
    BY <1>0, <2>1, <2>2 DEF Good, Walk
  <2> QED
    BY <2>1, <2>3, MoveGood
<1>4. CASE Count(t)
  <2>1. request[t] \in Copies /\ request[t].servers \in Lists /\ request[t].steady \subseteq up
    BY <1>0, <1>4, CountMoves DEF Inv, Copies, Good
  <2> QED
    BY <1>4, <2>1, CountMoves, StartGood, MoveGood DEF Inv
<1>5. CASE Answer(t) \/ Throw(t)
  <2>1. Good(Idle, up)
    BY DEF Good, Idle
  <2> QED
    BY <1>5, <2>1, MoveGood DEF Answer, Throw
<1> QED
  BY <1>1, <1>2, <1>3, <1>4, <1>5, TryFailsGood DEF Progress

LEMMA NextGood == Inv /\ [Next]_vars => RequestInv'
<1> SUFFICES ASSUME Inv, [Next]_vars PROVE RequestInv'
  OBVIOUS
<1>0. Types'
  BY NextTypes DEF Inv
<1>1. ASSUME UNCHANGED <<request, up>> PROVE RequestInv'
  BY <1>1 DEF Inv, RequestInv
<1>2. CASE \/ UNCHANGED vars
           \/ \E p \in Pages : ChangePage(p)
           \/ PullSend \/ Pull \/ PullFails
           \/ Destroy \/ StopPuller \/ Stopped
           \/ BeginLogin \/ LoginFails \/ LoginGivesUp \/ Wake \/ EndPause
  <2>1. UNCHANGED <<request, up>>
    BY <1>2 DEF vars, ChangePage, PullSend, Pull, PullAnswer, PullCompare, PullWrite, PullAgain, PullFails,
       Destroy, StopPuller, Stopped, BeginLogin, LoginFails, LoginGivesUp, Wake, EndPause, world
  <2> QED
    BY <1>1, <2>1
<1>3. CASE Expire \/ LoginSucceeds
  <2>1. \/ Tokens(Expired) \/ Tokens(OlderExpired) \/ Tokens(CurrentOlder)
    BY <1>3 DEF Expire, LoginSucceeds, Expired, OlderExpired, CurrentOlder
  <2>2. UNCHANGED up
    BY <1>3 DEF Expire, LoginSucceeds, world
  <2> QED
    BY <2>1, <2>2, AgeingGood
<1> QED
  BY <1>0, <1>2, <1>3, WorldGood, ThreadGood DEF Next, Security

-----------------------------------------------------------------------------
(* Theorems. *)

LEMMA NextInv == Inv /\ [Next]_vars => Inv'
BY NextTypes, NextLogin, NextGood DEF Inv

\* The inductive invariant.
THEOREM Invariant == Spec => []Inv
BY InvInit, NextInv, PTL DEF Spec

\* The types, for any constants: above all the list of servers never gets
\* empty, which getCurrentServerAddr() and reqAPI() divide by the size of, and
\* no request goes out without a token.
THEOREM TypeCorrect == Spec => []TypeOK
<1>1. Inv => TypeOK
  BY TypesAreTypes DEF Inv
<1> QED
  BY <1>1, Invariant, PTL

\* A request gives up only when each server of its list was down at some time
\* while it went on, or a token it carried had expired (NamingProxy::reqAPI,
\* ConfigProxy::reqAPI).
THEOREM AvailableServerAnswersHolds == Spec => []AvailableServerAnswers
<1>1. Inv => AvailableServerAnswers
  <2> SUFFICES ASSUME Inv, NEW t \in Threads, request[t].state = "failed", "expired" \notin request[t].tokens
               PROVE  Range(request[t].servers) \cap request[t].steady = {}
    BY DEF AvailableServerAnswers
  <2> DEFINE r == request[t]
  <2>1. r \in Sends /\ r.servers \in Lists /\ Len(r.servers) \in Nat \ {0}
    BY RequestType, ListFact DEF Inv, Sends
  <2>2. Walk(r)
    BY DEF Inv, RequestInv, Good
  <2>3. r.at \in 0..(Len(r.servers) - 1) /\ AllLeft(r.servers, r.steady, r.at, 0)
    BY <2>1, <2>2 DEF Walk
  <2> QED
    BY <2>1, <2>3, NoneLeft
<1> QED
  BY <1>1, Invariant, PTL

\* A login gives up only when each server of its list was down at some time
\* while it went on (SecurityManager::login).
THEOREM AvailableServerLogsInHolds == Spec => []AvailableServerLogsIn
<1>1. Inv => AvailableServerLogsIn
  <2> SUFFICES ASSUME Inv, Locked, Tried PROVE Range(login.servers) \cap login.steady = {}
    BY DEF AvailableServerLogsIn
  <2>1. /\ login.servers \in Lists /\ login.tries = Len(login.servers) /\ login.start \in 0..(Len(login.servers) - 1)
        /\ Len(login.servers) \in Nat \ {0}
    BY LoginType DEF Inv, LoginInv, Tried
  <2>2. AllLeft(login.servers, login.steady, LoginPlace, 0)
    BY <2>1 DEF Inv, LoginInv
  <2>3. LoginPlace \in 0..(Len(login.servers) - 1)
    BY <2>1 DEF LoginPlace
  <2> QED
    BY <2>1, <2>2, <2>3, NoneLeft
<1> QED
  BY <1>1, Invariant, PTL
================================================================================
