------------------------------- MODULE Requests --------------------------------
(***************************************************************************)
(* How a request finds a server: ServerListManager, which pulls the list   *)
(* of servers from an address server, NamingProxy and ConfigProxy, which   *)
(* send requests to them, and SecurityManager, which keeps an access token *)
(* for the requests and holds its lock while it logs in.                   *)
(*                                                                         *)
(* A token is worth something for a while.  A request that is tried again  *)
(* carries the tokens of the former tries too: they are appended to the    *)
(* same parameters.                                                        *)
(***************************************************************************)
EXTENDS Integers, Sequences, Functions

CONSTANTS
    Servers,     \* the servers
    Blank,       \* what an empty line or an error page becomes: no server's address
    Threads,     \* the threads that make requests
    Pages,       \* what the address server can answer: lists of servers
    MaxOutages,  \* bound: how often a server goes down
    MaxPages     \* bound: how often the address server's list changes

REQUEST_DOMAIN_RETRY_COUNT == 3

ASSUME ConstantsAssumption ==
    /\ Blank \notin Servers
    /\ Pages \subseteq Seq(Servers \cup {Blank}) \ {<<>>} /\ Pages # {}
    /\ MaxOutages \in Nat /\ MaxPages \in Nat

VARIABLES
    up,          \* the servers that answer
    page,        \* the list that the address server offers
    serverList,  \* the client's list
    domain,      \* nacosDomain
    puller,      \* the thread that pulls the list
    token,       \* the client's access token: "none", "current" or "expired"
    login,       \* SecurityManager::login(), in whichever thread
    refresher,   \* the thread that renews the token
    client,      \* the service: "new", "failed", "up", "stopping", "pulling", "stopped", "aborted"
    request,     \* request[t]: where t is in its request
    outages, pages  \* counters for the bounds

world == <<up, page, outages, pages>>
vars == <<up, page, serverList, domain, puller, token, login, refresher, client, request, outages, pages>>

Off == [state |-> "off"]
Idle == [state |-> "idle"]

\* Two NacosServerInfo are the same when their addresses are.
Addresses == Servers \cup {Blank}
Lists == Seq(Addresses) \ {<<>>}

\* A list is never empty: getCurrentServerAddr() divides by its size.
TypeOK ==
    /\ up \in SUBSET Servers /\ page \in Pages
    /\ serverList \in Lists /\ domain \in Addresses
    /\ puller \in [state : {"none", "send", "wait", "sleep", "ended"}]
                    \cup [state : {"compare", "write"}, list : Lists]
    /\ token \in {"none", "current", "expired"}
    /\ login \in {Off} \cup
           [state : {"try"}, servers : Lists, start : Nat, tries : Nat, steady : SUBSET Servers]
    /\ refresher \in {"none", "ttl", "login", "pause", "ended"}
    /\ client \in {"new", "failed", "up", "stopping", "pulling", "stopped", "aborted"}
    /\ \A t \in Threads : request[t] \in {Idle}
           \cup [state : {"copied"}, servers : Lists, steady : SUBSET Servers]
           \cup [state : {"send", "wait", "failed", "noServer"}, servers : Lists, at : Nat,
                 tries : Nat, tokens : SUBSET {"older", "current", "expired"}, steady : SUBSET Servers]
    /\ outages \in 0..MaxOutages /\ pages \in 0..MaxPages

\* A service with an endpoint has pulled the list once; one with serverAddr
\* never pulls.
Init ==
    /\ up \in SUBSET Servers
    /\ page \in Pages /\ serverList = page
    /\ domain = IF Len(page) = 1 THEN page[1] ELSE Blank
    /\ puller \in {[state |-> "none"], [state |-> "send"]}
    /\ token = "none" /\ login = Off /\ refresher = "none"
    /\ client = "new"
    /\ request = [t \in Threads |-> Idle]
    /\ outages = 0 /\ pages = 0

Locked == login # Off  \* login() has the write lock of SecurityManager::_rwLock

-----------------------------------------------------------------------------
(* The servers and the address server (external). *)

GoDown(s) ==
    /\ s \in up /\ outages < MaxOutages
    /\ up' = up \ {s}
    /\ outages' = outages + 1
    /\ login' = IF login = Off THEN login ELSE [login EXCEPT !.steady = @ \ {s}]
    /\ request' = [t \in Threads |-> IF request[t] = Idle THEN Idle
                                     ELSE [request[t] EXCEPT !.steady = @ \ {s}]]
    /\ UNCHANGED <<page, serverList, domain, puller, token, refresher, client, pages>>

ComeUp(s) ==
    /\ s \in Servers \ up
    /\ up' = up \cup {s}
    /\ UNCHANGED <<page, serverList, domain, puller, token, login, refresher, client, request, outages, pages>>

ChangePage(p) ==
    /\ p # page /\ pages < MaxPages
    /\ page' = p
    /\ pages' = pages + 1
    /\ UNCHANGED <<up, serverList, domain, puller, token, login, refresher, client, request, outages>>

\* The tokens that requests carry, each k of them now f[k].
Tokens(f) ==
    request' = [t \in Threads |-> IF request[t].state \in {"idle", "copied"} THEN request[t]
                                  ELSE [request[t] EXCEPT !.tokens = {f[k] : k \in @}]]

\* The token expires, or one from before the last login does.
Expire ==
    /\ \/ token = "current" /\ token' = "expired" /\ Tokens([k \in {"older", "current", "expired"} |-> "expired"])
       \/ UNCHANGED token
          /\ Tokens([older |-> "expired", current |-> "current", expired |-> "expired"])
    /\ UNCHANGED <<world, serverList, domain, puller, login, refresher, client>>

-----------------------------------------------------------------------------
(* SecurityManager *)

\* The constructor of the service, or the refresher, takes the lock and a
\* copy of the list.  RandomUtils::random includes both ends.
BeginLogin ==
    /\ ~Locked
    /\ client = "new" \/ refresher = "login"
    /\ \E start \in 0..(Len(serverList) - 1) :
          login' = [state |-> "try", servers |-> serverList, start |-> start, tries |-> 0, steady |-> up \cap Range(serverList)]
    /\ UNCHANGED <<world, serverList, domain, puller, token, refresher, client, request>>

\* Mutant: every try goes to the same server.
LoginServer_Same == login.servers[(login.start % Len(login.servers)) + 1]

LoginServer == login.servers[((login.tries + login.start) % Len(login.servers)) + 1]

Tried == login.tries = Len(login.servers)

\* doLogin() succeeds.
LoginSucceeds ==
    /\ Locked
    /\ ~Tried /\ LoginServer \in up
    /\ token' = "current"
    /\ Tokens([older |-> "older", current |-> "older", expired |-> "expired"])
    /\ login' = Off
    /\ IF client = "new" THEN client' = "up" /\ refresher' = "ttl"
       ELSE refresher' = (IF client = "up" THEN "ttl" ELSE "ended") /\ UNCHANGED client
    /\ UNCHANGED <<world, serverList, domain, puller>>

\* doLogin() throws: the next server is tried.
LoginFails ==
    /\ Locked
    /\ ~Tried /\ LoginServer \notin up
    /\ login' = [login EXCEPT !.tries = @ + 1]
    /\ UNCHANGED <<world, serverList, domain, puller, token, refresher, client, request>>

\* Mutant: the exception ends the refresher.
LoginGivesUp_Ends ==
    /\ Locked
    /\ Tried
    /\ login' = Off
    /\ IF client = "new" THEN client' = "failed" /\ UNCHANGED refresher
                         ELSE refresher' = "ended" /\ UNCHANGED client
    /\ UNCHANGED <<world, serverList, domain, puller, token, request>>

\* All servers were tried: the constructor throws, the refresher sleeps 30 s.
LoginGivesUp ==
    /\ Locked
    /\ Tried
    /\ login' = Off
    /\ IF client = "new" THEN client' = "failed" /\ UNCHANGED refresher
                         ELSE refresher' = "pause" /\ UNCHANGED client
    /\ UNCHANGED <<world, serverList, domain, puller, token, request>>

\* The token's time is over, or the service stops: there is one more login
\* in either case.
Wake ==
    /\ refresher = "ttl"
    /\ refresher' = "login"
    /\ UNCHANGED <<world, serverList, domain, puller, token, login, client, request>>

\* After the pause the token's whole time is waited for once more.
EndPause ==
    /\ refresher = "pause"
    /\ refresher' = IF client = "up" THEN "ttl" ELSE "ended"
    /\ UNCHANGED <<world, serverList, domain, puller, token, login, client, request>>

-----------------------------------------------------------------------------
(* ServerListManager::pullWorkerThread() *)

\* The request carries a token, too.
PullSend ==
    /\ puller.state = "send"
    /\ ~Locked
    /\ puller' = [state |-> "wait"]
    /\ UNCHANGED <<world, serverList, domain, token, login, refresher, client, request>>

\* Mutant: the empty lines of the answer are dropped.
Explode_NoBlank(p) == SelectSeq(p, LAMBDA s : s # Blank)

\* The answer's lines become servers, whatever the status code was.
Explode(p) == p

PullAnswer ==
    /\ puller.state = "wait"
    /\ puller' = [state |-> "compare", list |-> Explode(page)]
    /\ UNCHANGED <<world, serverList, domain, token, login, refresher, client, request>>

\* The NetworkException of httpGet() is no NacosException: nobody catches it
\* but Thread::threadFunc(), which aborts.
PullFails ==
    /\ puller.state = "wait"
    /\ client' = "aborted"
    /\ UNCHANGED <<world, serverList, domain, puller, token, login, refresher, request>>

\* Mutant: a list of the same length is taken for the same.
PullCompare_Length ==
    /\ puller.state = "compare"
    /\ puller' = IF Len(puller.list) # Len(serverList) THEN [puller EXCEPT !.state = "write"]
                                                       ELSE [state |-> "sleep"]
    /\ UNCHANGED <<world, serverList, domain, token, login, refresher, client, request>>

PullCompare ==
    /\ puller.state = "compare"
    /\ puller' = IF puller.list # serverList THEN [puller EXCEPT !.state = "write"]
                                             ELSE [state |-> "sleep"]
    /\ UNCHANGED <<world, serverList, domain, token, login, refresher, client, request>>

PullWrite ==
    /\ puller.state = "write"
    /\ serverList' = puller.list
    /\ puller' = [state |-> "sleep"]
    /\ UNCHANGED <<world, domain, token, login, refresher, client, request>>

PullAgain ==
    /\ puller.state = "sleep"
    /\ puller' = [state |-> IF client \in {"pulling", "stopped"} THEN "ended" ELSE "send"]
    /\ UNCHANGED <<world, serverList, domain, token, login, refresher, client, request>>

-----------------------------------------------------------------------------
(* Requests. *)

Tries(servers, start, steady) ==
    [state |-> "send", servers |-> servers, at |-> start, tries |-> 0, tokens |-> {}, steady |-> steady]
Move(t, r) ==
    /\ request' = [request EXCEPT ![t] = r]
    /\ UNCHANGED <<world, serverList, domain, puller, token, login, refresher, client>>

\* NamingProxy::reqAPI() copies the list ...
NamingRequest(t) ==
    /\ client = "up" /\ request[t] = Idle
    /\ Move(t, [state |-> "copied", servers |-> serverList, steady |-> up \cap Range(serverList)])

\* ... and counts the servers of the one there is now.
Count(t) ==
    /\ request[t].state = "copied"
    /\ LET servers == request[t].servers  n == Len(servers)  steady == request[t].steady
       IN  IF serverList = <<>> THEN Move(t, [Tries(servers, 0, steady) EXCEPT !.state = "noServer"])
           ELSE IF n = 0 THEN Move(t, Tries([i \in 1..REQUEST_DOMAIN_RETRY_COUNT |-> domain], 0, steady))
           ELSE \E random \in 0..n : Move(t, Tries(servers, random % n, steady))

\* rand() % size()
CurrentServerAddr == {serverList[(i % Len(serverList)) + 1] : i \in 0..Len(serverList)}

\* ConfigProxy::reqAPI() asks one server.
ConfigRequest(t) ==
    /\ client = "up" /\ request[t] = Idle
    /\ \E s \in CurrentServerAddr : Move(t, Tries(<<s>>, 0, up \cap {s}))

\* NacosAuthHttpDelegate: the token is appended under the read lock.
Send(t) ==
    /\ request[t].state = "send"
    /\ ~Locked
    /\ Move(t, [request[t] EXCEPT !.state = "wait", !.tokens = @ \cup {token}])

Server(t) == request[t].servers[request[t].at + 1]

\* The server has found a token that is worth something: the request is over.
Answer(t) ==
    /\ request[t].state = "wait"
    /\ Server(t) \in up
    /\ request[t].tokens # {"expired"}
    /\ Move(t, Idle)

\* Mutant: i is not counted.
TryFails_NoCount(t) ==
    /\ request[t].state = "wait"
    /\ Server(t) \notin up \/ "expired" \in request[t].tokens
    /\ Move(t, [request[t] EXCEPT
           !.state = IF request[t].tries = Len(request[t].servers) THEN "failed" ELSE "send",
           !.at = (@ + 1) % Len(request[t].servers)])

\* Mutant: selectedServer is not moved.
TryFails_Same(t) ==
    /\ request[t].state = "wait"
    /\ Server(t) \notin up \/ "expired" \in request[t].tokens
    /\ Move(t, [request[t] EXCEPT
           !.state = IF request[t].tries + 1 = Len(request[t].servers) THEN "failed" ELSE "send",
           !.tries = @ + 1])

\* The server is not there, or has found a token that has expired: the next
\* server is tried, until each was.
TryFails(t) ==
    /\ request[t].state = "wait"
    /\ Server(t) \notin up \/ "expired" \in request[t].tokens
    /\ Move(t, [request[t] EXCEPT
           !.state = IF request[t].tries + 1 = Len(request[t].servers) THEN "failed" ELSE "send",
           !.at = (@ + 1) % Len(request[t].servers),
           !.tries = @ + 1])

\* The exception leaves reqAPI().
Throw(t) ==
    /\ request[t].state \in {"failed", "noServer"}
    /\ Move(t, Idle)

-----------------------------------------------------------------------------
(* ~ObjectConfigData(): the refresher is stopped and joined, then the puller. *)

Destroy ==
    /\ client = "up"
    /\ \A t \in Threads : request[t] = Idle
    /\ client' = "stopping"
    /\ UNCHANGED <<world, serverList, domain, puller, token, login, refresher, request>>

StopPuller ==
    /\ client = "stopping" /\ refresher = "ended"
    /\ client' = "pulling"
    /\ UNCHANGED <<world, serverList, domain, puller, token, login, refresher, request>>

Stopped ==
    /\ client = "pulling" /\ puller.state \in {"none", "ended"}
    /\ client' = "stopped"
    /\ UNCHANGED <<world, serverList, domain, puller, token, login, refresher, request>>

-----------------------------------------------------------------------------
Security == BeginLogin \/ LoginSucceeds \/ LoginFails \/ LoginGivesUp \/ Wake \/ EndPause
Pull == PullAnswer \/ PullCompare \/ PullWrite \/ PullAgain
Progress(t) == Count(t) \/ Answer(t) \/ TryFails(t) \/ Throw(t)

Next ==
    /\ client # "aborted"
    /\ \/ \E s \in Servers : GoDown(s) \/ ComeUp(s)
       \/ \E p \in Pages : ChangePage(p)
       \/ Expire
       \/ Security
       \/ PullSend \/ Pull \/ PullFails
       \/ \E t \in Threads : NamingRequest(t) \/ ConfigRequest(t) \/ Send(t) \/ Progress(t)
       \/ Destroy \/ StopPuller \/ Stopped

\* A try ends with an answer or a timeout, a sleep with time.  A reader gets
\* the lock that a login returns.  Nothing makes a server come back, a token
\* expire, the address server answer well or the application stop.
Alive(A) == client # "aborted" /\ A
Fairness ==
    /\ WF_vars(Alive(Security)) /\ WF_vars(Alive(Pull)) /\ SF_vars(Alive(PullSend))
    /\ \A t \in Threads : WF_vars(Alive(Progress(t))) /\ SF_vars(Alive(Send(t)))
    /\ WF_vars(Alive(StopPuller \/ Stopped))

Spec == Init /\ [][Next]_vars /\ Fairness

-----------------------------------------------------------------------------
(* Properties. *)

\* A request whose tokens were good fails only if each server of the list it
\* copied was down at some time while it went on ("failed to req API: ... after
\* all servers ... tried", NamingProxy::reqAPI).
AvailableServerAnswers ==
    \A t \in Threads :
        request[t].state = "failed" /\ "expired" \notin request[t].tokens
            => Range(request[t].servers) \cap request[t].steady = {}

\* The same for a login that gives up ("Login failed after all servers are
\* tried", SecurityManager::login).
AvailableServerLogsIn ==
    Locked /\ Tried => Range(login.servers) \cap login.steady = {}

Busy(t) == request[t].state \in {"copied", "send", "wait"}

\* Every request returns, whatever logs in or replaces the list meanwhile
\* (NamingProxy::reqAPI, NacosAuthHttpDelegate), and so does the destructor,
\* whatever its two threads are at (SecurityManager::stop,
\* ServerListManager::stop).
CallsReturn ==
    /\ \A t \in Threads : Busy(t) ~> ~Busy(t) \/ client = "aborted"
    /\ client = "stopping" ~> client \in {"stopped", "aborted"}

\* While there is a server in the list that is up, an expired token is renewed,
\* although earlier logins failed (tokenRefreshThreadFunc).
TokenRenewed ==
    <>[](Range(serverList) \cap up # {})
        => (token = "expired" /\ client = "up" ~> token # "expired" \/ client # "up")

\* The list of the client becomes the address server's (pullWorkerThread).
ListFollowsPage ==
    <>[](serverList = Explode(page) \/ puller.state \in {"none", "ended"} \/ client = "aborted")
================================================================================
